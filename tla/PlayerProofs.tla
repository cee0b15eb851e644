---------------------------- MODULE PlayerProofs ----------------------------
(***************************************************************************)
(* Proofs about Player.  Its steps are steps of SpiRamFifo or invisible to *)
(* it, so SpiRamFifo's invariant carries over; Link ties the two tasks'    *)
(* own state to the calls they have under way.                             *)
(***************************************************************************)
EXTENDS Player, SpiRamFifoProofs

(* The tasks' own state, apart from the decoder's buffer.                  *)
TaskTypes ==
  /\ tpc \in ReaderTaskPlaces /\ nleft \in 0..MaxWrite
  /\ madRunning \in BOOLEAN /\ mpc \in DecoderPlaces
  /\ n \in 0..MaxRead /\ rem \in 0..MaxRead

(* Which call is under way in which place of a task, how much it is for,   *)
(* and that a read never asks for more than is there.                      *)
Link ==
  /\ tpc # "write" => wpc = "idle"
  /\ madRunning = FALSE <=> mpc = "none"
  /\ tpc = "free" => mpc = "none"
  /\ mpc # "read" => rpc = "idle"
  /\ mpc \in {"call", "read"} => n >= 1 /\ rem + n <= MaxRead
  /\ mpc = "call" => n <= sent - taken
  /\ mpc = "read" => /\ rlen <= sent - taken
                     /\ rgot + rlen = n
                     /\ rpc = "idle" => rlen = 0
  /\ NoUnderrun

PControl == IInv /\ TaskTypes /\ Link

\* Steps of one task inside its call to the fifo.
WStepP == WStep /\ UNCHANGED <<tvars, mvars>>
RStepP == RStep /\ UNCHANGED <<tvars, mvars>>

-----------------------------------------------------------------------------
LEMMA PControlInit == PInit => PControl
<1> SUFFICES ASSUME PInit PROVE PControl
  OBVIOUS
<1>1. IInv
  BY InitInv DEF PInit
<1>2. TaskTypes
  <2>1. madRunning \in BOOLEAN
    BY Zenon DEF PInit
  <2>2. /\ tpc \in ReaderTaskPlaces /\ nleft \in 0..MaxWrite
        /\ mpc \in DecoderPlaces /\ n \in 0..MaxRead /\ rem \in 0..MaxRead
    BY BoundAssumption DEF PInit, ReaderTaskPlaces, DecoderPlaces
  <2> QED
    BY <2>1, <2>2, Zenon DEF TaskTypes
<1>3. madRunning = FALSE <=> mpc = "none"
  BY DEF PInit
<1>4. Link
  BY <1>3 DEF PInit, Init, Link, NoUnderrun
<1> QED
  BY <1>1, <1>2, <1>4 DEF PControl

(* Every step of the player is a step of the fifo or leaves it alone.      *)
LEMMA PlayerStepsFifo == PControl /\ [PNext]_pvars => [Next]_vars
<1> SUFFICES ASSUME PControl, [PNext]_pvars PROVE [Next]_vars
  OBVIOUS
<1>1. CASE \E len \in 1..MaxWrite : WriteFragment(len)
  BY <1>1 DEF WriteFragment, Next
<1>2. CASE ReadFifo
  <2>1. n \in 1..MaxRead
    BY <1>2, BoundAssumption DEF ReadFifo, PControl, TaskTypes, Link
  <2> QED
    BY <1>2, <2>1 DEF ReadFifo, Next
<1>3. CASE WStepP \/ RStepP
  BY <1>3 DEF WStepP, RStepP, Next
<1>4. CASE UNCHANGED vars
  BY <1>4
<1>5. \/ \E len \in 1..MaxWrite : WriteFragment(len)
      \/ ReadFifo \/ WStepP \/ RStepP
      \/ UNCHANGED vars
  BY DEF PNext, ReaderTask, DecoderTask, WStepP, RStepP, pvars, OpenConn,
         RecvFails, RecvNetbuf, NetbufDone, StartCheck, Count, AskFill, Silence,
         ReadDone, Decode
<1> QED
  BY <1>1, <1>2, <1>3, <1>4, <1>5

LEMMA LinkStep == PControl /\ [PNext]_pvars => (TaskTypes /\ Link)'
<1> SUFFICES ASSUME PControl, [PNext]_pvars PROVE (TaskTypes /\ Link)'
  OBVIOUS
<1>1. /\ fifoFill \in Nat /\ sent \in Nat /\ taken \in Nat /\ wn \in Nat
      /\ rn \in Nat /\ rlen \in Nat /\ rgot \in Nat /\ wlen \in Nat
      /\ fifoRpos \in Cells
  BY SizeAssumption, BoundAssumption DEF PControl, IInv, Control, TypeOK
<1>2. mux = "free" => fifoFill = sent - taken
  BY <1>1 DEF PControl, IInv, Control, MutexInv, FillExact
<1>3. /\ rpc = "check" => fifoFill = sent - taken
      /\ rpc = "check" => rn <= rlen
  BY <1>1, ChunkBounds
  DEF PControl, IInv, Control, MutexInv, ChunkInv, FillExact
<1> USE <1>1, BoundAssumption
    DEF PControl, TaskTypes, Link, NoUnderrun, ReaderTaskPlaces, DecoderPlaces,
        vars, tvars, mvars, ring, counts, sems, writer, reader
<1>4. CASE OpenConn \/ RecvFails \/ NetbufDone \/ Count
  <2>1. CASE OpenConn \/ RecvFails \/ Count
    BY <2>1 DEF OpenConn, RecvFails, Count
  <2>2. CASE NetbufDone
    <3>1. madRunning = FALSE => mpc = "none"
      OBVIOUS
    <3>2. tpc' = "count" \/ (tpc' = "free" /\ mpc = "none")
      BY <2>2, <3>1, Zenon DEF NetbufDone, TaskTypes
    <3> QED
      BY <2>2, <3>2 DEF NetbufDone
  <2> QED
    BY <1>4, <2>1, <2>2
<1>5. CASE \E total \in 1..MaxWrite : RecvNetbuf(total)
  BY <1>5 DEF RecvNetbuf
<1>6. CASE \E len \in 1..MaxWrite : WriteFragment(len)
  BY <1>6 DEF WriteFragment, WriteCall
<1>7. CASE WStepP
  BY <1>7 DEF WStepP, WStep, WTake, WFull, WCopy, WUpdate, WSignal, WWait
<1>8. CASE StartCheck
  <2>1. CASE madRunning' = TRUE /\ mpc' \in {"want", "dead"}
    <3>1. madRunning' \in BOOLEAN /\ ~(madRunning' = FALSE)
      BY <2>1, Zenon
    <3>2. mpc # "call" /\ mpc # "read" => TaskTypes' /\ Link'
      BY <1>8, <2>1, <3>1 DEF StartCheck
    <3>3. mpc = "none"
      BY <1>8, <2>1 DEF StartCheck
    <3> QED
      BY <3>2, <3>3
  <2>2. CASE UNCHANGED <<madRunning, mpc>>
    BY <1>8, <2>2 DEF StartCheck
  <2> QED
    BY <1>8, <2>1, <2>2, Zenon DEF StartCheck
<1>9. CASE AskFill
  BY <1>2, <1>9 DEF AskFill, READBUFSZ
<1>10. CASE Silence \/ ReadDone
  BY <1>10 DEF Silence, ReadDone
<1>11. CASE ReadFifo
  BY <1>11 DEF ReadFifo, ReadCall
<1>12. CASE \E left \in 0..READBUFSZ : Decode(left)
  BY <1>12 DEF Decode, READBUFSZ
<1>13. CASE RStepP
  <2>1. CASE RCopy
    BY <1>3, <1>13, <2>1 DEF RStepP, RCopy
  <2>2. CASE RTake \/ RUpdate \/ RSignal
    BY <1>13, <2>2 DEF RStepP, RTake, RUpdate, RSignal
  <2>3. CASE RShort
    BY <1>3, <1>13, <2>3 DEF RStepP, RShort
  <2>4. CASE RMark \/ RWait
    BY <2>4 DEF RMark, RWait
  <2> QED
    BY <1>13, <2>1, <2>2, <2>3, <2>4 DEF RStepP, RStep
<1>14. CASE UNCHANGED pvars
  BY <1>14 DEF pvars
<1> QED
  BY <1>4, <1>5, <1>6, <1>7, <1>8, <1>9, <1>10, <1>11, <1>12, <1>13, <1>14
  DEF PNext, ReaderTask, DecoderTask, WStepP, RStepP

-----------------------------------------------------------------------------
\* Bytes of the read under way that are not yet counted in rem.
Got == IF mpc = "read" THEN rgot ELSE 0

(* What is in readBuf is the stretch of the stream that ends where the     *)
(* read under way began.                                                   *)
BufInv ==
  /\ readBuf \in [Slots -> Nat]
  /\ \A i \in 1..rem : readBuf[i] = taken - Got - rem + i

LEMMA BufInit == PInit => BufInv
  BY BoundAssumption DEF PInit, Init, BufInv, Got, Blank, Slots

LEMMA BufStep == PControl /\ BufInv /\ [PNext]_pvars => BufInv'
<1> SUFFICES ASSUME PControl, BufInv, [PNext]_pvars PROVE BufInv'
  OBVIOUS
<1>1. /\ taken \in Nat /\ rgot \in Nat /\ rn \in Nat /\ n \in 0..MaxRead
      /\ rem \in 0..MaxRead /\ rlen \in Nat /\ dest \in [Slots -> Nat]
      /\ readBuf \in [Slots -> Nat] /\ MaxRead \in Nat
  BY BoundAssumption DEF PControl, IInv, Control, TypeOK, TaskTypes, BufInv
<1>2. CASE ReadDone
  <2>1. /\ mpc = "read" /\ rgot = n /\ n >= 1 /\ rem + n <= MaxRead
        /\ mpc' = "want" /\ rem' = rem + n /\ taken' = taken /\ rgot' = rgot
    BY <1>1, <1>2 DEF ReadDone, PControl, Link, vars, reader
  <2>2. readBuf' = [i \in Slots |-> IF rem < i /\ i <= rem + n
                                      THEN dest[i - rem] ELSE readBuf[i]]
    BY <1>2 DEF ReadDone
  <2>3. ASSUME NEW i \in Slots, rem < i, i <= rem + n
        PROVE  i - rem \in Slots
    BY <1>1, <2>1, <2>3 DEF Slots
  <2>4. readBuf' \in [Slots -> Nat]
    BY <1>1, <2>2, <2>3
  <2>5. ASSUME NEW i \in 1 .. rem + n
        PROVE  readBuf'[i] = taken - (rem + n) + i
    <3>1. i \in Slots
      BY <1>1, <2>1 DEF Slots
    <3>2. CASE i <= rem
      <4>1. readBuf[i] = taken - rgot - rem + i
        BY <1>1, <2>1, <3>2 DEF BufInv, Got
      <4>2. readBuf'[i] = readBuf[i]
        BY <1>1, <2>2, <3>1, <3>2
      <4> QED
        BY <1>1, <2>1, <4>1, <4>2
    <3>3. CASE rem < i
      <4>1. i - rem \in 1..rgot
        BY <1>1, <2>1, <3>3
      <4>2. dest[i - rem] = taken - rgot + (i - rem)
        BY <4>1 DEF PControl, IInv, ReadInOrder
      <4>3. readBuf'[i] = dest[i - rem]
        BY <1>1, <2>2, <3>1, <3>3
      <4> QED
        BY <1>1, <2>1, <4>2, <4>3
    <3> QED
      BY <1>1, <3>2, <3>3
  <2>6. taken' - Got' - rem' = taken - (rem + n)
    BY <1>1, <2>1 DEF Got
  <2> QED
    BY <2>1, <2>4, <2>5, <2>6 DEF BufInv
<1>3. CASE \E left \in 0..READBUFSZ : Decode(left)
  <2>1. PICK left \in 0..MaxRead : Decode(left)
    BY <1>3 DEF READBUFSZ
  <2>2. /\ mpc = "want" /\ mpc' \in {"want", "wedged"} /\ rem = MaxRead /\ rem' = left
        /\ taken' = taken
    BY <2>1 DEF Decode, READBUFSZ, vars, reader
  <2>3. readBuf' = [i \in Slots |-> IF i <= left
                                      THEN readBuf[(MaxRead - left) + i] ELSE 0]
    BY <2>1 DEF Decode, READBUFSZ
  <2>4. ASSUME NEW i \in Slots, i <= left
        PROVE  (MaxRead - left) + i \in Slots
    BY <1>1, <2>4 DEF Slots
  <2>5. readBuf' \in [Slots -> Nat]
    BY <1>1, <2>3, <2>4
  <2>6. ASSUME NEW i \in 1..left
        PROVE  readBuf'[i] = taken - left + i
    <3>1. i \in Slots /\ (MaxRead - left) + i \in 1..rem
      BY <1>1, <2>2 DEF Slots
    <3>2. readBuf[(MaxRead - left) + i] = taken - 0 - rem + ((MaxRead - left) + i)
      BY <2>2, <3>1 DEF BufInv, Got
    <3> QED
      BY <1>1, <2>2, <2>3, <3>1, <3>2
  <2>7. taken' - Got' - rem' = taken - left
    BY <1>1, <2>2 DEF Got
  <2> QED
    BY <2>2, <2>5, <2>6, <2>7 DEF BufInv
<1>4. CASE UNCHANGED <<rem, readBuf>> /\ taken' - Got' = taken - Got
  BY <1>4 DEF BufInv
<1>5. \/ ReadDone \/ \E left \in 0..READBUFSZ : Decode(left)
      \/ UNCHANGED <<rem, readBuf>> /\ taken' - Got' = taken - Got
  <2> USE DEF mvars, Got
  <2>1. CASE RStepP
    <3>1. CASE RCopy
      <4>1. mpc = "read" /\ mpc' = "read"
        BY <2>1, <3>1 DEF RStepP, RCopy, PControl, Link
      <4> QED
        BY <1>1, <2>1, <3>1, <4>1 DEF RStepP, RCopy
    <3>2. CASE ~RCopy
      BY <2>1, <3>2 DEF RStepP, RStep, RTake, RShort, RMark, RUpdate, RSignal,
                        RWait
    <3> QED
      BY <3>1, <3>2
  <2>2. CASE WStepP \/ \E len \in 1..MaxWrite : WriteFragment(len)
    BY <2>2 DEF WStepP, WStep, WTake, WFull, WCopy, WUpdate, WSignal, WWait,
                WriteFragment, WriteCall, reader
  <2>3. CASE StartCheck
    <3>1. mpc = "none" /\ mpc' # "read" /\ UNCHANGED <<rem, readBuf, taken>>
      BY <2>3 DEF StartCheck, PControl, Link, vars, reader
    <3> QED
      BY <3>1
  <2>4. CASE AskFill \/ Silence
    BY <2>4 DEF AskFill, Silence, vars, reader
  <2>5. CASE ReadFifo
    BY <1>1, <2>5 DEF ReadFifo, ReadCall
  <2>6. CASE \/ OpenConn \/ RecvFails \/ NetbufDone \/ Count
             \/ \E total \in 1..MaxWrite : RecvNetbuf(total)
             \/ UNCHANGED pvars
    BY <2>6 DEF OpenConn, RecvFails, NetbufDone, Count, RecvNetbuf, pvars, vars,
                reader
  <2> QED
    BY <2>1, <2>2, <2>3, <2>4, <2>5, <2>6
    DEF PNext, ReaderTask, DecoderTask, WStepP, RStepP
<1> QED
  BY <1>2, <1>3, <1>4, <1>5

-----------------------------------------------------------------------------
(* Before the decoder is started half of the fifo is free whenever a       *)
(* netbuf is received, and the netbuf in hand has its room reserved.       *)
StartInv ==
  /\ wpc = "idle" => wlen = 0
  /\ mpc = "none" =>
       /\ wpc # "wait"
       /\ tpc = "write" => nleft + wlen <= SPIRAMSIZE - (sent - taken)
       /\ tpc \in {"open", "recv", "count"}
            => SPIRAMSIZE \div 2 <= SPIRAMSIZE - (sent - taken)

LEMMA StartInit == PInit => StartInv
<1>1. SPIRAMSIZE \div 2 <= SPIRAMSIZE
  BY SizeAssumption
<1> QED
  BY <1>1, SizeAssumption DEF PInit, Init, StartInv

LEMMA StartStep ==
  ASSUME MaxWrite <= SPIRAMSIZE \div 2
  PROVE  PControl /\ StartInv /\ [PNext]_pvars => StartInv'
<1> SUFFICES ASSUME PControl, StartInv, [PNext]_pvars PROVE StartInv'
  OBVIOUS
<1> DEFINE half == SPIRAMSIZE \div 2
<1>1. /\ fifoFill \in Nat /\ sent \in Nat /\ taken \in Nat /\ wn \in Nat
      /\ wlen \in Nat /\ nleft \in Nat /\ fifoWpos \in Cells
      /\ half \in Nat /\ MaxWrite <= half
  BY SizeAssumption, BoundAssumption
  DEF PControl, IInv, Control, TypeOK, TaskTypes
<1>2. wpc = "check" => fifoFill = sent - taken /\ wn <= wlen
  BY <1>1, ChunkBounds
  DEF PControl, IInv, Control, MutexInv, ChunkInv, FillExact
<1>3. mux = "free" => fifoFill = sent - taken
  BY <1>1 DEF PControl, IInv, Control, MutexInv, FillExact
<1>4. /\ tpc # "write" => wpc = "idle"
      /\ mpc = "none" => rpc = "idle"
  BY DEF PControl, Link
<1> HIDE DEF half
<1> USE <1>1, <1>4, SizeAssumption, BoundAssumption
    DEF StartInv, vars, tvars, mvars, ring, writer, reader
<1>5. CASE OpenConn \/ RecvFails \/ Count
  BY <1>5 DEF OpenConn, RecvFails, Count
<1>6. CASE \E total \in 1..MaxWrite : RecvNetbuf(total)
  BY <1>6 DEF RecvNetbuf, half
<1>7. CASE \E len \in 1..MaxWrite : WriteFragment(len)
  BY <1>7 DEF WriteFragment, WriteCall
<1>8. CASE WStepP
  <2>1. CASE WCopy
    BY <1>2, <1>8, <2>1 DEF WStepP, WCopy
  <2>2. CASE WFull
    BY <1>2, <1>8, <2>2 DEF WStepP, WFull, Room
  <2>3. CASE WTake \/ WUpdate
    BY <1>8, <2>3 DEF WStepP, WTake, WUpdate
  <2>4. CASE WSignal \/ WWait
    BY <1>8, <2>4 DEF WStepP, WSignal, WWait
  <2> QED
    BY <1>8, <2>1, <2>2, <2>3, <2>4 DEF WStepP, WStep
<1>9. CASE NetbufDone
  <2>1. mpc = "none" => tpc' = "free"
    BY <1>9, Zenon DEF NetbufDone, PControl, Link
  <2> QED
    BY <1>9, <2>1 DEF NetbufDone
<1>10. CASE StartCheck
  <2>1. /\ UNCHANGED vars /\ tpc = "free" /\ tpc' = "count"
        /\ mpc' = "none" => SPIRAMSIZE \div 2 <= SPIRAMSIZE - fifoFill
    BY <1>10 DEF StartCheck, half
  <2> QED
    BY <1>3, <1>10, <2>1 DEF StartCheck, half
<1>11. CASE AskFill \/ Silence \/ ReadDone \/ ReadFifo
  BY <1>11 DEF AskFill, Silence, ReadDone, ReadFifo, ReadCall
<1>12. CASE \E left \in 0..READBUFSZ : Decode(left)
  BY <1>12 DEF Decode
<1>13. CASE RStepP
  <2>1. mpc # "none" /\ mpc' = mpc /\ UNCHANGED writer
    BY <1>13 DEF RStepP, RStep, RTake, RShort, RMark, RCopy, RUpdate, RSignal,
                 RWait
  <2> QED
    BY <2>1
<1>14. CASE UNCHANGED pvars
  BY <1>14 DEF pvars
<1> QED
  BY <1>5, <1>6, <1>7, <1>8, <1>9, <1>10, <1>11, <1>12, <1>13, <1>14
  DEF PNext, ReaderTask, DecoderTask, WStepP, RStepP

-----------------------------------------------------------------------------
LEMMA PControlStep == PControl /\ [PNext]_pvars => PControl'
  BY PlayerStepsFifo, StepInv, LinkStep DEF PControl

LEMMA PlayerInvariance == PSafeSpec => [](PControl /\ BufInv)
<1>1. PInit => PControl /\ BufInv
  BY PControlInit, BufInit
<1>2. PControl /\ BufInv /\ [PNext]_pvars => (PControl /\ BufInv)'
  BY PControlStep, BufStep
<1> QED
  BY <1>1, <1>2, PTL DEF PSafeSpec

(* The receive loop and the decoder use the fifo as SpiRamFifo lets them:  *)
(* what is proved of the fifo holds in the player.                         *)
THEOREM PlayerUsesFifo == PSafeSpec => SafeSpec
<1>1. PInit => Init
  BY DEF PInit
<1>2. PControl /\ [PNext]_pvars => [Next]_vars
  BY PlayerStepsFifo
<1> QED
  BY <1>1, <1>2, PlayerInvariance, PTL DEF PSafeSpec, SafeSpec

(* The types of the player's state.                                        *)
THEOREM PlayerTypeCorrect == PSafeSpec => []PTypeOK
<1>1. PControl /\ BufInv => PTypeOK
  BY DEF PControl, BufInv, IInv, Control, TaskTypes, PTypeOK
<1> QED
  BY <1>1, PlayerInvariance, PTL

(* The decoder never meets an empty fifo inside spiRamFifoRead and the     *)
(* underrun counter never moves, whatever the sizes and the network.       *)
THEOREM NoUnderrunEver == PSafeSpec => []NoUnderrun
<1>1. PControl => NoUnderrun
  BY DEF PControl, Link
<1> QED
  BY <1>1, PlayerInvariance, PTL

(* MAD decodes unbroken stretches of what was received.                    *)
THEOREM DecoderSeesStream == PSafeSpec => []DecodesStream
<1>1. PControl /\ BufInv => DecodesStream
  <2> SUFFICES ASSUME PControl, BufInv, mpc = "want", rem = MaxRead,
                      NEW i \in Slots
               PROVE  readBuf[i] = taken - MaxRead + i
    BY DEF DecodesStream, READBUFSZ
  <2>1. taken \in Nat /\ i \in 1..rem
    BY DEF PControl, IInv, Control, TypeOK, Slots
  <2>2. readBuf[i] = taken - 0 - rem + i
    BY <2>1 DEF BufInv, Got
  <2> QED
    BY <2>1, <2>2, BoundAssumption
<1> QED
  BY <1>1, PlayerInvariance, PTL

(* With netbufs of at most half the fifo, the receive loop never waits for *)
(* room before there is a decoder.                                         *)
THEOREM StartupIsSafe ==
  ASSUME MaxWrite <= SPIRAMSIZE \div 2
  PROVE  PSafeSpec => []StartupNeverWaits
<1>1. PControl /\ StartInv => StartupNeverWaits
  <2> SUFFICES ASSUME PControl, StartInv, ~madRunning PROVE wpc # "wait"
    BY DEF StartupNeverWaits
  <2>1. mpc = "none"
    BY Zenon DEF PControl, Link, TaskTypes
  <2> QED
    BY <2>1 DEF StartInv
<1>2. PControl /\ StartInv /\ [PNext]_pvars => (PControl /\ StartInv)'
  BY PControlStep, StartStep
<1>3. PInit => PControl /\ StartInv
  BY PControlInit, StartInit
<1> QED
  BY <1>1, <1>2, <1>3, PTL DEF PSafeSpec
-----------------------------------------------------------------------------
\* The receive loop sleeps until somebody reads from the fifo.
Asleep == wpc = "wait" /\ semCanWrite = 0
Alive == mpc \notin {"none", "dead", "wedged"}

(* While it sleeps only the decoder does anything.                         *)
LEMMA OnlyDecoder ==
  ASSUME PControl, Asleep, [PNext]_pvars
  PROVE  DecoderTask \/ UNCHANGED pvars
<1>1. tpc = "write" /\ wpc = "wait" /\ semCanWrite = 0
  BY DEF PControl, Link, Asleep
<1>2. ~ReaderTask
  BY <1>1 DEF ReaderTask, WriteFragment, WriteCall, WStep, WTake, WFull, WCopy, WUpdate,
              WSignal, WWait, NetbufDone, StartCheck, Count
<1> QED
  BY <1>1, <1>2 DEF PNext, OpenConn, RecvFails, RecvNetbuf

(* A receive loop that sleeps without a decoder, or with one that is stuck *)
(* at a frame longer than its buffer, sleeps for ever: nothing changes any *)
(* more, the decoder is never started if it was not, and the radio has to  *)
(* be switched off (user_main.c, lines 201-214).  That is what             *)
(* DecoderFiresUp fails on, and what becomes of a decoder that could not   *)
(* be created, since madRunning is set all the same.                       *)
THEOREM StrandedIsForever == PSafeSpec => [](Asleep /\ ~Alive => [][FALSE]_pvars)
<1>1. PControl /\ Asleep /\ ~Alive /\ [PNext]_pvars => UNCHANGED pvars
  <2> SUFFICES ASSUME PControl, Asleep, ~Alive, [PNext]_pvars PROVE UNCHANGED pvars
    OBVIOUS
  <2>1. mpc \in {"none", "dead", "wedged"} /\ rpc = "idle"
    BY DEF Alive, PControl, Link
  <2>2. ~DecoderTask
    BY <2>1 DEF DecoderTask, AskFill, Silence, ReadFifo, ReadDone, Decode, RStep, RTake,
                RShort, RMark, RCopy, RUpdate, RSignal, RWait
  <2> QED
    BY <2>2, OnlyDecoder
<1>2. Asleep /\ ~Alive /\ UNCHANGED pvars => (Asleep /\ ~Alive)'
  BY DEF pvars, mvars, vars, sems, writer, Asleep, Alive
<1>3. UNCHANGED pvars => [FALSE]_pvars
  OBVIOUS
<1> QED
  BY <1>1, <1>2, <1>3, PlayerInvariance, PTL DEF PSafeSpec
-----------------------------------------------------------------------------
\* What the decoder's steps wait for, and the receive loop's return from its
\* sleep: their guards.  (Whatever the other variables are, an action's primed
\* variables have values.)
DecoderCan ==
  \/ mpc = "want" /\ mux = "free"
  \/ mpc \in {"silence", "call"}
  \/ mpc = "read" /\ rpc \in {"idle", "check", "update", "signal"}
  \/ mpc = "read" /\ rpc = "take" /\ mux = "free"

GuardsEnable ==
  /\ DecoderCan => ENABLED <<DecoderTask>>_pvars
  /\ wpc = "wait" /\ semCanWrite = 1 => ENABLED <<ReaderTask>>_pvars

\* The places of the decoder in the order it comes to them, until it has read.
Quiet == Asleep /\ mpc = "silence"
Full == Asleep /\ mpc = "want" /\ rem = READBUFSZ
Asking == Asleep /\ mpc = "want" /\ rem < READBUFSZ
Calling == Asleep /\ mpc = "call"
Back == Asleep /\ mpc = "read" /\ rpc = "idle"
Taking == Asleep /\ mpc = "read" /\ rpc = "take"
Checking == Asleep /\ mpc = "read" /\ rpc = "check"
Updating == Asleep /\ mpc = "read" /\ rpc = "update"
Signalling == Asleep /\ mpc = "read" /\ rpc = "signal"
AtPlace == \/ Quiet \/ Full \/ Asking \/ Calling \/ Back
           \/ Taking \/ Checking \/ Updating \/ Signalling

Woken == wpc = "wait" /\ semCanWrite = 1
Wedged == mpc = "wedged"

(* While the receive loop sleeps the decoder never waits for anything.     *)
LEMMA AllPlaces ==
  ASSUME PControl, Asleep, Alive
  PROVE  AtPlace /\ DecoderCan
<1>1. mpc \in {"want", "silence", "call", "read"}
  BY DEF PControl, TaskTypes, DecoderPlaces, Alive
<1>2. rpc \in {"idle", "take", "check", "update", "signal"}
  BY DEF PControl, IInv, Control, TypeOK, ReaderPlaces, WriterPlaces, Link, NoUnderrun
<1>3. mux = "free" \/ rpc \in {"check", "update"}
  BY DEF PControl, IInv, Control, TypeOK, MutexInv, Asleep
<1>4. mpc # "read" => rpc = "idle"
  BY DEF PControl, Link
<1>5. rem = READBUFSZ \/ rem < READBUFSZ
  BY BoundAssumption DEF PControl, TaskTypes, READBUFSZ
<1> QED
  BY <1>1, <1>2, <1>3, <1>4, <1>5
  DEF DecoderCan, AtPlace, Quiet, Full, Asking, Calling, Back, Taking, Checking, Updating, Signalling

(* The fifo a receive loop waits for is not empty: the decoder finds data. *)
LEMMA DataThere ==
  ASSUME PControl, Asleep, rpc # "signal"
  PROVE  fifoFill \in Nat /\ fifoFill > 0
<1>1. Room < wn /\ wn <= SPIRAMSIZE - fifoWpos
  BY DEF PControl, IInv, Control, ChunkInv, WakeInv, Asleep
<1> QED
  BY <1>1, SizeAssumption DEF PControl, IInv, Control, TypeOK, Room, Cells

(* Each step of the decoder takes it to the next place.                    *)
LEMMA DecoderMoves ==
  ASSUME PControl, Asleep, DecoderTask
  PROVE  /\ Quiet => Full' \/ Asking'
         /\ Full => Asking' \/ Wedged'
         /\ Asking => Calling'
         /\ Calling => Taking'
         /\ Back => Full' \/ Asking'
         /\ Taking => Checking'
         /\ Checking => Updating'
         /\ Updating => Signalling'
         /\ Signalling => Woken'
<1>1. /\ rem \in 0..MaxRead /\ n \in 0..MaxRead /\ MaxRead \in Nat /\ READBUFSZ = MaxRead
      /\ mpc \in {"call", "read"} => rem + n <= MaxRead
      /\ mpc # "read" => rpc = "idle"
      /\ rpc \notin {"mark", "wait"}
      /\ wpc = "wait" /\ semCanWrite = 0
  BY BoundAssumption DEF PControl, TaskTypes, Link, NoUnderrun, READBUFSZ, Asleep
<1> USE <1>1 DEF vars, tvars, mvars, ring, counts, sems, writer, reader, Asleep,
    Quiet, Full, Asking, Calling, Back, Taking, Checking, Updating, Signalling, Woken,
    Wedged
<1>2. CASE Silence
  BY <1>2 DEF Silence
<1>3. CASE \E left \in 0..READBUFSZ : Decode(left)
  BY <1>3 DEF Decode
<1>4. CASE AskFill
  <2>1. fifoFill \in Nat /\ fifoFill > 0
    BY <1>4, DataThere DEF AskFill
  <2>2. rem < READBUFSZ
    BY <1>4 DEF AskFill
  <2>3. n' # 0
    BY <1>4, <2>1, <2>2 DEF AskFill
  <2> QED
    BY <1>4, <2>2, <2>3 DEF AskFill
<1>5. CASE ReadFifo
  BY <1>5 DEF ReadFifo, ReadCall
<1>6. CASE ReadDone
  BY <1>6 DEF ReadDone
<1>7. CASE RStepP
  <2>1. ~RShort
    <3> SUFFICES ASSUME RShort PROVE FALSE
      OBVIOUS
    <3>1. (rpc \notin {"mark", "wait"})'
      <4>1. PControl'
        BY <1>7, PControlStep DEF PNext, DecoderTask, RStepP
      <4> QED
        BY <4>1 DEF PControl, Link, NoUnderrun
    <3> QED
      BY <3>1 DEF RShort
  <2> QED
    BY <1>7, <2>1 DEF RStepP, RStep, RTake, RMark, RCopy, RUpdate, RSignal, RWait
<1> QED
  BY <1>2, <1>3, <1>4, <1>5, <1>6, <1>7 DEF DecoderTask, RStepP

(* A place is left only for the next one.                                  *)
LEMMA PlacesKept ==
  /\ PControl /\ Quiet /\ [PNext]_pvars => Quiet' \/ Full' \/ Asking'
  /\ PControl /\ Full /\ [PNext]_pvars => Full' \/ Asking' \/ Wedged'
  /\ PControl /\ Asking /\ [PNext]_pvars => Asking' \/ Calling'
  /\ PControl /\ Calling /\ [PNext]_pvars => Calling' \/ Taking'
  /\ PControl /\ Back /\ [PNext]_pvars => Back' \/ Full' \/ Asking'
  /\ PControl /\ Taking /\ [PNext]_pvars => Taking' \/ Checking'
  /\ PControl /\ Checking /\ [PNext]_pvars => Checking' \/ Updating'
  /\ PControl /\ Updating /\ [PNext]_pvars => Updating' \/ Signalling'
  /\ PControl /\ Signalling /\ [PNext]_pvars => Signalling' \/ Woken'
<1>1. ASSUME UNCHANGED pvars
      PROVE  /\ Quiet => Quiet'
             /\ Full => Full'
             /\ Asking => Asking'
             /\ Calling => Calling'
             /\ Back => Back'
             /\ Taking => Taking'
             /\ Checking => Checking'
             /\ Updating => Updating'
             /\ Signalling => Signalling'
  BY <1>1 DEF pvars, mvars, vars, sems, writer, reader, READBUFSZ, Asleep, Quiet, Full,
              Asking, Calling, Back, Taking, Checking, Updating, Signalling
<1>2. AtPlace => Asleep
  BY DEF AtPlace, Quiet, Full, Asking, Calling, Back, Taking, Checking, Updating, Signalling
<1>3. ASSUME PControl, AtPlace, [PNext]_pvars PROVE DecoderTask \/ UNCHANGED pvars
  BY <1>2, <1>3, OnlyDecoder
<1>4. ASSUME PControl, AtPlace, DecoderTask
      PROVE  /\ Quiet => Full' \/ Asking'
             /\ Full => Asking' \/ Wedged'
             /\ Asking => Calling'
             /\ Calling => Taking'
             /\ Back => Full' \/ Asking'
             /\ Taking => Checking'
             /\ Checking => Updating'
             /\ Updating => Signalling'
             /\ Signalling => Woken'
  BY <1>2, <1>4, DecoderMoves
<1>5. ASSUME PControl, AtPlace, [PNext]_pvars
      PROVE  /\ Quiet => Quiet' \/ Full' \/ Asking'
             /\ Full => Full' \/ Asking' \/ Wedged'
             /\ Asking => Asking' \/ Calling'
             /\ Calling => Calling' \/ Taking'
             /\ Back => Back' \/ Full' \/ Asking'
             /\ Taking => Taking' \/ Checking'
             /\ Checking => Checking' \/ Updating'
             /\ Updating => Updating' \/ Signalling'
             /\ Signalling => Signalling' \/ Woken'
  <2>1. CASE DecoderTask
    BY <1>4, <1>5, <2>1
  <2>2. CASE UNCHANGED pvars
    BY <1>1, <2>2
  <2> QED
    BY <1>3, <1>5, <2>1, <2>2
<1> QED
  BY <1>5 DEF AtPlace

LEMMA PlacesLeft ==
  /\ PControl /\ Quiet /\ <<DecoderTask>>_pvars => Full' \/ Asking'
  /\ PControl /\ Full /\ <<DecoderTask>>_pvars => Asking' \/ Wedged'
  /\ PControl /\ Asking /\ <<DecoderTask>>_pvars => Calling'
  /\ PControl /\ Calling /\ <<DecoderTask>>_pvars => Taking'
  /\ PControl /\ Back /\ <<DecoderTask>>_pvars => Full' \/ Asking'
  /\ PControl /\ Taking /\ <<DecoderTask>>_pvars => Checking'
  /\ PControl /\ Checking /\ <<DecoderTask>>_pvars => Updating'
  /\ PControl /\ Updating /\ <<DecoderTask>>_pvars => Signalling'
  /\ PControl /\ Signalling /\ <<DecoderTask>>_pvars => Woken'
<1>1. AtPlace => Asleep
  BY DEF AtPlace, Quiet, Full, Asking, Calling, Back, Taking, Checking, Updating, Signalling
<1> QED
  BY <1>1, DecoderMoves DEF AtPlace

LEMMA PlacesEnable ==
  PControl /\ GuardsEnable /\ AtPlace => ENABLED <<DecoderTask>>_pvars
<1>1. AtPlace => Asleep /\ Alive
  BY DEF AtPlace, Quiet, Full, Asking, Calling, Back, Taking, Checking, Updating,
         Signalling, Alive
<1> QED
  BY <1>1, AllPlaces DEF GuardsEnable

(* The wake-up is not taken back.                                          *)
LEMMA WokenReturns ==
  /\ PControl /\ Woken /\ [PNext]_pvars => Woken' \/ (wpc = "take")'
  /\ PControl /\ Woken /\ <<ReaderTask>>_pvars => (wpc = "take")'
  /\ GuardsEnable /\ Woken => ENABLED <<ReaderTask>>_pvars
<1> USE DEF vars, tvars, mvars, ring, counts, sems, writer, reader, Woken
<1>1. ASSUME PControl, Woken, ReaderTask PROVE (wpc = "take")'
  <2>1. tpc = "write"
    BY <1>1 DEF PControl, Link
  <2> QED
    BY <1>1, <2>1 DEF ReaderTask, WriteFragment, WriteCall, WStep, WTake, WFull, WCopy,
                      WUpdate, WSignal, WWait, NetbufDone, StartCheck, Count
<1>2. ASSUME Woken, DecoderTask PROVE Woken'
  BY <1>2 DEF DecoderTask, AskFill, Silence, ReadFifo, ReadCall, ReadDone, Decode, RStep,
              RTake, RShort, RMark, RCopy, RUpdate, RSignal, RWait
<1>3. ASSUME Woken, UNCHANGED pvars PROVE Woken'
  BY <1>3 DEF pvars
<1>4. ASSUME PControl, Woken PROVE tpc = "write"
  BY <1>4 DEF PControl, Link
<1>5. PControl /\ Woken /\ [PNext]_pvars => Woken' \/ (wpc = "take")'
  BY <1>1, <1>2, <1>3, <1>4 DEF PNext, OpenConn, RecvFails, RecvNetbuf
<1> QED
  BY <1>1, <1>5 DEF GuardsEnable

(* With a decoder that goes on the receive loop never sleeps for good:     *)
(* whatever the decoder is at, it comes to read from the fifo and wakes    *)
(* the loop, for every size of the fifo, of its chunks and of the netbufs. *)
(* It fails to only at a frame longer than its buffer (frame.c, line 404), *)
(* where it is stuck itself.                                               *)
THEOREM SleeperIsWoken ==
  PSpec /\ []GuardsEnable
    => ((wpc = "wait" /\ Alive) ~> (wpc = "take" \/ Wedged))
<1> DEFINE Calm == []PControl /\ [][PNext]_pvars /\ []GuardsEnable /\ WF_pvars(DecoderTask)
<1>1. PSpec /\ []GuardsEnable => Calm /\ WF_pvars(ReaderTask)
  BY PlayerInvariance, PTL DEF PSpec, PSafeSpec
<1>2. Calm => (Signalling ~> Woken)
  BY PlacesKept, PlacesLeft, PlacesEnable, PTL DEF AtPlace
<1>3. Calm => (Updating ~> Signalling)
  BY PlacesKept, PlacesLeft, PlacesEnable, PTL DEF AtPlace
<1>4. Calm => (Checking ~> Updating)
  BY PlacesKept, PlacesLeft, PlacesEnable, PTL DEF AtPlace
<1>5. Calm => (Taking ~> Checking)
  BY PlacesKept, PlacesLeft, PlacesEnable, PTL DEF AtPlace
<1>6. Calm => (Calling ~> Taking)
  BY PlacesKept, PlacesLeft, PlacesEnable, PTL DEF AtPlace
<1>7. Calm => (Asking ~> Calling)
  BY PlacesKept, PlacesLeft, PlacesEnable, PTL DEF AtPlace
<1>8. Calm => (Full ~> (Asking \/ Wedged))
  BY PlacesKept, PlacesLeft, PlacesEnable, PTL DEF AtPlace
<1>9. Calm => (Quiet ~> (Full \/ Asking))
  BY PlacesKept, PlacesLeft, PlacesEnable, PTL DEF AtPlace
<1>10. Calm => (Back ~> (Full \/ Asking))
  BY PlacesKept, PlacesLeft, PlacesEnable, PTL DEF AtPlace
<1>11. Calm /\ WF_pvars(ReaderTask) => (Woken ~> (wpc = "take"))
  BY WokenReturns, PTL
<1>12. PControl /\ wpc = "wait" /\ Alive
         => Woken \/ AtPlace
  <2>1. PControl => semCanWrite \in {0, 1}
    BY DEF PControl, IInv, Control, TypeOK
  <2> QED
    BY <2>1, AllPlaces DEF Woken, Asleep
<1>13. Calm => []PControl
  BY PTL
<1> HIDE DEF Calm
<1> QED
  BY <1>1, <1>2, <1>3, <1>4, <1>5, <1>6, <1>7, <1>8, <1>9, <1>10, <1>11, <1>12, <1>13, PTL
     DEF AtPlace
=============================================================================
