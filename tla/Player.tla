------------------------------- MODULE Player -------------------------------
(***************************************************************************)
(* The two tasks at the ends of the byte fifo: the receive loop of         *)
(* tskreader (src/mp3/user/user_main.c), which hands every received netbuf *)
(* to spiRamFifoWrite and starts the decoder once the fifo is half full,   *)
(* and the refill loop of the decoder, tskmad and input of                 *)
(* src/mp3/user/mad_helper.c.  The fifo between them is SpiRamFifo, step   *)
(* by step: MaxWrite bounds a netbuf, MaxRead is READBUFSZ.                *)
(*                                                                         *)
(* Left to module Radio: which channel a connection is for, and when the   *)
(* knob asks for another one.  Here either may happen after any netbuf.    *)
(***************************************************************************)
EXTENDS SpiRamFifo

ASSUME ReadBufAssumption == MaxRead > 0

VARIABLES
  tpc,          \* where tskreader is
  nleft,        \* bytes of the current netbuf not yet handed over
  madRunning,   \* tskreader's flag: it has tried to start the decoder
  mpc,          \* where the decoder is; "none" and "dead": there is none,
                \* "wedged": it goes round and round without a byte read
  n, rem,       \* input's locals: bytes to read, bytes in readBuf
  readBuf       \* the decoder's buffer

tvars == <<tpc, nleft, madRunning>>
mvars == <<mpc, n, rem, readBuf>>
pvars == <<vars, tvars, mvars>>

READBUFSZ == MaxRead

ReaderTaskPlaces == {"open", "recv", "write", "free", "count"}
DecoderPlaces == {"none", "dead", "wedged", "want", "silence", "call", "read"}

PInit ==
  /\ Init
  /\ tpc = "open" /\ nleft = 0 /\ madRunning = FALSE
  /\ mpc = "none" /\ n = 0 /\ rem = 0 /\ readBuf = Blank
-----------------------------------------------------------------------------
(* tskreader                                                               *)

\* openConn_netconn succeeds; a failed attempt is retried and leaves no trace.
\* The netbuf that holds the server's answer is thrown away.
OpenConn ==
  /\ tpc = "open" /\ tpc' = "recv"
  /\ UNCHANGED <<vars, nleft, madRunning, mvars>>

\* netconn_recv fails: the connection is closed and opened again.
RecvFails ==
  /\ tpc = "recv" /\ tpc' = "open"
  /\ UNCHANGED <<vars, nleft, madRunning, mvars>>

\* netconn_recv delivers a netbuf (TCP delivers no empty one).
RecvNetbuf(total) ==
  /\ tpc = "recv" /\ sent + total <= MaxStream
  /\ nleft' = total /\ tpc' = "write"
  /\ UNCHANGED <<vars, madRunning, mvars>>

\* netbuf_data / netbuf_next: the next fragment is written to the fifo.
WriteFragment(len) ==
  /\ tpc = "write" /\ len <= nleft
  /\ WriteCall(len)
  /\ nleft' = nleft - len
  /\ UNCHANGED <<tpc, madRunning, mvars>>

\* All fragments written; the decoder is looked after unless it was started.
NetbufDone ==
  /\ tpc = "write" /\ wpc = "idle" /\ nleft = 0
  /\ tpc' = IF madRunning THEN "count" ELSE "free"
  /\ UNCHANGED <<vars, nleft, madRunning, mvars>>

\* Less than half of the fifo is free: the decoder is started.  The task may
\* fail to be created or to allocate its buffers; madRunning is set anyway.
StartCheckLate ==
  /\ tpc = "free" /\ mux = "free"
  /\ IF SPIRAMSIZE - fifoFill < SPIRAMSIZE \div 4
       THEN madRunning' = TRUE /\ mpc' \in {"want", "dead"}
       ELSE UNCHANGED <<madRunning, mpc>>
  /\ tpc' = "count"
  /\ UNCHANGED <<vars, nleft, n, rem, readBuf>>
StartCheck ==
  /\ tpc = "free" /\ mux = "free"
  /\ IF SPIRAMSIZE - fifoFill < SPIRAMSIZE \div 2
       THEN madRunning' = TRUE /\ mpc' \in {"want", "dead"}
       ELSE UNCHANGED <<madRunning, mpc>>
  /\ tpc' = "count"
  /\ UNCHANGED <<vars, nleft, n, rem, readBuf>>

\* The knob was not looked at or not moved, or another channel is selected.
\* (At its maximum the radio restarts: all of this state is gone, and Radio
\* takes over.)
Count ==
  /\ tpc = "count" /\ tpc' \in {"recv", "open"}
  /\ UNCHANGED <<vars, nleft, madRunning, mvars>>

ReaderTask ==
  \/ \E len \in 1..MaxWrite : WriteFragment(len)
  \/ WStep /\ UNCHANGED <<tvars, mvars>>
  \/ NetbufDone
  \/ StartCheck
  \/ Count
-----------------------------------------------------------------------------
(* tskmad and input                                                        *)

\* input: how much fits readBuf and how much spiRamFifoFill says there is.
AskFillTrusting ==
  /\ mpc = "want" /\ rem < READBUFSZ /\ mux = "free"
  /\ n' = READBUFSZ - rem
  /\ mpc' = IF n' = 0 THEN "silence" ELSE "call"
  /\ UNCHANGED <<vars, tvars, rem, readBuf>>
AskFillBeyond ==
  /\ mpc = "want" /\ rem < READBUFSZ /\ mux = "free"
  /\ n' = fifoFill
  /\ mpc' = IF n' = 0 THEN "silence" ELSE "call"
  /\ UNCHANGED <<vars, tvars, rem, readBuf>>
AskFill ==
  /\ mpc = "want" /\ rem < READBUFSZ /\ mux = "free"
  /\ n' = IF fifoFill < READBUFSZ - rem THEN fifoFill ELSE READBUFSZ - rem
  /\ mpc' = IF n' = 0 THEN "silence" ELSE "call"
  /\ UNCHANGED <<vars, tvars, rem, readBuf>>

\* Nothing there: silent samples are pushed, which takes a while.
Silence ==
  /\ mpc = "silence" /\ mpc' = "want"
  /\ UNCHANGED <<vars, tvars, n, rem, readBuf>>

ReadFifo ==
  /\ mpc = "call"
  /\ ReadCall(n)
  /\ mpc' = "read"
  /\ UNCHANGED <<tvars, n, rem, readBuf>>

\* spiRamFifoRead has filled readBuf from rem on.
ReadDone ==
  /\ mpc = "read" /\ rpc = "idle"
  /\ readBuf' = [i \in Slots |-> IF rem < i /\ i <= rem + n
                                   THEN dest[i - rem] ELSE readBuf[i]]
  /\ rem' = rem + n /\ mpc' = "want"
  /\ UNCHANGED <<vars, tvars, n>>

\* readBuf is full: MAD decodes frames until what is left holds no whole one;
\* input then moves those last bytes to the front.  The rest is dead.  At a
\* header whose frame is longer than readBuf MAD gives up none of them: input
\* has nothing to fetch, MAD is given the same bytes again, for ever.
DecodeUnmoved(left) ==
  /\ mpc = "want" /\ rem = READBUFSZ
  /\ rem' = left
  /\ mpc' = IF left = READBUFSZ THEN "wedged" ELSE "want"
  /\ readBuf' = [i \in Slots |-> IF i <= left THEN readBuf[i] ELSE 0]
  /\ UNCHANGED <<vars, tvars, n>>
Decode(left) ==
  /\ mpc = "want" /\ rem = READBUFSZ
  /\ rem' = left
  /\ mpc' = IF left = READBUFSZ THEN "wedged" ELSE "want"
  /\ readBuf' = [i \in Slots |-> IF i <= left
                                   THEN readBuf[(READBUFSZ - left) + i] ELSE 0]
  /\ UNCHANGED <<vars, tvars, n>>

DecoderTask ==
  \/ AskFill \/ Silence \/ ReadFifo \/ ReadDone
  \/ \E left \in 0..READBUFSZ : Decode(left)
  \/ RStep /\ UNCHANGED <<tvars, mvars>>
-----------------------------------------------------------------------------
PNext == \/ OpenConn \/ RecvFails
         \/ \E total \in 1..MaxWrite : RecvNetbuf(total)
         \/ ReaderTask
         \/ DecoderTask

PSafeSpec == PInit /\ [][PNext]_pvars

\* Each task goes on when it can.  The network and the knob owe us nothing.
PSpec == PSafeSpec /\ WF_pvars(ReaderTask) /\ WF_pvars(DecoderTask)
-----------------------------------------------------------------------------
PTypeOK ==
  /\ TypeOK
  /\ tpc \in ReaderTaskPlaces /\ nleft \in 0..MaxWrite
  /\ madRunning \in BOOLEAN
  /\ mpc \in DecoderPlaces
  /\ n \in 0..MaxRead /\ rem \in 0..MaxRead /\ readBuf \in [Slots -> Nat]

(* The decoder never runs into an empty fifo inside spiRamFifoRead: it     *)
(* reads no more than it was told is there, and although the answer is old *)
(* when it is used, nobody else takes bytes out (mad_helper.c, 157-171).   *)
(* So fifoUdrCnt stays 0 and lines 76-78 never see an underrun.            *)
NoUnderrun == rpc \notin {"mark", "wait"} /\ fifoUdrCnt = 0

(* What MAD decodes is an unbroken stretch of what was received: the bytes *)
(* left over from the last round and the ones read behind them join up     *)
(* (mad_helper.c, lines 153-176), across waits, silences and reconnects.   *)
DecodesStream ==
  mpc = "want" /\ rem = READBUFSZ
    => \A i \in Slots : readBuf[i] = taken - READBUFSZ + i

(* While there is no decoder to make room, the receive loop never waits    *)
(* for room (user_main.c, lines 198-214): for netbufs of at most half the  *)
(* fifo's size.                                                            *)
StartupNeverWaits == ~madRunning => wpc # "wait"

(* "The reader task will fire up the MP3 decoder as soon as it has read    *)
(* enough MP3 data" (user_main.c, lines 334-335), where enough is what     *)
(* line 208 asks for.                                                      *)
DecoderFiresUp == (SPIRAMSIZE - fifoFill < SPIRAMSIZE \div 2) ~> madRunning

(* The receive loop always gets back to the network: every write ends      *)
(* (user_main.c, line 201), unless the decoder that would make room did    *)
(* not come up, or gets stuck at a frame longer than its buffer, before    *)
(* the write or while it waits (frame.c, line 404; mad_helper.c, 156).     *)
WritesEnd ==
  (wpc # "idle" /\ mpc \notin {"dead", "wedged"})
    ~> (wpc = "idle" \/ mpc \in {"dead", "wedged"})
=============================================================================
