------------------------------- MODULE MadStream -------------------------------
(***************************************************************************)
(* How the decoder finds frames in a stream of bytes: mad_header_decode of *)
(* src/mp3/mad/frame.c, mad_stream_buffer and mad_stream_sync of           *)
(* src/mp3/mad/stream.c, and the loops of tskmad and input around them     *)
(* (src/mp3/user/mad_helper.c).                                            *)
(*                                                                         *)
(* A byte is a cell: the first of a true frame, one inside it, one of      *)
(* junk, or one that looks like a header and is none.  The state is the    *)
(* part of readBuf from next_frame on; what lies before it is never looked *)
(* at again.  One action is one call of mad_frame_decode with the error()  *)
(* after it, or one byte that input takes from the fifo.                   *)
(*                                                                         *)
(* Left out: skiplen, which nothing sets; streams of free bit rate, whose  *)
(* header is as good as a false one of any length or a bad one.            *)
(*                                                                         *)
(* A definition that stands right before another one, without a comment of *)
(* its own, is that other one with a plausible bug in it: the properties   *)
(* below are checked to notice it.                                         *)
(***************************************************************************)
EXTENDS Integers, Sequences, FiniteSetsExt

CONSTANTS READBUFSZ,     \* bytes in readBuf (2106)
          GUARD,         \* MAD_BUFFER_GUARD (8)
          FrameLens,     \* lengths of the true frames
          FalseLens,     \* lengths that false headers declare
          HEADER,        \* bytes of a frame before its main data
          MainBegins,    \* values of main_data_begin
          MaxOdd         \* bound: cells in readBuf that a clean stream lacks

ASSUME StreamAssumption ==
  /\ READBUFSZ \in Nat /\ GUARD \in Nat \ {0} /\ HEADER \in Nat \ {0}
  /\ READBUFSZ > GUARD /\ MainBegins \subseteq Nat /\ MaxOdd \in Nat
  /\ FrameLens \subseteq Nat /\ FalseLens \subseteq Nat \ {0}
  /\ \A n \in FrameLens : n >= HEADER /\ n + GUARD <= READBUFSZ

VARIABLES
  ahead,     \* the cells from next_frame to bufend
  sync,      \* stream->sync
  mode,      \* "decode", "refill" (in input) or "crashed"
  rest,      \* the source: bytes left of the current frame
  reach      \* the source: the most the next frame may say, or -1

svars == <<ahead, sync, mode, rest, reach>>
-----------------------------------------------------------------------------
\* Cells.  follows: the frame continues the stream of the frame before it.
Cell(kind, len, begin, follows) ==
  [kind |-> kind, len |-> len, begin |-> begin, follows |-> follows]
Plain(kind) == Cell(kind, 0, 0, FALSE)

Frames == [kind : {"frame"}, len : FrameLens, begin : MainBegins, follows : BOOLEAN]

\* "false" is taken for Layer III, "other" for Layer I or II, "bad" for neither.
FalseHeaders == {Cell("false", n, b, FALSE) : n \in FalseLens, b \in MainBegins}
                  \cup {Cell("other", n, 0, FALSE) : n \in FalseLens}
                  \cup {Plain("bad")}

Cells == Frames \cup FalseHeaders \cup {Plain("body"), Plain("junk")}

IsSync(c) == c.kind \in {"frame", "false", "other", "bad"}
IsClean(c) == c.kind = "body" \/ (c.kind = "frame" /\ c.follows)

SInit == ahead = <<>> /\ sync = 0 /\ mode = "refill" /\ rest = 0 /\ reach = -1
-----------------------------------------------------------------------------
FetchUnsynced(c) ==
  /\ mode = "refill" /\ Len(ahead) < READBUFSZ
  /\ ahead' = Append(ahead, c)
  /\ IF Len(ahead') = READBUFSZ THEN sync' = 0 /\ mode' = "decode"
     ELSE UNCHANGED <<sync, mode>>
\* The next byte that input takes from the fifo.  After the last one comes
\* mad_stream_buffer.
Fetch(c) ==
  /\ mode = "refill" /\ Len(ahead) < READBUFSZ
  /\ ahead' = Append(ahead, c)
  /\ IF Len(ahead') = READBUFSZ THEN sync' = 1 /\ mode' = "decode"
     ELSE UNCHANGED <<sync, mode>>

OddRoom == Quantify({k \in 1..Len(ahead) : ~IsClean(ahead[k])}, LAMBDA k : TRUE) < MaxOdd

\* The next byte of a frame; one in OddRoom may look like a header.
FetchBody ==
  /\ rest > 0 /\ rest' = rest - 1 /\ UNCHANGED reach
  /\ \/ Fetch(Plain("body"))
     \/ OddRoom /\ \E c \in FalseHeaders : Fetch(c)

StartFrame(n, b, follows) ==
  /\ Fetch(Cell("frame", n, b, follows))
  /\ rest' = n - 1 /\ reach' = b + n - HEADER

FetchFrame == \E n \in FrameLens, b \in MainBegins :
  rest = 0 /\ b <= reach /\ StartFrame(n, b, TRUE)

\* Another stream begins, or this one goes on after a gap; a frame may be cut off.
FetchStream == \E n \in FrameLens, b \in MainBegins :
  (reach = -1 \/ OddRoom) /\ StartFrame(n, b, FALSE)

FetchJunk ==
  /\ OddRoom /\ \E c \in FalseHeaders \cup {Plain("junk")} : Fetch(c)
  /\ rest' = 0 /\ reach' = -1

\* input, when nothing of readBuf has been given up.
InputFull ==
  /\ mode = "refill" /\ Len(ahead) = READBUFSZ
  /\ sync' = 1 /\ mode' = "decode"
  /\ UNCHANGED <<ahead, rest, reach>>
-----------------------------------------------------------------------------
\* Cells from p to the end; a frame of n bytes at p and the guard fit in them.
Left(p) == Len(ahead) - p + 1
FitsTwice(p, n) == n + 2 * GUARD <= Left(p)
Fits(p, n) == n + GUARD <= Left(p)

\* mad_header_decode gives up with n cells gone: BUFLEN, or an error() that is
\* followed by another mad_frame_decode.
Drop(n) == ahead' = SubSeq(ahead, n + 1, Len(ahead))
Buflen(n) == Drop(n) /\ sync' = 0 /\ mode' = "refill" /\ UNCHANGED <<rest, reach>>
Recover(n) == Drop(n) /\ sync' = 0 /\ UNCHANGED <<mode, rest, reach>>

\* Where the loop around sync: stops: at the expected place, or at the first sync
\* word that is no header, or is too long to tell, or is followed by another.
Stops(p) == \/ sync = 1
            \/ ahead[p].kind = "bad"
            \/ ~Fits(p, ahead[p].len)
            \/ IsSync(ahead[p + ahead[p].len])
Candidates == IF sync = 1 THEN {1}
              ELSE {p \in 1..Len(ahead) : IsSync(ahead[p]) /\ Left(p) >= GUARD}
Found == {p \in Candidates : Stops(p)}

\* No frame is in sight: without sync, all but the guard has been searched.
OutOfSight ==
  /\ mode = "decode"
  /\ \/ sync = 1 /\ Len(ahead) < GUARD /\ Buflen(0)
     \/ sync = 0 /\ Found = {} /\ Buflen(Max({Len(ahead) - GUARD, 0}))

LoseSync ==
  /\ mode = "decode" /\ sync = 1 /\ Len(ahead) >= GUARD
  /\ ~IsSync(ahead[1]) /\ Recover(1)

\* A header at p, the first that the loop stops at.
HeaderAt(p) ==
  /\ mode = "decode" /\ Len(ahead) >= GUARD
  /\ p \in Found /\ \A o \in Found : p <= o
  /\ IsSync(ahead[p])

BadHeaderFatal == \E p \in 1..Len(ahead) :
  HeaderAt(p) /\ ahead[p].kind = "bad" /\ Buflen(p - 1)
BadHeader == \E p \in 1..Len(ahead) :
  HeaderAt(p) /\ ahead[p].kind = "bad" /\ Recover(p)

CutOffSkipped(p) ==
  HeaderAt(p) /\ ahead[p].kind # "bad" /\ ~Fits(p, ahead[p].len) /\ Buflen(p)
\* The end of the frame is not in readBuf yet.
CutOff(p) ==
  HeaderAt(p) /\ ahead[p].kind # "bad" /\ ~Fits(p, ahead[p].len) /\ Buflen(p - 1)

\* The frame at p goes to decoder_table: NULL for Layers I and II.
TakeFrame(p) ==
  /\ HeaderAt(p) /\ ahead[p].kind # "bad" /\ Fits(p, ahead[p].len)
  /\ Drop(p - 1 + ahead[p].len) /\ sync' = 1
  /\ mode' = IF ahead[p].kind = "other" THEN "crashed" ELSE mode
  /\ UNCHANGED <<rest, reach>>

\* The fatal exception restarts the chip.
Restart ==
  /\ mode = "crashed"
  /\ ahead' = <<>> /\ sync' = 0 /\ mode' = "refill" /\ rest' = 0 /\ reach' = -1

Source == FetchBody \/ FetchFrame \/ FetchStream \/ FetchJunk
Sync == OutOfSight \/ LoseSync \/ BadHeader \/ \E p \in 1..Len(ahead) : CutOff(p)
-----------------------------------------------------------------------------
\* Types of the state above.
StreamOK ==
  /\ ahead \in Seq(Cells) /\ Len(ahead) <= READBUFSZ
  /\ sync \in {0, 1} /\ mode \in {"decode", "refill", "crashed"}
  /\ rest = 0 \/ \E n \in FrameLens : rest \in 1..n - 1
  /\ reach \in Nat \cup {-1}

(* Once the decoder has a true frame in its place, nothing makes it miss    *)
(* it: the frame stays where it is until it is decoded, whether or not the  *)
(* rest of it has yet to be fetched (frame.c:335-340 and 403-411,           *)
(* mad_helper.c:153-176).                                                   *)
OnFrame == /\ Len(ahead) > 0 /\ ahead[1].kind = "frame"
           /\ (sync = 1 /\ mode = "decode") \/ mode = "refill"
AlignmentKept ==
  [][OnFrame => \/ OnFrame' /\ ahead'[1] = ahead[1]
                \/ TakeFrame(1)]_svars

(* The decoder gets stuck, with readBuf full and not a byte given up, only  *)
(* at a header whose frame can not fit into readBuf: no other content of    *)
(* the stream can do it (frame.c:404-408, mad_helper.c:153-156).            *)
WedgeNeedsLongHeader ==
  (mode = "refill" /\ Len(ahead) = READBUFSZ)
    => IsSync(ahead[1]) /\ ahead[1].len + GUARD > READBUFSZ
=============================================================================
