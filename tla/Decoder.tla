-------------------------------- MODULE Decoder --------------------------------
(***************************************************************************)
(* The mp3 decoder as a whole: mad_frame_decode of src/mp3/mad/frame.c     *)
(* finds the frames (MadStream) and hands them to mad_layer_III            *)
(* (MadReservoir), which reads on into the header behind the frame.  A     *)
(* frame's begin is kept for the next one on the promise that this header  *)
(* is that of the frame decoded next.                                      *)
(***************************************************************************)
EXTENDS MadStream, MadReservoir

ASSUME DecoderAssumption ==
  /\ MainBegins = Begins
  /\ \A n \in FrameLens \cup FalseLens :
       n < HEADER \/ n + GUARD > READBUFSZ \/ n - HEADER <= MaxSpace

vars == <<ahead, sync, mode, rest, reach,
          main_data, promised, intact>>

Init == SInit /\ RInit
-----------------------------------------------------------------------------
\* main_data_begin as read from the cell behind a frame; anything, of a header
\* that is valid in layer and nothing else.
Peeks(c) == IF c.kind \in {"frame", "false"} THEN {c.begin}
            ELSE IF c.kind = "bad" THEN Begins ELSE {0}

\* The frame at p is whole and followed by the next frame of its stream.
Whole(p) ==
  LET next == ahead[p + ahead[p].len]
  IN  /\ ahead[p].kind = "frame" /\ next.kind = "frame" /\ next.follows
      /\ \A k \in p + 1..p + ahead[p].len - 1 : ahead[k].kind # "frame"

\* A frame as its encoder meant it.
GoodFrame(p) ==
  /\ TakeFrame(p) /\ Whole(p)
  /\ FrameStep(ahead[p].begin, ahead[p].len - HEADER, ahead[p + ahead[p].len].begin)

\* A frame that is damaged or ends its stream, or bytes that are no frame.
StrayFrame(p) ==
  LET c == ahead[p] IN
  /\ c.kind \in {"frame", "false"} /\ c.len >= HEADER /\ TakeFrame(p)
  /\ \E b \in IF c.kind = "frame" THEN Begins ELSE {c.begin},
        peek \in Peeks(ahead[p + c.len]) : StrayStep(b, c.len - HEADER, peek)

ShortFrame(p) ==
  ahead[p].kind = "false" /\ ahead[p].len < HEADER /\ TakeFrame(p) /\ Forget

\* Layer I or II.
NullDecoder(p) == ahead[p].kind = "other" /\ TakeFrame(p) /\ UNCHANGED rvars

Decode == \E p \in 1..Len(ahead) :
            GoodFrame(p) \/ StrayFrame(p) \/ ShortFrame(p) \/ NullDecoder(p)

Reboot == Restart /\ Forget

Next == \/ Source /\ UNCHANGED rvars
        \/ InputFull /\ UNCHANGED rvars
        \/ Sync /\ UNCHANGED rvars
        \/ Decode
        \/ Reboot

SafeSpec == Init /\ [][Next]_vars

\* The task runs whenever it can, and the stream goes on.
Spec == SafeSpec /\ WF_vars(Next)
-----------------------------------------------------------------------------
(* The type invariant of both parts.                                       *)
TypeOK == StreamOK /\ ReservoirOK

(* When the stream has been nothing but whole frames for long enough, the  *)
(* decoder finds them again, and goes on to, whatever came before: junk,   *)
(* a cut, headers that were none (frame.c:333-423).                        *)
Clean == mode # "crashed" /\ \A k \in 1..Len(ahead) : IsClean(ahead[k])
CleanStreamPlays ==
  <>[]Clean => []<><<\E p \in 1..Len(ahead) : TakeFrame(p) /\ Whole(p)>>_vars

(* The reservoir may take the header it peeks at for the next frame's: the *)
(* way frames are found keeps every promise on which MadReservoir rests    *)
(* (frame.c:333-423, layer3.c:2590-2608).                                  *)
ImplementsReservoir == RSpec
=============================================================================
