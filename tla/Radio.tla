------------------------------- MODULE Radio -------------------------------
(***************************************************************************)
(* The two lives of the radio and the knob that chooses between them:      *)
(* tskconnect and tskreader of src/mp3/user/user_main.c, and the server    *)
(* loop tskserver of src/mp3/user/webserver.c.  At start-up the knob       *)
(* decides whether the radio plays a channel or opens a hotspot with the   *)
(* config server; later a knob that has moved makes it change the channel  *)
(* or restart.                                                             *)
(*                                                                         *)
(* What is received is left to module Player, what the server changes      *)
(* besides the number of channels to module Settings.  Assumed: there is   *)
(* memory for the tasks that tskconnect creates and for the server socket. *)
(* The knob, the WLAN, the stream servers and the browsers are the         *)
(* environment.                                                            *)
(*                                                                         *)
(* A definition that stands right before another one, without a comment of *)
(* its own, is that other one with a plausible bug in it: the properties   *)
(* below are checked to notice it.                                         *)
(***************************************************************************)
EXTENDS Channel

CONSTANTS KnobRate,     \* netbufs received between two looks at the knob (20)
          FirstCount    \* number of channels in the flash at first

ASSUME KnobRateAssumption == KnobRate \in Nat /\ KnobRate > 0
ASSUME FirstCountAssumption == FirstCount \in Counts \cap (1..MaxCount)

VARIABLES
  adc,          \* where the knob stands
  pc,           \* what the radio is doing
  t,            \* netbufs since the last look at the knob
  madRunning,   \* tskreader's flag: it has tried to start the decoder
  flashCount,   \* number of channels in the flash
  chosenAt      \* history: where the knob stood when currentStream was set

rvars == <<vars, adc, pc, t, madRunning, flashCount, chosenAt>>

PlayerPlaces == {"wlan", "open", "retry", "recv", "write"}
ServerPlaces == {"accept", "request", "check"}

\* channel_read followed by channel_setCurrentStream: from channel cur, with
\* result res noted before, the channel that is then noted and selected.
ReadAndSelect(cur, res, count) ==
  LET now == IF Leaves(cur, count, adc) THEN Part(count, adc) ELSE res
  IN  /\ streamCounter' = now /\ currentStream' = now
      /\ chosenAt' = adc

\* All memory is lost and the static variables are zero again.
PowerUp ==
  /\ pc' = "boot" /\ t' = 0 /\ madRunning' = FALSE
  /\ streamCounter' = 0 /\ currentStream' = 0 /\ streamCount' = 0
  /\ UNCHANGED <<adc, flashCount, chosenAt>>

RInit ==
  /\ Init /\ adc \in Readings
  /\ pc = "boot" /\ t = 0 /\ madRunning = FALSE /\ flashCount = FirstCount /\ chosenAt = adc

TurnKnob ==
  /\ adc' \in Readings \ {adc}
  /\ UNCHANGED <<vars, pc, t, flashCount, chosenAt, madRunning>>
-----------------------------------------------------------------------------
(* tskconnect                                                              *)

\* The settings are read from the flash, then the knob chooses the mode.
Boot ==
  /\ pc = "boot"
  /\ streamCount' = flashCount
  /\ ReadAndSelect(currentStream, streamCounter, flashCount)
  /\ pc' = IF streamCounter' >= flashCount THEN "accept" ELSE "wlan"
  /\ UNCHANGED <<adc, t, flashCount, madRunning>>

\* The wait for an address ends; then the reader task is created.
GotIP ==
  /\ pc = "wlan" /\ pc' = "open"
  /\ UNCHANGED <<vars, adc, t, flashCount, chosenAt, madRunning>>
-----------------------------------------------------------------------------
(* tskreader                                                               *)

\* The head of the outer loop: the knob is read and the channel connected
\* to, if it exists (otherwise its host is "") and its server answers.
Open(connected) ==
  /\ pc = "open"
  /\ ReadAndSelect(currentStream, streamCounter, streamCount)
  /\ connected => streamCounter' < streamCount
  /\ pc' = IF connected THEN "recv" ELSE "retry"
  /\ t' = IF connected THEN 0 ELSE t
  /\ UNCHANGED <<adc, streamCount, flashCount, madRunning>>

\* A second later the next attempt is made.
Retry ==
  /\ pc = "retry" /\ pc' = "open"
  /\ UNCHANGED <<vars, adc, t, flashCount, chosenAt, madRunning>>

\* netconn_recv fails: the connection is closed.
RecvFails ==
  /\ pc = "recv" /\ pc' = "open"
  /\ UNCHANGED <<vars, adc, t, flashCount, chosenAt, madRunning>>

\* A netbuf is received, and handed to spiRamFifoWrite.
RecvNetbuf ==
  /\ pc = "recv" /\ pc' = "write"
  /\ UNCHANGED <<vars, adc, t, flashCount, chosenAt, madRunning>>

\* It is written.  The decoder may be started; the knob is not looked at yet.
WrittenLate ==
  /\ pc = "write" /\ t + 1 <= KnobRate
  /\ t' = t + 1 /\ pc' = "recv"
  /\ madRunning' \in {madRunning, TRUE}
  /\ UNCHANGED <<vars, adc, flashCount, chosenAt>>
Written ==
  /\ pc = "write" /\ t + 1 < KnobRate
  /\ t' = t + 1 /\ pc' = "recv"
  /\ madRunning' \in {madRunning, TRUE}
  /\ UNCHANGED <<vars, adc, flashCount, chosenAt>>

\* It is written and the knob looked at: the radio goes on, opens another
\* channel, or restarts for the config server.
WrittenAndLookEarly ==
  /\ pc = "write" /\ t + 1 >= KnobRate
  /\ LET now == IF Leaves(currentStream, streamCount, adc)
                  THEN Part(streamCount, adc) ELSE streamCounter
     IN  \/ /\ now # currentStream /\ now >= streamCount - 1
            /\ PowerUp
         \/ /\ now # currentStream => now < streamCount - 1
            /\ streamCounter' = now /\ t' = 0
            /\ pc' = IF now = currentStream THEN "recv" ELSE "open"
            /\ madRunning' \in {madRunning, TRUE}
            /\ UNCHANGED <<currentStream, streamCount, adc, flashCount, chosenAt>>
WrittenAndLook ==
  /\ pc = "write" /\ t + 1 >= KnobRate
  /\ LET now == IF Leaves(currentStream, streamCount, adc)
                  THEN Part(streamCount, adc) ELSE streamCounter
     IN  \/ /\ now # currentStream /\ now >= streamCount
            /\ PowerUp
         \/ /\ now # currentStream => now < streamCount
            /\ streamCounter' = now /\ t' = 0
            /\ pc' = IF now = currentStream THEN "recv" ELSE "open"
            /\ madRunning' \in {madRunning, TRUE}
            /\ UNCHANGED <<currentStream, streamCount, adc, flashCount, chosenAt>>

\* A header of Layer I or II in the stream: the decoder calls a NULL pointer,
\* which restarts the chip.
DecoderCrash == madRunning /\ PowerUp
-----------------------------------------------------------------------------
(* tskserver                                                               *)

\* accept gives a client, or gives up after 100 seconds.
Accept(client) ==
  /\ pc = "accept"
  /\ pc' = IF client THEN "request" ELSE "check"
  /\ UNCHANGED <<vars, adc, t, flashCount, chosenAt, madRunning>>

\* recv gives nothing, the client is gone.
ClientGone ==
  /\ pc = "request" /\ pc' = "check"
  /\ UNCHANGED <<vars, adc, t, flashCount, chosenAt, madRunning>>

\* After a request the answer is written.  When that fails the loop starts
\* over without a look at the knob.
Answer == pc' \in {"check", "accept"} /\ UNCHANGED <<adc, t, madRunning>>

\* ?channel=count: the channel is read and selected anew for the new number.
SetCountUnselected(count) ==
  /\ pc = "request"
  /\ streamCount' = CountAfter(count, streamCount)
  /\ Answer /\ UNCHANGED <<streamCounter, currentStream, chosenAt, flashCount>>
SetCount(count) ==
  /\ pc = "request"
  /\ streamCount' = CountAfter(count, streamCount)
  /\ ReadAndSelect(currentStream, streamCounter, streamCount')
  /\ Answer /\ UNCHANGED flashCount

\* ?flash=1: what is in memory is saved.
Save ==
  /\ pc = "request"
  /\ flashCount' = streamCount
  /\ Answer /\ UNCHANGED <<vars, chosenAt>>

\* Any other request, the main page among them.
OtherRequest ==
  /\ pc = "request"
  /\ Answer /\ UNCHANGED <<vars, flashCount, chosenAt>>

\* The knob is looked at: when it has moved, the radio restarts.
CheckKnobOnce ==
  /\ pc = "check" /\ pc' = "accept"
  /\ UNCHANGED <<vars, adc, t, flashCount, chosenAt, madRunning>>
CheckKnob ==
  /\ pc = "check"
  /\ LET now == IF Leaves(currentStream, streamCount, adc)
                  THEN Part(streamCount, adc) ELSE streamCounter
     IN  IF now # currentStream
           THEN PowerUp
           ELSE /\ streamCounter' = now /\ pc' = "accept"
                /\ UNCHANGED <<currentStream, streamCount, adc, t, flashCount, chosenAt,
                               madRunning>>

Request ==
  \/ \E count \in Counts : SetCount(count)
  \/ Save
  \/ OtherRequest
-----------------------------------------------------------------------------
Connect == \E connected \in BOOLEAN : Open(connected)
Receive == RecvNetbuf \/ RecvFails
Serve == (\E client \in BOOLEAN : Accept(client)) \/ ClientGone \/ Request

RNext == \/ TurnKnob
         \/ Boot \/ GotIP \/ Connect \/ Retry
         \/ Receive \/ Written \/ WrittenAndLook \/ DecoderCrash
         \/ Serve \/ CheckKnob

RSafeSpec == RInit /\ [][RNext]_rvars

\* The program goes on by itself; the environment is as kind as it can be:
\* the WLAN answers, an attempt to connect ends, the stream server sends or
\* closes, a client sends its request or closes, and not every answer fails to
\* be written.  Nobody promises that a write to the fifo ends: module Player
\* says when it does.
RSpec ==
  /\ RSafeSpec
  /\ WF_rvars(Boot) /\ WF_rvars(Connect) /\ WF_rvars(Retry) /\ WF_rvars(CheckKnob)
  /\ WF_rvars(GotIP) /\ WF_rvars(Receive) /\ WF_rvars(Serve)
  /\ SF_rvars(Serve /\ pc' = "check")
-----------------------------------------------------------------------------
RTypeOK ==
  /\ streamCounter \in 0..MAX_ADC /\ currentStream \in 0..MAX_ADC
  /\ adc \in Readings /\ chosenAt \in Readings
  /\ pc \in {"boot"} \cup PlayerPlaces \cup ServerPlaces
  /\ madRunning \in BOOLEAN
  /\ t \in 0 .. KnobRate - 1
  /\ flashCount \in Counts \cap (1..MaxCount)
  /\ IF pc = "boot" THEN streamCount = 0 ELSE streamCount \in Counts \cap (1..MaxCount)

(* "If channel is greater than maximum available channel, reboot for       *)
(* Server-Mode" (user_main.c, line 228): a radio that restarts itself      *)
(* while it plays comes up as the server if the knob is left where it is,  *)
(* so it never restarts over and over.                                     *)
RestartOpensServer ==
  [][WrittenAndLook /\ pc' = "boot"
       => Select(0, flashCount, adc) >= flashCount]_rvars

(* The server restarts only because somebody moved the knob: a new number  *)
(* of channels, refused or not, never restarts it by itself although it    *)
(* moves every channel on the dial (webserver.c, lines 215-218, 461-464).  *)
ServerRestartNeedsKnob ==
  [][(pc \in ServerPlaces) /\ pc' = "boot" => adc # chosenAt]_rvars

\* The reader task is not left asleep in spiRamFifoWrite for ever, and the
\* stream has stopped restarting the chip.
WritesReturn == []<>(pc # "write")
CrashesEnd == <>[][~DecoderCrash]_rvars

(* In both lives a knob that comes to rest is obeyed: from then on the     *)
(* radio is at the channel the knob asks for and restarts no more, also    *)
(* when a reading was overtaken by the next one (user_main.c, lines        *)
(* 169-172, 219-232); unless tskreader never comes to look at it again     *)
(* since it sleeps in spiRamFifoWrite (line 201), or the stream makes the  *)
(* decoder restart the chip over and over.                                 *)
KnobObeyed ==
  \A a \in Readings :
    <>[](adc = a) /\ WritesReturn /\ CrashesEnd =>
      <>[](/\ pc # "boot"
           /\ streamCounter = currentStream
           /\ ~Leaves(currentStream, streamCount, a) \/ Part(streamCount, a) = currentStream)

(* "switch poti to total maximum value; after some seconds the esp-chip    *)
(* opens a wlan-hot-spot" (README.md, lines 139-140); here while every     *)
(* write to the fifo ends.                                                 *)
MaxOpensHotspot ==
  <>[](adc = MAX_ADC) /\ WritesReturn => <>(pc \in ServerPlaces)
=============================================================================
