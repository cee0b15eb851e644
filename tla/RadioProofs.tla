---------------------------- MODULE RadioProofs ----------------------------
(***************************************************************************)
(* Proofs about Radio, for every dial and every set of numbers of channels *)
(* that ChannelProofs allows.  The knob turns at any moment, so what holds *)
(* of the selected channel holds of the place where the knob stood when it *)
(* was selected: Settled.                                                  *)
(*                                                                         *)
(* KnobObeyed is shown place by place: from each the fair actions lead to  *)
(* one where the radio is at the channel the knob asks for, and no step    *)
(* leaves those while the knob rests.  The netbufs between two looks are   *)
(* counted one by one, up to the 20 of the code, since the provers have no *)
(* induction for such a count; nor can they evaluate ENABLED, so that the  *)
(* places the fair actions are taken at enable them (GuardsEnable) is a    *)
(* premise there.                                                          *)
(***************************************************************************)
EXTENDS Radio, ChannelProofs

(* What is known of the noted and the selected channel in each life: none  *)
(* is selected before the start, a server or a player that receives has    *)
(* selected what it noted, and the knob asked for it.                      *)
Settled ==
  /\ pc = "boot" => streamCounter = 0 /\ currentStream = 0
  /\ pc \in ServerPlaces \cup {"recv", "write"} => streamCounter = currentStream
  /\ pc \in ServerPlaces /\ Leaves(currentStream, streamCount, chosenAt)
       => Part(streamCount, chosenAt) = currentStream
  /\ pc \in PlayerPlaces => streamCount = flashCount

\* The types, but for madRunning.
RTypes ==
  /\ streamCounter \in 0..MAX_ADC /\ currentStream \in 0..MAX_ADC
  /\ adc \in Readings /\ chosenAt \in Readings
  /\ pc \in {"boot"} \cup PlayerPlaces \cup ServerPlaces
  /\ t \in 0 .. KnobRate - 1
  /\ flashCount \in Counts \cap (1..MaxCount)
  /\ IF pc = "boot" THEN streamCount = 0 ELSE streamCount \in Counts \cap (1..MaxCount)

RInv == RTypes /\ Settled

(* Where a decoder can be that restarts the chip.                          *)
MadInv ==
  /\ madRunning \in BOOLEAN
  /\ madRunning => pc \in {"open", "retry", "recv", "write"}
-----------------------------------------------------------------------------
LEMMA CountAfterValid ==
  ASSUME NEW count \in Counts, NEW old \in Valid
  PROVE  CountAfter(count, old) \in Valid
<1>1. count \in Int
  BY CountsAssumption
<1>2. CASE count <= 0 \/ count > MaxCount
  BY <1>2 DEF CountAfter
<1>3. CASE 0 < count /\ count <= MaxCount
  BY <1>1, <1>3 DEF CountAfter, Valid, MaxCount
<1> QED
  BY <1>1, <1>2, <1>3 DEF MaxCount

LEMMA ValidCounts == Valid = Counts \cap (1..MaxCount)
<1>1. ASSUME NEW c \in Counts
      PROVE  (0 < c /\ c <= MaxCount) <=> c \in 1..MaxCount
  BY CountsAssumption DEF MaxCount
<1> QED
  BY <1>1 DEF Valid

\* The channel that is noted after a reading.
Noted(cur, res, count) == IF Leaves(cur, count, adc) THEN Part(count, adc) ELSE res

LEMMA NotedType ==
  ASSUME NEW count \in Valid, adc \in Readings, NEW cur, NEW res \in 0..MAX_ADC
  PROVE  Noted(cur, res, count) \in 0..MAX_ADC
  BY PartType DEF Noted

LEMMA RInitInv == RInit => RInv
<1> SUFFICES ASSUME RInit PROVE RInv
  OBVIOUS
<1>1. RTypes
  BY DialAssumption, KnobRateAssumption, FirstCountAssumption
  DEF RInit, Init, RTypes, PlayerPlaces, ServerPlaces
<1>2. Settled
  BY DEF RInit, Init, Settled, PlayerPlaces, ServerPlaces
<1> QED
  BY <1>1, <1>2 DEF RInv

LEMMA PowerUpInv == RInv /\ PowerUp => RInv'
<1> SUFFICES ASSUME RInv, PowerUp PROVE RInv'
  OBVIOUS
<1>1. RTypes'
  BY DialAssumption, KnobRateAssumption
  DEF RInv, RTypes, PowerUp, PlayerPlaces, ServerPlaces
<1>2. Settled'
  BY DEF PowerUp, Settled, PlayerPlaces, ServerPlaces
<1> QED
  BY <1>1, <1>2 DEF RInv

(* Reading and selecting in one go, from a channel that was noted and      *)
(* selected: the knob asks for the result from there on, too.              *)
LEMMA SelectSettles ==
  ASSUME NEW cur, NEW count
  PROVE  LET now == Noted(cur, cur, count)
         IN  Leaves(now, count, adc) => Part(count, adc) = now
  BY DEF Noted

LEMMA RStepInv == RInv /\ [RNext]_rvars => RInv'
<1> SUFFICES ASSUME RInv, [RNext]_rvars PROVE RInv'
  OBVIOUS
<1>0. /\ streamCounter \in 0..MAX_ADC /\ currentStream \in 0..MAX_ADC
      /\ adc \in Readings /\ chosenAt \in Readings
      /\ t \in 0 .. KnobRate - 1 /\ flashCount \in Valid
      /\ pc # "boot" => streamCount \in Valid
  BY ValidCounts DEF RInv, RTypes
<1> USE DEF PlayerPlaces, ServerPlaces
<1>1. CASE TurnKnob
  BY <1>1 DEF TurnKnob, RInv, RTypes, Settled, vars
<1>2. CASE Boot
  <2> DEFINE now == Noted(currentStream, streamCounter, flashCount)
  <2>1. /\ streamCount' = flashCount /\ flashCount' = flashCount
        /\ streamCounter' = now /\ currentStream' = now
        /\ chosenAt' = adc /\ adc' = adc /\ t' = t
        /\ pc = "boot" /\ pc' \in {"accept", "wlan"}
    BY <1>2 DEF Boot, ReadAndSelect, Noted
  <2>2. now \in 0..MAX_ADC
    BY <1>0, NotedType
  <2>3. currentStream = streamCounter
    BY <2>1 DEF RInv, Settled
  <2>4. Leaves(now, flashCount, adc) => Part(flashCount, adc) = now
    BY <2>3, SelectSettles
  <2>5. RTypes'
    BY <1>0, <2>1, <2>2, ValidCounts DEF RTypes
  <2>6. Settled'
    BY <2>1, <2>4 DEF Settled, Leaves, Part, LimitMin, LimitMax
  <2> QED
    BY <2>5, <2>6 DEF RInv
<1>3. CASE GotIP \/ Retry \/ RecvFails \/ RecvNetbuf \/ Written
  <2>1. CASE Written
    <3>1. /\ t' = t + 1 /\ t + 1 < KnobRate /\ pc = "write" /\ pc' = "recv"
          /\ UNCHANGED <<vars, adc, flashCount, chosenAt>>
      BY <2>1 DEF Written
    <3> QED
      BY <1>0, <3>1, KnobRateAssumption DEF RInv, RTypes, Settled, vars
  <2>2. CASE GotIP \/ Retry \/ RecvFails \/ RecvNetbuf
    BY <1>0, <2>2, KnobRateAssumption
    DEF GotIP, Retry, RecvFails, RecvNetbuf, RInv, RTypes, Settled, vars
  <2> QED
    BY <1>3, <2>1, <2>2
<1>4. CASE Connect
  <2> PICK connected \in BOOLEAN : Open(connected)
    BY <1>4 DEF Connect
  <2> DEFINE now == Noted(currentStream, streamCounter, streamCount)
  <2>1. /\ streamCount' = streamCount /\ flashCount' = flashCount
        /\ streamCounter' = now /\ currentStream' = now
        /\ chosenAt' = adc /\ adc' = adc /\ t' \in {0, t}
        /\ pc = "open" /\ pc' \in {"recv", "retry"}
    BY DEF Open, ReadAndSelect, Noted
  <2>2. now \in 0..MAX_ADC
    BY <1>0, <2>1, NotedType
  <2>3. RTypes'
    BY <1>0, <2>1, <2>2, ValidCounts, KnobRateAssumption DEF RTypes
  <2>4. Settled'
    BY <2>1 DEF RInv, Settled
  <2> QED
    BY <2>3, <2>4 DEF RInv
<1>5. CASE WrittenAndLook
  <2> DEFINE now == Noted(currentStream, streamCounter, streamCount)
  <2>1. CASE PowerUp
    BY <2>1, PowerUpInv
  <2>2. CASE /\ streamCounter' = now /\ t' = 0 /\ pc = "write"
             /\ pc' = IF now = currentStream THEN "recv" ELSE "open"
             /\ UNCHANGED <<currentStream, streamCount, adc, flashCount, chosenAt>>
    <3>1. now \in 0..MAX_ADC
      BY <1>0, <2>2, NotedType
    <3>2. RTypes'
      BY <1>0, <2>2, <3>1, ValidCounts, KnobRateAssumption DEF RTypes
    <3>3. Settled'
      BY <2>2 DEF RInv, Settled
    <3> QED
      BY <3>2, <3>3 DEF RInv
  <2> QED
    BY <1>5, <2>1, <2>2 DEF WrittenAndLook, Noted
<1>6. CASE (\E client \in BOOLEAN : Accept(client)) \/ ClientGone
  BY <1>6, <1>0 DEF Accept, ClientGone, RInv, RTypes, Settled, vars
<1>7. ASSUME NEW count \in Counts, SetCount(count) PROVE RInv'
  <2> DEFINE new == CountAfter(count, streamCount)
             now == Noted(currentStream, streamCounter, new)
  <2>1. /\ streamCount' = new /\ flashCount' = flashCount
        /\ streamCounter' = now /\ currentStream' = now
        /\ chosenAt' = adc /\ adc' = adc /\ t' = t
        /\ pc = "request" /\ pc' \in {"check", "accept"}
    BY <1>7 DEF SetCount, ReadAndSelect, Noted, Answer
  <2>2. new \in Valid
    BY <1>0, <2>1, CountAfterValid
  <2>3. now \in 0..MAX_ADC
    BY <1>0, <2>2, NotedType
  <2>4. currentStream = streamCounter
    BY <2>1 DEF RInv, Settled
  <2>5. Leaves(now, new, adc) => Part(new, adc) = now
    BY <2>4, SelectSettles
  <2>6. RTypes'
    BY <1>0, <2>1, <2>2, <2>3, ValidCounts DEF RTypes
  <2>7. Settled'
    BY <2>1, <2>5 DEF Settled, Leaves, Part, LimitMin, LimitMax
  <2> QED
    BY <2>6, <2>7 DEF RInv
<1>8. CASE Save \/ OtherRequest
  BY <1>8, <1>0, ValidCounts
  DEF Save, OtherRequest, Answer, RInv, RTypes, Settled, vars
<1>9. CASE CheckKnob
  <2> DEFINE now == Noted(currentStream, streamCounter, streamCount)
  <2>1. CASE PowerUp
    BY <2>1, PowerUpInv
  <2>2. CASE /\ now = currentStream /\ pc = "check"
             /\ streamCounter' = now /\ pc' = "accept"
             /\ UNCHANGED <<currentStream, streamCount, adc, t, flashCount, chosenAt>>
    <3>1. RTypes'
      BY <1>0, <2>2, ValidCounts DEF RTypes
    <3>2. Settled'
      BY <2>2 DEF RInv, Settled
    <3> QED
      BY <3>1, <3>2 DEF RInv
  <2> QED
    BY <1>9, <2>1, <2>2 DEF CheckKnob, Noted
<1>10. CASE UNCHANGED rvars
  BY <1>10 DEF rvars, vars, RInv, RTypes, Settled
<1>11. CASE DecoderCrash
  BY <1>11, PowerUpInv DEF DecoderCrash
<1> QED
  BY <1>1, <1>2, <1>3, <1>4, <1>5, <1>6, <1>7, <1>8, <1>9, <1>10, <1>11
  DEF RNext, Receive, Serve, Request

(* The invariant of the radio.                                             *)
LEMMA RadioInvariance == RSafeSpec => []RInv
  BY RInitInv, RStepInv, PTL DEF RSafeSpec

(* The decoder is there only while the radio plays.                        *)
LEMMA MadStep == MadInv /\ [RNext]_rvars => MadInv'
<1> SUFFICES ASSUME MadInv, [RNext]_rvars PROVE MadInv'
  OBVIOUS
<1>1. madRunning' \in {madRunning, TRUE, FALSE}
  BY DEF RNext, TurnKnob, Boot, GotIP, Connect, Open, Retry, Receive, RecvFails,
         RecvNetbuf, Written, WrittenAndLook, DecoderCrash, PowerUp, Serve, Accept,
         ClientGone, Request, SetCount, Save, OtherRequest, Answer, CheckKnob, rvars
<1>2. madRunning' \in BOOLEAN
  BY <1>1, Zenon DEF MadInv
<1>3. CASE PowerUp
  <2>1. madRunning' = FALSE
    BY <1>3 DEF PowerUp
  <2> QED
    BY <1>2, <2>1, Zenon DEF MadInv
<1>4. CASE pc \in {"open", "retry", "recv", "write"}
           /\ pc' \in {"open", "retry", "recv", "write"}
  BY <1>2, <1>4, Zenon DEF MadInv
<1>5. CASE UNCHANGED madRunning /\ (pc \notin {"open", "retry", "recv", "write"} \/ pc' = pc)
  BY <1>2, <1>5, Zenon DEF MadInv
<1>6. CASE Connect \/ Retry \/ RecvFails \/ RecvNetbuf \/ Written
  BY <1>4, <1>6 DEF Connect, Open, Retry, RecvFails, RecvNetbuf, Written
<1>7. CASE WrittenAndLook
  BY <1>3, <1>4, <1>7 DEF WrittenAndLook
<1>8. CASE TurnKnob \/ Boot \/ GotIP \/ Serve \/ UNCHANGED rvars
  BY <1>5, <1>8
  DEF TurnKnob, Boot, GotIP, Serve, Accept, ClientGone, Request, SetCount, Save,
      OtherRequest, Answer, rvars
<1>9. CASE CheckKnob
  BY <1>3, <1>5, <1>9 DEF CheckKnob
<1>10. CASE DecoderCrash
  BY <1>3, <1>10 DEF DecoderCrash
<1> QED
  BY <1>6, <1>7, <1>8, <1>9, <1>10 DEF RNext, Receive

LEMMA MadInvariance == RSafeSpec => []MadInv
<1>1. RInit => MadInv
  <2>1. RInit => madRunning = FALSE
    BY DEF RInit
  <2> QED
    BY <2>1, Zenon DEF MadInv
<1> QED
  BY <1>1, MadStep, PTL DEF RSafeSpec

(* A radio that does not play is not restarted by a decoder.               *)
LEMMA CrashWhilePlaying ==
  ASSUME MadInv, DecoderCrash
  PROVE  pc \in {"open", "retry", "recv", "write"}
  BY Zenon DEF MadInv, DecoderCrash

(* Types of the radio; no channel that the knob can give is out of range.  *)
THEOREM RadioTypeCorrect == RSafeSpec => []RTypeOK
<1>1. RInv /\ MadInv => RTypeOK
  BY DEF RInv, RTypes, MadInv, RTypeOK
<1> QED
  BY <1>1, RadioInvariance, MadInvariance, PTL

(* The config server restarts only when the knob stands elsewhere than     *)
(* when its channel was selected.                                          *)
THEOREM ServerNeedsKnob == RSafeSpec => ServerRestartNeedsKnob
<1>1. RInv /\ MadInv /\ [RNext]_rvars
        => [(pc \in ServerPlaces) /\ pc' = "boot" => adc # chosenAt]_rvars
  <2> SUFFICES ASSUME RInv, MadInv, [RNext]_rvars, pc \in ServerPlaces, pc' = "boot",
                      adc = chosenAt
               PROVE  FALSE
    OBVIOUS
  <2>1. CheckKnob
    BY CrashWhilePlaying
    DEF RNext, TurnKnob, Boot, GotIP, Connect, Open, Retry, Receive, RecvFails,
        RecvNetbuf, Written, WrittenAndLook, Serve, Accept, ClientGone, Request, SetCount,
        Save, OtherRequest, Answer, ServerPlaces, rvars
  <2>2. Noted(currentStream, streamCounter, streamCount) = currentStream
    BY DEF RInv, Settled, Noted
  <2> QED
    BY <2>1, <2>2 DEF CheckKnob, Noted
<1> QED
  BY <1>1, RadioInvariance, MadInvariance, PTL DEF RSafeSpec, ServerRestartNeedsKnob

(* A reading that lies beyond all channels does so from channel 0, too,    *)
(* which is the one the radio starts from.                                 *)
LEMMA BeyondFromStart ==
  ASSUME NEW count \in Valid, NEW a \in Readings, Part(count, a) >= count
  PROVE  Select(0, count, a) >= count
<1>1. /\ count \in Nat /\ count > 0
      /\ Step(count) \in Nat /\ Step(count) > OVERLAPP_ADC
      /\ Step(count) * count <= MAX_ADC
  BY StepFacts
<1>2. /\ MAX_ADC \in Nat /\ OVERLAPP_ADC \in Nat /\ OVERLAPP_ADC > 0
      /\ MAX_ADC + OVERLAPP_ADC < 65536
      /\ a \in Nat /\ a <= MAX_ADC
  BY DialAssumption, StepAssumption DEF Readings
<1>3. a >= Step(count) * count
  BY PartBeyond
<1>4. Step(count) <= MAX_ADC
  BY <1>2, DivFloor, <1>1 DEF Step
<1>5. LimitMax(0, count) = IF Step(count) + OVERLAPP_ADC > MAX_ADC
                             THEN MAX_ADC - OVERLAPP_ADC
                             ELSE Step(count) + OVERLAPP_ADC
  <2>1. (1 + 0) * MAX_ADC = MAX_ADC
    BY <1>2
  <2>2. uint16(Step(count) + OVERLAPP_ADC) = Step(count) + OVERLAPP_ADC
    BY <1>1, <1>2, <1>4 DEF uint16
  <2> QED
    BY <2>1, <2>2 DEF LimitMax, Step
<1>6. a > LimitMax(0, count)
  <2>1. CASE count = 1
    <3>1. Step(count) = MAX_ADC
      BY <2>1, <1>2 DEF Step
    <3> QED
      BY <3>1, <2>1, <1>1, <1>2, <1>3, <1>5
  <2>2. CASE count >= 2
    <3>1. Step(count) * count >= 2 * Step(count)
      BY <2>2, <1>1
    <3> QED
      BY <3>1, <1>1, <1>2, <1>3, <1>5
  <2> QED
    BY <2>1, <2>2, <1>1
<1> QED
  BY <1>6 DEF Select, Leaves

(* A radio that restarts while it plays comes up as the config server, if  *)
(* the knob stays: it never restarts over and over.                        *)
THEOREM RestartIsServer == RSafeSpec => RestartOpensServer
<1>1. RInv /\ [RNext]_rvars
        => [WrittenAndLook /\ pc' = "boot"
              => Select(0, flashCount, adc) >= flashCount]_rvars
  <2> SUFFICES ASSUME RInv, WrittenAndLook, pc' = "boot"
               PROVE  Select(0, flashCount, adc) >= flashCount
    OBVIOUS
  <2>1. /\ streamCounter = currentStream /\ streamCount = flashCount
        /\ flashCount \in Valid /\ adc \in Readings
    BY ValidCounts DEF RInv, RTypes, Settled, PlayerPlaces, WrittenAndLook
  <2>2. Part(flashCount, adc) >= flashCount
    BY <2>1 DEF WrittenAndLook
  <2> QED
    BY <2>1, <2>2, BeyondFromStart
<1> QED
  BY <1>1, RadioInvariance, PTL DEF RSafeSpec, RestartOpensServer
-----------------------------------------------------------------------------
\* The radio is where a knob at a asks it to be, in either life.
Obeyed(a) ==
  /\ pc # "boot"
  /\ streamCounter = currentStream
  /\ ~Leaves(currentStream, streamCount, a) \/ Part(streamCount, a) = currentStream

\* A step in which the stream does not restart the chip; the knob rests at a, and
\* such a step while it does.
Goes == RNext /\ ~DecoderCrash
Rests(a) == RInv /\ adc = a
Go(a) == Rests(a) /\ Rests(a)' /\ [Goes]_rvars

\* The next opening of a channel settles it: nothing noted is left to overtake
\* what the knob asks for.
Sure(a) == streamCounter = currentStream \/ Leaves(currentStream, streamCount, a)

Booting == pc = "boot"
Waiting == pc = "wlan"
Opening == pc = "open"
OpeningSure(a) == pc = "open" /\ Sure(a)
Retrying == pc = "retry"
RetryingSure(a) == pc = "retry" /\ Sure(a)
Receiving(n) == pc = "recv" /\ t = n
Writing(n) == pc = "write" /\ t = n
Serving == pc \in {"accept", "request"}
Checking == pc = "check"

\* Everybody but the listener may take such a step.
LEMMA KnobRests ==
  ASSUME NEW a, Go(a)
  PROVE  \/ Boot \/ GotIP \/ Connect \/ Retry \/ Serve \/ CheckKnob
         \/ Receive \/ Written \/ WrittenAndLook
         \/ UNCHANGED rvars
  BY DEF Go, Goes, Rests, RNext, TurnKnob

(* What reading the knob and selecting the result leaves behind.           *)
LEMMA SelectedIsObeyed ==
  ASSUME NEW a, adc = a, NEW cur, NEW res, NEW count, streamCount' = count,
         ReadAndSelect(cur, res, count), pc' # "boot",
         res = cur \/ Leaves(cur, count, a)
  PROVE  Obeyed(a)'
<1>1. /\ streamCounter' = currentStream'
      /\ currentStream' = IF Leaves(cur, count, a) THEN Part(count, a) ELSE res
  BY DEF ReadAndSelect
<1> QED
  BY <1>1 DEF Obeyed, Leaves, LimitMin, LimitMax, Part

\* A radio that obeys goes on obeying.
LEMMA ObeyedStays ==
  ASSUME NEW a, Go(a), Obeyed(a)
  PROVE  Obeyed(a)'
<1>1. adc = a /\ RInv
  BY DEF Go, Rests
<1>2. CASE UNCHANGED <<vars, adc, flashCount, chosenAt>> /\ pc' # "boot"
  BY <1>2 DEF vars, Obeyed, Leaves, LimitMin, LimitMax, Part
<1>3. CASE Connect
  BY <1>1, <1>3, SelectedIsObeyed DEF Connect, Open, Obeyed
<1>4. CASE WrittenAndLook \/ CheckKnob
  <2>1. (IF Leaves(currentStream, streamCount, adc)
          THEN Part(streamCount, adc) ELSE streamCounter) = currentStream
    BY <1>1 DEF Obeyed
  <2>2. /\ streamCounter' = currentStream /\ pc' # "boot"
        /\ UNCHANGED <<currentStream, streamCount>>
    BY <1>4, <2>1 DEF WrittenAndLook, CheckKnob
  <2> QED
    BY <2>2 DEF Obeyed, Leaves, LimitMin, LimitMax, Part
<1>5. CASE \E count \in Counts : SetCount(count)
  BY <1>1, <1>5, SelectedIsObeyed DEF SetCount, Obeyed, Answer
<1>6. CASE GotIP \/ Retry \/ RecvFails \/ RecvNetbuf \/ Written \/ UNCHANGED rvars
           \/ (\E client \in BOOLEAN : Accept(client)) \/ ClientGone
           \/ Save \/ OtherRequest
  BY <1>2, <1>6
  DEF GotIP, Retry, RecvFails, RecvNetbuf, Written, Accept, ClientGone, Save,
      OtherRequest, Answer, rvars, vars, Obeyed, Leaves, LimitMin, LimitMax, Part
<1>7. ~Boot
  BY DEF Boot, Obeyed
<1> QED
  BY <1>3, <1>4, <1>5, <1>6, <1>7, KnobRests DEF Receive, Serve, Request

\* Start-up ends at the channel asked for.
LEMMA BootObeys ==
  ASSUME NEW a, Go(a), Booting
  PROVE  /\ Booting' \/ Obeyed(a)'
         /\ <<Boot>>_rvars => Obeyed(a)'
<1>1. adc = a /\ streamCounter = currentStream
  BY DEF Go, Rests, RInv, Settled, Booting
<1>2. CASE Boot
  <2>1. pc' # "boot" /\ streamCount' = flashCount
        /\ ReadAndSelect(currentStream, streamCounter, flashCount)
    BY <1>2 DEF Boot
  <2> QED
    BY <1>1, <2>1, SelectedIsObeyed
<1>3. CASE UNCHANGED rvars
  BY <1>3 DEF rvars, Booting
<1> QED
  BY <1>2, <1>3, KnobRests
  DEF GotIP, Connect, Open, Retry, Receive, RecvFails, RecvNetbuf, Written,
      WrittenAndLook, Serve, Accept, ClientGone, Request, SetCount, Save, OtherRequest,
      CheckKnob, Booting

\* The WLAN is there: the channel is opened.
LEMMA WaitingOpens ==
  ASSUME NEW a, Go(a), Waiting
  PROVE  /\ Waiting' \/ Opening'
         /\ <<GotIP>>_rvars => Opening'
  BY KnobRests
  DEF Boot, GotIP, Connect, Open, Retry, Receive, RecvFails, RecvNetbuf, Written,
      WrittenAndLook, Serve, Accept, ClientGone, Request, SetCount, Save, OtherRequest,
      CheckKnob, rvars, Waiting, Opening

\* A channel that is opened is connected to or tried again, and selected for sure
\* the second time.
LEMMA OpeningConnects ==
  ASSUME NEW a, Go(a), Opening
  PROVE  /\ Opening' \/ (pc = "recv")' \/ RetryingSure(a)'
         /\ <<Connect>>_rvars => (pc = "recv")' \/ RetryingSure(a)'
         /\ OpeningSure(a) => OpeningSure(a)' \/ Obeyed(a)'
         /\ OpeningSure(a) /\ <<Connect>>_rvars => Obeyed(a)'
<1>1. adc = a
  BY DEF Go, Rests
<1>2. CASE Connect
  <2>1. /\ ReadAndSelect(currentStream, streamCounter, streamCount)
        /\ streamCount' = streamCount /\ pc' \in {"recv", "retry"}
    BY <1>2 DEF Connect, Open
  <2>2. streamCounter' = currentStream'
    BY <2>1 DEF ReadAndSelect
  <2>3. Sure(a) => Obeyed(a)'
    BY <1>1, <2>1, SelectedIsObeyed DEF Sure
  <2> QED
    BY <2>1, <2>2, <2>3 DEF RetryingSure, OpeningSure, Sure
<1>3. CASE UNCHANGED rvars
  BY <1>3 DEF rvars, vars, Opening, OpeningSure, Sure, Leaves, LimitMin, LimitMax
<1> QED
  BY <1>2, <1>3, KnobRests
  DEF Boot, GotIP, Retry, Receive, RecvFails, RecvNetbuf, Written, WrittenAndLook, Serve,
      Accept, ClientGone, Request, SetCount, Save, OtherRequest, CheckKnob, Opening

\* The next attempt is made.
LEMMA RetryingOpens ==
  ASSUME NEW a, Go(a), Retrying
  PROVE  /\ Retrying' \/ Opening'
         /\ <<Retry>>_rvars => Opening'
         /\ RetryingSure(a) => RetryingSure(a)' \/ OpeningSure(a)'
         /\ RetryingSure(a) /\ <<Retry>>_rvars => OpeningSure(a)'
  BY KnobRests
  DEF Boot, GotIP, Connect, Open, Retry, Receive, RecvFails, RecvNetbuf, Written,
      WrittenAndLook, Serve, Accept, ClientGone, Request, SetCount, Save, OtherRequest,
      CheckKnob, rvars, vars, Retrying, RetryingSure, Opening, OpeningSure, Sure, Leaves,
      LimitMin, LimitMax

\* Once the knob has been looked at, or the connection is lost.
Looked(a) == Obeyed(a) \/ Booting \/ OpeningSure(a)

\* A netbuf is received, or the connection is lost.
LEMMA ReceivingWrites ==
  ASSUME NEW a, Go(a), NEW n, Receiving(n)
  PROVE  /\ Receiving(n)' \/ Writing(n)' \/ Looked(a)'
         /\ <<Receive>>_rvars => Writing(n)' \/ Looked(a)'
<1>1. adc = a /\ streamCounter = currentStream
  BY DEF Go, Rests, RInv, Settled, Receiving
<1>2. CASE RecvFails
  BY <1>1, <1>2 DEF RecvFails, vars, Looked, OpeningSure, Sure
<1>3. CASE RecvNetbuf
  BY <1>3 DEF RecvNetbuf, Receiving, Writing
<1>4. CASE UNCHANGED rvars
  BY <1>4 DEF rvars, Receiving
<1> QED
  BY <1>2, <1>3, <1>4, KnobRests
  DEF Boot, GotIP, Connect, Open, Retry, Receive, Written, WrittenAndLook, Serve, Accept,
      ClientGone, Request, SetCount, Save, OtherRequest, CheckKnob, Receiving

\* Every netbuf that is written brings the next look at the knob nearer.
LEMMA WritingLooks ==
  ASSUME NEW a, Go(a), NEW n \in Nat, NEW m \in Nat, m = n + 1, Writing(n)
  PROVE  Writing(n)' \/ Receiving(m)' \/ Looked(a)'
<1>1. adc = a /\ streamCounter = currentStream
  BY DEF Go, Rests, RInv, Settled, Writing
<1>2. CASE Written
  BY <1>2 DEF Written, Writing, Receiving
<1>3. CASE WrittenAndLook
  <2>1. CASE ~Leaves(currentStream, streamCount, a)
             \/ Part(streamCount, a) = currentStream
    <3>1. Obeyed(a)
      BY <1>1, <2>1 DEF Obeyed, Writing
    <3> QED
      BY <3>1, ObeyedStays DEF Looked
  <2>2. CASE /\ Leaves(currentStream, streamCount, a)
             /\ Part(streamCount, a) # currentStream
    <3>1. \/ pc' = "boot"
          \/ pc' = "open" /\ UNCHANGED <<currentStream, streamCount>>
      BY <1>1, <1>3, <2>2 DEF WrittenAndLook, PowerUp
    <3> QED
      BY <2>2, <3>1 DEF Looked, Booting, OpeningSure, Sure, Leaves, LimitMin, LimitMax
  <2> QED
    BY <2>1, <2>2
<1>4. CASE UNCHANGED rvars
  BY <1>4 DEF rvars, Writing
<1> QED
  BY <1>2, <1>3, <1>4, KnobRests
  DEF Boot, GotIP, Connect, Open, Retry, Receive, RecvFails, RecvNetbuf, Serve, Accept,
      ClientGone, Request, SetCount, Save, OtherRequest, CheckKnob, Writing

\* The server comes to look at the knob.
LEMMA ServingChecks ==
  ASSUME NEW a, Go(a), Serving
  PROVE  /\ Serving' \/ Checking'
         /\ <<Serve /\ pc' = "check">>_rvars => Checking'
  BY KnobRests
  DEF Boot, GotIP, Connect, Open, Retry, Receive, RecvFails, RecvNetbuf, Written,
      WrittenAndLook, Serve, Accept, ClientGone, Request, SetCount, Save, OtherRequest,
      Answer, CheckKnob, rvars, vars, Serving, Checking

\* A look at the knob finds that it is obeyed, or restarts the radio.
LEMMA CheckingLooks ==
  ASSUME NEW a, Go(a), Checking
  PROVE  /\ Checking' \/ Looked(a)'
         /\ <<CheckKnob>>_rvars => Looked(a)'
<1>1. adc = a /\ streamCounter = currentStream
  BY DEF Go, Rests, RInv, Settled, Checking, ServerPlaces
<1>2. CASE CheckKnob
  <2>1. CASE ~Leaves(currentStream, streamCount, a)
             \/ Part(streamCount, a) = currentStream
    <3>1. Obeyed(a)
      BY <1>1, <2>1 DEF Obeyed, Checking
    <3> QED
      BY <3>1, ObeyedStays DEF Looked
  <2>2. CASE /\ Leaves(currentStream, streamCount, a)
             /\ Part(streamCount, a) # currentStream
    BY <1>1, <1>2, <2>2 DEF CheckKnob, PowerUp, Looked, Booting
  <2> QED
    BY <2>1, <2>2
<1>3. CASE UNCHANGED rvars
  BY <1>3 DEF rvars, Checking
<1> QED
  BY <1>2, <1>3, KnobRests
  DEF Boot, GotIP, Connect, Open, Retry, Receive, RecvFails, RecvNetbuf, Written,
      WrittenAndLook, Serve, Accept, ClientGone, Request, SetCount, Save, OtherRequest,
      Checking

\* What the fair actions wait for: the places they are taken at.
GuardsEnable ==
  /\ pc = "boot" => ENABLED <<Boot>>_rvars
  /\ pc = "wlan" => ENABLED <<GotIP>>_rvars
  /\ pc = "open" => ENABLED <<Connect>>_rvars
  /\ pc = "retry" => ENABLED <<Retry>>_rvars
  /\ pc = "recv" => ENABLED <<Receive>>_rvars
  /\ pc = "check" => ENABLED <<CheckKnob>>_rvars
  /\ pc \in {"accept", "request"} => ENABLED <<Serve /\ pc' = "check">>_rvars

\* One netbuf more, or the knob is looked at.
Turn(a, n, m) ==
  /\ Go(a) /\ Receiving(n) => Receiving(n)' \/ Writing(n)' \/ Looked(a)'
  /\ Go(a) /\ Receiving(n) /\ <<Receive>>_rvars => Writing(n)' \/ Looked(a)'
  /\ Go(a) /\ Writing(n) => Writing(n)' \/ Receiving(m)' \/ Looked(a)'
  /\ Receiving(n) => pc = "recv"
  /\ Writing(n) => pc = "write"
-----------------------------------------------------------------------------
(* What is known of the channel a player is about to connect to, or is     *)
(* connected to.                                                           *)
Chosen ==
  /\ pc \in {"wlan", "retry"} => streamCounter = currentStream
  /\ pc = "open" => streamCounter = currentStream \/ currentStream < streamCount
  /\ pc \in {"recv", "write"} => currentStream < streamCount

Unconnected == pc \in {"open", "retry"}

\* Every step keeps that.
LEMMA ChosenStep == RInv /\ Chosen /\ [RNext]_rvars => Chosen'
<1> SUFFICES ASSUME RInv, Chosen, [RNext]_rvars PROVE Chosen'
  OBVIOUS
<1>1. pc \in ServerPlaces \cup {"recv", "write", "boot"} => streamCounter = currentStream
  BY DEF RInv, Settled
<1>2. CASE UNCHANGED <<vars, pc>>
  BY <1>2 DEF vars, Chosen
<1>3. CASE Connect
  BY <1>3 DEF Connect, Open, ReadAndSelect, Chosen
<1>4. CASE WrittenAndLook \/ DecoderCrash
  BY <1>1, <1>4 DEF WrittenAndLook, DecoderCrash, PowerUp, Chosen
<1>5. CASE Boot
  BY <1>5 DEF Boot, ReadAndSelect, Chosen
<1>6. CASE GotIP \/ Retry \/ RecvFails \/ RecvNetbuf \/ Written
  BY <1>6 DEF GotIP, Retry, RecvFails, RecvNetbuf, Written, vars, Chosen
<1>7. CASE Serve \/ CheckKnob
  BY <1>7 DEF Serve, Accept, ClientGone, Request, SetCount, Save, OtherRequest, Answer,
             CheckKnob, PowerUp, Chosen
<1>8. CASE TurnKnob \/ UNCHANGED rvars
  BY <1>2, <1>8 DEF TurnKnob, rvars
<1> QED
  BY <1>3, <1>4, <1>5, <1>6, <1>7, <1>8 DEF RNext, Receive

LEMMA ChosenAlways == RSafeSpec => []Chosen
<1>1. RInit => Chosen
  BY DEF RInit, Chosen
<1> QED
  BY <1>1, ChosenStep, RadioInvariance, PTL DEF RSafeSpec

\* At the end of the dial nothing can be connected to.
LEMMA EndAsksForServer ==
  ASSUME RInv, adc = MAX_ADC, pc # "boot"
  PROVE  /\ Select(currentStream, streamCount, adc) >= streamCount
         /\ streamCount \in Nat /\ currentStream \in Nat
<1>1. streamCount \in Valid /\ currentStream \in Nat
  BY ValidCounts, DialAssumption DEF RInv, RTypes
<1> QED
  BY <1>1, EndOfDial, StepFacts

\* Without a connection it stays without one.
LEMMA UnconnectedStays ==
  ASSUME RInv, Chosen, adc = MAX_ADC, (adc = MAX_ADC)', Unconnected, [Goes]_rvars
  PROVE  Unconnected'
<1>1. CASE Connect
  <2>1. /\ Select(currentStream, streamCount, adc) >= streamCount
        /\ streamCount \in Nat /\ currentStream \in Nat
    BY EndAsksForServer DEF Unconnected
  <2>2. streamCounter' = IF Leaves(currentStream, streamCount, adc)
                           THEN Part(streamCount, adc) ELSE streamCounter
    BY <1>1 DEF Connect, Open, ReadAndSelect
  <2>3. ~(streamCounter' < streamCount)
    <3>1. CASE Leaves(currentStream, streamCount, adc)
      BY <2>1, <2>2, <3>1, PartType, ValidCounts DEF Select, RInv, RTypes, Unconnected
    <3>2. CASE ~Leaves(currentStream, streamCount, adc)
      BY <2>1, <2>2, <3>2 DEF Select, Chosen, Unconnected
    <3> QED
      BY <3>1, <3>2
  <2> QED
    BY <1>1, <2>3 DEF Connect, Open, Unconnected
<1>2. CASE Retry \/ UNCHANGED rvars
  BY <1>2 DEF Retry, rvars, Unconnected
<1> QED
  BY <1>1, <1>2
  DEF Goes, RNext, TurnKnob, Boot, GotIP, Receive, RecvFails, RecvNetbuf, Written,
      WrittenAndLook, Serve, Accept, ClientGone, Request, SetCount, Save, OtherRequest,
      CheckKnob, Unconnected

\* Once it serves, the radio serves as long as it obeys.
LEMMA ServerStays ==
  ASSUME NEW a, Go(a), Obeyed(a), pc \in ServerPlaces
  PROVE  (pc \in ServerPlaces)'
<1>1. Obeyed(a)'
  BY ObeyedStays
<1> QED
  BY <1>1, KnobRests
  DEF Boot, GotIP, Connect, Open, Retry, Receive, RecvFails, RecvNetbuf, Written,
      WrittenAndLook, Serve, Accept, ClientGone, Request, SetCount, Save, OtherRequest,
      Answer, CheckKnob, PowerUp, rvars, ServerPlaces, Obeyed

\* A radio that obeys a knob at the end of the dial receives nothing.
LEMMA NoneReceived ==
  ASSUME RInv, Chosen, adc = MAX_ADC, Obeyed(adc)
  PROVE  pc \in ServerPlaces \/ Waiting \/ Unconnected
<1>1. /\ Select(currentStream, streamCount, adc) >= streamCount
      /\ streamCount \in Nat /\ currentStream \in Nat
  BY EndAsksForServer DEF Obeyed
<1>2. currentStream >= streamCount
  BY <1>1 DEF Obeyed, Select
<1> QED
  BY <1>1, <1>2
  DEF RInv, RTypes, Chosen, Obeyed, PlayerPlaces, Waiting, Unconnected

\* A start with the knob at the end of the dial ends in the server, which no
\* decoder restarts, since there is none.
LEMMA RestartServes ==
  ASSUME NEW a, a = MAX_ADC, Rests(a), Rests(a)', MadInv, [RNext]_rvars
  PROVE  /\ Booting => Booting' \/ (Obeyed(a) /\ pc \in ServerPlaces)'
         /\ Booting /\ <<Boot>>_rvars => (Obeyed(a) /\ pc \in ServerPlaces)'
         /\ Obeyed(a) /\ pc \in ServerPlaces => (Obeyed(a) /\ pc \in ServerPlaces)'
<1>1. Booting \/ pc \in ServerPlaces => Go(a)
  BY CrashWhilePlaying DEF Go, Goes, Booting, ServerPlaces
<1>2. ASSUME Booting, Boot PROVE (pc \in ServerPlaces)'
  <2>1. /\ flashCount \in Valid /\ adc = MAX_ADC
        /\ currentStream = 0 /\ streamCounter = 0 /\ 0 \in Nat
    BY <1>2, ValidCounts DEF Rests, RInv, RTypes, Settled, Booting
  <2>2. Select(0, flashCount, adc) >= flashCount
    BY <2>1, EndOfDial
  <2>3. streamCounter' = Select(0, flashCount, adc)
    BY <1>2, <2>1 DEF Boot, ReadAndSelect, Select
  <2> QED
    BY <1>2, <2>2, <2>3 DEF Boot, ServerPlaces
<1>3. ASSUME Booting
      PROVE  Booting' \/ (Obeyed(a) /\ pc \in ServerPlaces)'
  <2>1. Boot \/ UNCHANGED pc
    BY <1>1, <1>3, KnobRests
    DEF GotIP, Connect, Open, Retry, Receive, RecvFails, RecvNetbuf, Written,
        WrittenAndLook, Serve, Accept, ClientGone, Request, SetCount, Save, OtherRequest,
        CheckKnob, Booting, rvars
  <2>2. CASE Boot
    BY <1>1, <1>2, <1>3, <2>2, BootObeys DEF Booting, ServerPlaces
  <2> QED
    BY <1>3, <2>1, <2>2 DEF Booting
<1>4. ASSUME Booting, <<Boot>>_rvars
      PROVE  (Obeyed(a) /\ pc \in ServerPlaces)'
  BY <1>1, <1>2, <1>4, BootObeys
<1> QED
  BY <1>1, <1>3, <1>4, ObeyedStays, ServerStays
-----------------------------------------------------------------------------
\* What comes of a knob left at the end of the dial.
ServerOrRetry ==
  <>[](adc = MAX_ADC)
    => <>[](pc \in ServerPlaces) \/ <>[]Unconnected \/ <>[](pc = "write")

\* What comes of a knob left at a.  Each place leads to one where the radio does
\* what the knob asks for, and there it stays.
LEMMA KnobAtRest ==
  ASSUME KnobRate <= 20, NEW a \in Readings
  PROVE  /\ RSpec /\ []GuardsEnable
              => (<>[](adc = a) /\ WritesReturn /\ CrashesEnd => <>[]Obeyed(a))
         /\ a = MAX_ADC => (RSpec /\ []GuardsEnable => ServerOrRetry)
<1>1. RSpec => []RInv
  BY RadioInvariance, PTL DEF RSpec
<1>2. Go(a) /\ Obeyed(a) => Obeyed(a)'
  BY ObeyedStays
<1>3. /\ Go(a) /\ Booting => Booting' \/ Obeyed(a)'
      /\ Go(a) /\ Booting /\ <<Boot>>_rvars => Obeyed(a)'
  BY BootObeys
<1>4. /\ Go(a) /\ Waiting => Waiting' \/ Opening'
      /\ Go(a) /\ Waiting /\ <<GotIP>>_rvars => Opening'
  BY WaitingOpens
<1>5. /\ Go(a) /\ Opening => Opening' \/ (pc = "recv")' \/ RetryingSure(a)'
      /\ Go(a) /\ Opening /\ <<Connect>>_rvars => (pc = "recv")' \/ RetryingSure(a)'
      /\ Go(a) /\ OpeningSure(a) => OpeningSure(a)' \/ Obeyed(a)'
      /\ Go(a) /\ OpeningSure(a) /\ <<Connect>>_rvars => Obeyed(a)'
  BY OpeningConnects DEF OpeningSure, Opening
<1>6. /\ Go(a) /\ Retrying => Retrying' \/ Opening'
      /\ Go(a) /\ Retrying /\ <<Retry>>_rvars => Opening'
      /\ Go(a) /\ RetryingSure(a) => RetryingSure(a)' \/ OpeningSure(a)'
      /\ Go(a) /\ RetryingSure(a) /\ <<Retry>>_rvars => OpeningSure(a)'
  BY RetryingOpens DEF RetryingSure, Retrying
<1>7. /\ Turn(a, 0, 1) /\ Turn(a, 1, 2) /\ Turn(a, 2, 3) /\ Turn(a, 3, 4)
      /\ Turn(a, 4, 5) /\ Turn(a, 5, 6) /\ Turn(a, 6, 7) /\ Turn(a, 7, 8)
      /\ Turn(a, 8, 9) /\ Turn(a, 9, 10) /\ Turn(a, 10, 11) /\ Turn(a, 11, 12)
      /\ Turn(a, 12, 13) /\ Turn(a, 13, 14) /\ Turn(a, 14, 15) /\ Turn(a, 15, 16)
      /\ Turn(a, 16, 17) /\ Turn(a, 17, 18) /\ Turn(a, 18, 19) /\ Turn(a, 19, 20)
  <2>1. ASSUME NEW n \in Nat, NEW m \in Nat, m = n + 1 PROVE Turn(a, n, m)
    BY <2>1, ReceivingWrites, WritingLooks DEF Turn, Receiving, Writing
  <2> QED
    BY <2>1
<1>8. /\ Go(a) /\ Serving => Serving' \/ Checking'
      /\ Go(a) /\ Serving /\ <<Serve /\ pc' = "check">>_rvars => Checking'
  BY ServingChecks
<1>9. /\ Go(a) /\ Checking => Checking' \/ Looked(a)'
      /\ Go(a) /\ Checking /\ <<CheckKnob>>_rvars => Looked(a)'
  BY CheckingLooks
<1>10. GuardsEnable =>
         /\ Booting => ENABLED <<Boot>>_rvars
         /\ Waiting => ENABLED <<GotIP>>_rvars
         /\ Opening => ENABLED <<Connect>>_rvars
         /\ Retrying => ENABLED <<Retry>>_rvars
         /\ pc = "recv" => ENABLED <<Receive>>_rvars
         /\ Checking => ENABLED <<CheckKnob>>_rvars
         /\ Serving => ENABLED <<Serve /\ pc' = "check">>_rvars
  BY DEF GuardsEnable, Booting, Waiting, Opening, Retrying, Checking, Serving
<1>11. RInv => \/ Booting \/ Waiting \/ Opening \/ Retrying \/ Checking \/ Serving
               \/ pc = "recv" \/ pc = "write"
  BY DEF RInv, RTypes, PlayerPlaces, ServerPlaces, Booting, Waiting, Opening,
         Retrying, Checking, Serving
<1>12. RInv /\ pc = "recv" =>
         \/ Receiving(0) \/ Receiving(1) \/ Receiving(2) \/ Receiving(3)
         \/ Receiving(4) \/ Receiving(5) \/ Receiving(6) \/ Receiving(7)
         \/ Receiving(8) \/ Receiving(9) \/ Receiving(10) \/ Receiving(11)
         \/ Receiving(12) \/ Receiving(13) \/ Receiving(14) \/ Receiving(15)
         \/ Receiving(16) \/ Receiving(17) \/ Receiving(18) \/ Receiving(19)
  BY KnobRateAssumption DEF RInv, RTypes, Receiving
<1>13. RInv => ~Receiving(20)
  BY KnobRateAssumption DEF RInv, RTypes, Receiving
<1>14. RInv /\ pc = "write" =>
         \/ Writing(0) \/ Writing(1) \/ Writing(2) \/ Writing(3)
         \/ Writing(4) \/ Writing(5) \/ Writing(6) \/ Writing(7)
         \/ Writing(8) \/ Writing(9) \/ Writing(10) \/ Writing(11)
         \/ Writing(12) \/ Writing(13) \/ Writing(14) \/ Writing(15)
         \/ Writing(16) \/ Writing(17) \/ Writing(18) \/ Writing(19)
  BY KnobRateAssumption DEF RInv, RTypes, Writing
<1>15. pc # "write" <=> ~(pc = "write")
  OBVIOUS
<1>16. /\ OpeningSure(a) => Opening
       /\ RetryingSure(a) => Retrying
       /\ Looked(a) => Obeyed(a) \/ Booting \/ OpeningSure(a)
  BY DEF OpeningSure, RetryingSure, Opening, Retrying, Looked
<1> DEFINE Fair ==
      /\ WF_rvars(Boot) /\ WF_rvars(Connect) /\ WF_rvars(Retry) /\ WF_rvars(CheckKnob)
      /\ WF_rvars(GotIP) /\ WF_rvars(Receive) /\ SF_rvars(Serve /\ pc' = "check")
    Calm == /\ []Rests(a) /\ [][Goes]_rvars /\ []GuardsEnable
            /\ []<>~(pc = "write") /\ Fair
<1>20. Calm => (OpeningSure(a) ~> Obeyed(a))
  BY <1>5, <1>10, <1>16, PTL DEF Go
<1>21. Calm => (RetryingSure(a) ~> Obeyed(a))
  BY <1>6, <1>10, <1>16, <1>20, PTL DEF Go
<1>22. Calm => (Booting ~> Obeyed(a))
  BY <1>3, <1>10, PTL DEF Go
<1>23. Calm => (Looked(a) ~> Obeyed(a))
  BY <1>16, <1>20, <1>22, PTL
<1>24. Calm => (pc = "recv" ~> Looked(a)) /\ (pc = "write" ~> Looked(a))
  <2>1. Calm => (Receiving(19) ~> Looked(a)) /\ (Writing(19) ~> Looked(a))
    BY <1>7, <1>10, <1>13, PTL DEF Turn, Go, Rests
  <2>2. Calm => (Receiving(18) ~> Looked(a)) /\ (Writing(18) ~> Looked(a))
    BY <1>7, <1>10, <2>1, PTL DEF Turn, Go, Rests
  <2>3. Calm => (Receiving(17) ~> Looked(a)) /\ (Writing(17) ~> Looked(a))
    BY <1>7, <1>10, <2>2, PTL DEF Turn, Go, Rests
  <2>4. Calm => (Receiving(16) ~> Looked(a)) /\ (Writing(16) ~> Looked(a))
    BY <1>7, <1>10, <2>3, PTL DEF Turn, Go, Rests
  <2>5. Calm => (Receiving(15) ~> Looked(a)) /\ (Writing(15) ~> Looked(a))
    BY <1>7, <1>10, <2>4, PTL DEF Turn, Go, Rests
  <2>6. Calm => (Receiving(14) ~> Looked(a)) /\ (Writing(14) ~> Looked(a))
    BY <1>7, <1>10, <2>5, PTL DEF Turn, Go, Rests
  <2>7. Calm => (Receiving(13) ~> Looked(a)) /\ (Writing(13) ~> Looked(a))
    BY <1>7, <1>10, <2>6, PTL DEF Turn, Go, Rests
  <2>8. Calm => (Receiving(12) ~> Looked(a)) /\ (Writing(12) ~> Looked(a))
    BY <1>7, <1>10, <2>7, PTL DEF Turn, Go, Rests
  <2>9. Calm => (Receiving(11) ~> Looked(a)) /\ (Writing(11) ~> Looked(a))
    BY <1>7, <1>10, <2>8, PTL DEF Turn, Go, Rests
  <2>10. Calm => (Receiving(10) ~> Looked(a)) /\ (Writing(10) ~> Looked(a))
    BY <1>7, <1>10, <2>9, PTL DEF Turn, Go, Rests
  <2>11. Calm => (Receiving(9) ~> Looked(a)) /\ (Writing(9) ~> Looked(a))
    BY <1>7, <1>10, <2>10, PTL DEF Turn, Go, Rests
  <2>12. Calm => (Receiving(8) ~> Looked(a)) /\ (Writing(8) ~> Looked(a))
    BY <1>7, <1>10, <2>11, PTL DEF Turn, Go, Rests
  <2>13. Calm => (Receiving(7) ~> Looked(a)) /\ (Writing(7) ~> Looked(a))
    BY <1>7, <1>10, <2>12, PTL DEF Turn, Go, Rests
  <2>14. Calm => (Receiving(6) ~> Looked(a)) /\ (Writing(6) ~> Looked(a))
    BY <1>7, <1>10, <2>13, PTL DEF Turn, Go, Rests
  <2>15. Calm => (Receiving(5) ~> Looked(a)) /\ (Writing(5) ~> Looked(a))
    BY <1>7, <1>10, <2>14, PTL DEF Turn, Go, Rests
  <2>16. Calm => (Receiving(4) ~> Looked(a)) /\ (Writing(4) ~> Looked(a))
    BY <1>7, <1>10, <2>15, PTL DEF Turn, Go, Rests
  <2>17. Calm => (Receiving(3) ~> Looked(a)) /\ (Writing(3) ~> Looked(a))
    BY <1>7, <1>10, <2>16, PTL DEF Turn, Go, Rests
  <2>18. Calm => (Receiving(2) ~> Looked(a)) /\ (Writing(2) ~> Looked(a))
    BY <1>7, <1>10, <2>17, PTL DEF Turn, Go, Rests
  <2>19. Calm => (Receiving(1) ~> Looked(a)) /\ (Writing(1) ~> Looked(a))
    BY <1>7, <1>10, <2>18, PTL DEF Turn, Go, Rests
  <2>20. Calm => (Receiving(0) ~> Looked(a)) /\ (Writing(0) ~> Looked(a))
    BY <1>7, <1>10, <2>19, PTL DEF Turn, Go, Rests
  <2> HIDE DEF Calm
  <2>21. Calm => []RInv
    BY PTL DEF Calm, Rests
  <2> QED
    BY <1>12, <1>14, <2>1, <2>2, <2>3, <2>4, <2>5, <2>6, <2>7, <2>8, <2>9, <2>10,
       <2>11, <2>12, <2>13, <2>14, <2>15, <2>16, <2>17, <2>18, <2>19, <2>20, <2>21, PTL
<1>25. Calm => (Opening ~> Obeyed(a))
  BY <1>5, <1>10, <1>16, <1>21, <1>23, <1>24, PTL DEF Go
<1>26. Calm => (Retrying ~> Obeyed(a))
  BY <1>6, <1>10, <1>25, PTL DEF Go
<1>27. Calm => (Waiting ~> Obeyed(a))
  BY <1>4, <1>10, <1>25, PTL DEF Go
<1>28. Calm => (Checking ~> Obeyed(a))
  BY <1>9, <1>10, <1>23, PTL DEF Go
<1>29. Calm => (Serving ~> Obeyed(a))
  BY <1>8, <1>10, <1>28, PTL DEF Go
<1>30. Calm => <>[]Obeyed(a)
  <2>1. Calm => <>Obeyed(a)
    BY <1>11, <1>22, <1>23, <1>24, <1>25, <1>26, <1>27, <1>28, <1>29, PTL DEF Rests
  <2> QED
    BY <1>2, <2>1, PTL DEF Go
<1>31. RSpec /\ []GuardsEnable /\ <>[](adc = a) /\ WritesReturn /\ CrashesEnd => <>[]Calm
  <2>1. Fair => []Fair
    BY PTL
  <2>2. RSpec => [][RNext]_rvars /\ Fair
    BY PTL DEF RSpec, RSafeSpec
  <2>3. []RInv /\ <>[](adc = a) => <>[]Rests(a)
    BY PTL DEF Rests
  <2>4. [][RNext]_rvars /\ CrashesEnd => <>[][Goes]_rvars
    BY PTL DEF CrashesEnd, Goes
  <2>5. WritesReturn => []<>~(pc = "write")
    BY <1>15, PTL DEF WritesReturn
  <2> HIDE DEF Fair
  <2> QED
    BY <1>1, <2>1, <2>2, <2>3, <2>4, <2>5, PTL
<1>32. RSpec /\ []GuardsEnable /\ <>[](adc = a) /\ WritesReturn /\ CrashesEnd
         => <>[]Obeyed(a)
  BY <1>30, <1>31, PTL
<1>33. a = MAX_ADC => (RSpec /\ []GuardsEnable => ServerOrRetry)
  <2> SUFFICES ASSUME a = MAX_ADC PROVE RSpec /\ []GuardsEnable => ServerOrRetry
    OBVIOUS
  <2>1. /\ Go(a) /\ Obeyed(a) /\ Chosen /\ pc \in ServerPlaces => (pc \in ServerPlaces)'
        /\ Go(a) /\ Chosen /\ Unconnected => Unconnected'
        /\ Rests(a) /\ Obeyed(a) /\ Chosen => pc \in ServerPlaces \/ Waiting \/ Unconnected
        /\ Opening => Unconnected
        /\ adc = a <=> adc = MAX_ADC
    BY ServerStays, UnconnectedStays, NoneReceived
    DEF Go, Rests, Opening, Unconnected
  <2>2. Calm => (Waiting ~> Unconnected)
    BY <1>4, <1>10, <2>1, PTL DEF Go
  <2>3. RSpec => []Chosen /\ []MadInv
    BY ChosenAlways, MadInvariance, PTL DEF RSpec
  <2>4. Calm /\ []Obeyed(a) /\ []Chosen => <>[](pc \in ServerPlaces) \/ <>[]Unconnected
    BY <2>1, <2>2, PTL DEF Go
  <2>5. RSpec /\ []GuardsEnable /\ <>[](adc = a) /\ ~CrashesEnd => <>[](pc \in ServerPlaces)
    <3> DEFINE Served == Obeyed(a) /\ pc \in ServerPlaces
               Kept == Rests(a) /\ Rests(a)' /\ MadInv /\ [RNext]_rvars
    <3>1. /\ Kept /\ Booting => Booting' \/ Served'
          /\ Kept /\ Booting /\ <<Boot>>_rvars => Served'
          /\ Kept /\ Served => Served'
      BY RestartServes DEF Rests
    <3>2. /\ <<DecoderCrash>>_rvars => Booting'
          /\ Served => pc \in ServerPlaces
      BY DEF DecoderCrash, PowerUp, Booting
    <3>3. RSpec => [][RNext]_rvars /\ WF_rvars(Boot)
      BY PTL DEF RSpec, RSafeSpec
    <3>4. ~CrashesEnd => []<><<DecoderCrash>>_rvars
      BY PTL DEF CrashesEnd
    <3>5. []RInv /\ <>[](adc = a) => <>[]Rests(a)
      BY PTL DEF Rests
    <3> HIDE DEF Served
    <3> QED
      BY <1>1, <1>10, <2>3, <3>1, <3>2, <3>3, <3>4, <3>5, PTL
  <2>6. ~WritesReturn => <>[](pc = "write")
    BY <1>15, PTL DEF WritesReturn
  <2> HIDE DEF Calm
  <2>7. RSpec /\ []GuardsEnable /\ <>[](adc = a) /\ WritesReturn /\ CrashesEnd
          => <>(Calm /\ []Obeyed(a) /\ []Chosen)
    BY <1>31, <1>32, <2>3, PTL
  <2> QED
    BY <2>1, <2>4, <2>5, <2>6, <2>7, PTL DEF ServerOrRetry
<1> QED
  BY <1>32, <1>33

\* In both lives a knob that comes to rest is obeyed, on every dial and with any
\* numbers of channels, if it is looked at every 20 netbufs as in the code, or
\* more often (user_main.c, lines 169-172 and 219-232; webserver.c, 461-464), and
\* if writes to the fifo return and the stream stops restarting the chip.
THEOREM KnobIsObeyed ==
  KnobRate <= 20 => (RSpec /\ []GuardsEnable => KnobObeyed)
<1> SUFFICES ASSUME KnobRate <= 20, NEW a \in Readings
             PROVE  RSpec /\ []GuardsEnable
                      => (<>[](adc = a) /\ WritesReturn /\ CrashesEnd => <>[]Obeyed(a))
  BY DEF KnobObeyed, Obeyed
<1> QED
  BY KnobAtRest

\* A player that has no connection while the knob is left at the end of the dial
\* tries to connect for ever: it never opens the hotspot (README.md, line 139, says
\* it does; user_main.c, lines 165-180, looks at the knob but not for the server).
\* Only what is left in the fifo could end that, by restarting the chip.
THEOREM EndWithoutServer ==
  RSafeSpec => [](Unconnected /\ [](adc = MAX_ADC) /\ [][~DecoderCrash]_rvars
                    => []Unconnected)
<1>1. RSafeSpec => [][RNext]_rvars /\ []RInv /\ []Chosen
  BY RadioInvariance, ChosenAlways, PTL DEF RSafeSpec
<1>2. [RNext]_rvars /\ [~DecoderCrash]_rvars => [Goes]_rvars
  BY DEF Goes
<1> QED
  BY <1>1, <1>2, UnconnectedStays, PTL

\* A knob left at the end of the dial opens the hotspot, or the radio tries to
\* connect for ever, or the reader task sleeps in spiRamFifoWrite for ever
\* (user_main.c, line 201) and does not look at the knob again.  With a WLAN, servers
\* and clients as RSpec has them there is nothing else, also when the stream restarts
\* the chip.
THEOREM EndIsServerOrRetry ==
  KnobRate <= 20 => (RSpec /\ []GuardsEnable => ServerOrRetry)
<1>1. MAX_ADC \in Readings
  BY DialAssumption DEF Readings
<1> QED
  BY <1>1, KnobAtRest
=============================================================================
