# myRadio: a TLA+ model of the firmware

myRadio is an internet radio for the ESP8266: it receives an MP3 stream over
WLAN, decodes it with libmad and sends it to an I2S codec. A potentiometer
selects the channel; at the end of its dial the radio restarts as a hotspot
with a small web server, where the WLAN and the channels are set.

This directory holds TLA+ modules for the parts of the firmware that keep state
and interact, TLC configurations that check them on small instances, and proofs
checked by TLAPS that hold for every instance. Paths are relative to `src/`;
the firmware's own code is in `mp3/user` and `mp3/driver`.

## 1. The system

### Components

| Component | Source | State | Operations |
|---|---|---|---|
| MP3 byte fifo | `mp3/user/spiram_fifo.c` | ring, `fifoRpos`, `fifoWpos`, `fifoFill`, a mutex, two binary semaphores, two counters | `spiRamFifoWrite`, `spiRamFifoRead`, `spiRamFifoFill`, `spiRamFifoFree` |
| Network reader task | `tskreader` in `mp3/user/user_main.c` | connection, current netbuf, `madRunning`, `t` | connect, receive, hand over to the fifo, start the decoder, look at the knob |
| Decoder task | `tskmad`, `input` in `mp3/user/mad_helper.c` | `readBuf`, MAD's position in it | refill from the fifo or play silence, decode, go on after an error |
| Framing and bit reservoir | `mp3/mad/frame.c`, `stream.c`, `layer3.c` | `next_frame`, `sync`, `MainData`, `md_len` | `mad_header_decode`, `mad_stream_sync`, `mad_stream_buffer`, `mad_layer_III` |
| Speed control | `render_sample_block`, `recalcAddDelSamp`, `set_dac_sample_rate` in `mad_helper.c` | `sampAddDel`, `sampErr`, `minFifoFill`, `cnt`, `oldRate` | leave samples out or repeat them, set the rate |
| I2S output | `mp3/driver/i2s_freertos.c` | ring of DMA buffers, `dmaQueue`, `currDMABuff`, `underrunCnt` | the engine (hardware), `slc_isr`, `i2sPushSample`, `i2sSetRate` |
| Channel dial | `mp3/user/channel.c` | `streamCounter`, `currentStream`, `streamCount` | `channel_read`, `channel_setCurrentStream`, `channel_setStreamCount` |
| Start-up and modes | `tskconnect` in `user_main.c` | WLAN mode | load settings, choose player or server, wait for an address |
| Config server | `mp3/user/webserver.c` | connection | `tskserver`'s loop, `parseCommand` |
| Settings | `mp3/user/flash.c`, `wifi.c`, `channel.c` | `wifi_ssid`, `wifi_pass`, hosts, paths, ports; the flash sectors | setters, `flash_writeConfig`, `flash_readConfig` |
| SPI RAM driver | `mp3/driver/spiram.c` | none | register I/O, not compiled as shipped (`FAKE_SPI_BUFF`) |
| UART, GPIO | `mp3/driver/uart.c`, `gpio.c` | none | register I/O |
| rest of libmad, SDK, FreeRTOS, lwIP | `mp3/mad`, `include`, `lib` | - | third party |

### How they interact

```
 network --> tskreader --spiRamFifoWrite--> [fifo] --spiRamFifoRead--> tskmad: input
                |  starts tskmad              : fill                      | mad_header_decode
                |                             v                           | mad_layer_III, [MainData]
   knob --> channel_read              recalcAddDelSamp                    v mad_synth_frame
                |                             +-------------> render_sample_block
                |  restart                                                | i2sPushSample
                v                                                         v
           tskconnect --> tskreader or tskserver            [dmaQueue] --pop
                ^                       |                         ^ push
                +---- flash <-----------+ requests, save       slc_isr <-- DMA engine
```

The reader task (priority 11) and the decoder task (priority 1) share the fifo.
The decoder shares `dmaQueue` with an interrupt. The dial's variables are
written by whichever of `tskconnect`, `tskreader` and `tskserver` is running;
a restart loses all memory and keeps the flash.

### What is hard, and what would make it right

* **Fifo.** The fill is changed by `+=` in one task and `-=` in the other. Both
  sides check under the mutex, give it, and fall asleep afterwards. Right means:
  no update lost, no byte lost or repeated over wrap-around, no wake-up lost,
  never both asleep; altogether a byte pipe.
* **Player.** The decoder is started by the task that sleeps when the fifo is
  full; the decoder acts on a fill that is old. Right means: it is started,
  never runs short inside a read, sees an unbroken stream, and every write ends
  while the decoder goes on.
* **I2S.** The engine never waits. An interrupt takes buffers off the front of
  the queue the decoder takes them from, and the decoder holds one buffer
  outside of it. Right means: the queue is the ring behind the engine, samples
  are played in order by a decoder that keeps up, a decoder that does not can go
  on afterwards.
* **Framing.** The decoder has to find frames in a stream that may start or be cut
  anywhere, with bytes that look like headers; the buffer ends in the middle of
  frames and is refilled. Right means: a frame in its place is never missed, the
  decoder is never stuck, and it finds a stream again once that is clean.
* **Bit reservoir.** A frame's data begins in what earlier frames left free, and how
  much of that is kept depends on a look at a header that is not decoded yet. Right
  means: each frame is decoded from its own bytes, and those fit into `MainData`.
* **Speed control.** Error diffusion over single samples, fed by a correction that
  is summed up from the fill of the fifo. Right means: no sample is left out or
  repeated unpaid, the error settles, the fill of now decides the direction, and
  the divider that was computed is the one the port uses.
* **Dial and modes.** Integer division, limits stored in 16 bits, margins, and a
  result noted in one variable and selected in another by three tasks. Right
  means: noise does not switch channels, each channel can be selected, the end
  of the dial leads to the server, no restart loop, and a knob that comes to
  rest is obeyed.
* **Settings.** Erase, header first, then the records; errors are collected and
  the writing goes on; reading back overwrites memory. Power may go at any
  record. Right means: what was saved is loaded, a cut save leaves no mixture,
  the radio always starts.

`PROJECT.json` lists each hazard with its line and the properties that watch it.

## 2. Modules

| Module | Models | Extends | Proofs |
|---|---|---|---|
| `ByteFifo` | abstract: what the fifo promises, a bounded byte pipe | | |
| `SpiRamFifo` | the fifo, step by step | | `SpiRamFifoProofs` |
| `Player` | receive loop and refill loop on the two ends of the fifo | `SpiRamFifo` | `PlayerProofs` |
| `I2sDma` | engine, interrupt and `i2sPushSample` | | `I2sDmaProofs` |
| `MadStream` | how frames are found: buffer, synchronisation, refill | | `DecoderProofs` |
| `MadReservoir` | the bit reservoir; by itself what its frames may rely on | | `DecoderProofs` |
| `Decoder` | both together; implements `MadReservoir`'s specification | `MadStream`, `MadReservoir` | `DecoderProofs` |
| `SampleRate` | the result of the search for the dividers, a pure algorithm | | |
| `RateSearch` | the same search loop by loop | `SampleRate` | `RenderProofs` |
| `Render` | speed control and rate changes | `SampleRate` | `RenderProofs` |
| `Channel` | the dial | | `ChannelProofs` |
| `Radio` | start-up, channel changes, server loop, restarts | `Channel` | `RadioProofs` |
| `Settings` | requests, saves, loads, power losses | | `SettingsProofs` |
| `MC...` | each module instantiated for TLC by its `.cfg` files | | |

The variables carry the names of the code. A variable that is not in the code is
a place (`wpc`, `rpc`, `tpc`, `mpc`, `ppc`, `pc`, `spc`), a history variable
(marked as such: `sent`, `taken`, `late`, `chosenAt`, `saving`, `lastSave`,
`intact`, `owed`, `wentLow`, ...) or a
piece of the environment (`adc`, `dma`, `eof`). `PROJECT.json` maps each
definition to its lines.

**SpiRamFifo.** One action per stretch of code between two points at which the
other task can tell the difference. `WTake` takes the mutex, `WCopy` copies a
chunk and loads `fifoFill`, `WUpdate` stores the sum and gives the mutex,
`WSignal` gives `semCanRead`; `WFull` and `WWait` are the failed check and the
sleep. Load and store of the fill are separate steps, so that the mutex, and not
the model, makes `+=` atomic. The reader is the mirror image, with `RMark` for
the unlocked look at `fifoFill` before it sleeps. Bytes are numbered in the order
of arrival, and a byte's number is its value.

**Player.** `WriteFragment`, `ReadFifo` are the calls into `SpiRamFifo`, whose
steps then run in between all others. `StartCheck` is the test
`spiRamFifoFree() < spiRamFifoLen()/2`, after which the decoder is there
(`want`) or failed to come up (`dead`). `AskFill`, `Silence`, `ReadFifo`,
`ReadDone`, `Decode` are the loop of `input`; what MAD leaves over is any
number of bytes. If it is the whole buffer, as at a header whose frame is longer
than that, `input` has nothing to fetch and MAD gets the same bytes again: the
decoder goes round for ever and is `wedged`. (It then never gives up the processor
to the idle task; whether the SDK has a watchdog that notices is not in the
repository, and not modelled.)

**I2sDma.** `Dma` is the engine's move to the next descriptor, `SlcIsr` the
interrupt, `PushCall`, `PushPop`, `PushWrite` the steps of `i2sPushSample`
between which an interrupt can fall. `late` remembers that the engine came to a
buffer that was not refilled.

**MadStream.** The state is the part of `readBuf` from `next_frame` on, byte by byte;
a byte is the first of a frame, one inside it, junk, or one that looks like a
header. `Fetch...` take one byte from the fifo, `OutOfSight`, `LoseSync`,
`BadHeader`, `CutOff` and `TakeFrame` are the ways out of `mad_header_decode`.
`HeaderAt` is the loop back to `sync:`: the first place at which it stops.

**MadReservoir.** A byte of main data is its distance to the next frame's data, so
that the right bytes can be told from others of the same number. `LayerIII` is
`mad_layer_III` from the peek at the next header to the end; `Read` is what
`III_decode` is given. `RSpec` is the promise the reservoir rests on: the header
that was peeked at is that of the frame decoded next, or the frame counts as astray.

**Decoder.** Each `TakeFrame` is one call of `mad_layer_III` with the two cells the
framing gives it. That framing keeps the reservoir's promise is `ImplementsReservoir`.
A Layer I or II header calls a NULL pointer and restarts the chip (`Reboot`).

**SampleRate, RateSearch and Render.** `BestDividers` is the result of the three
nested loops of `i2sSetRate`, `RateSearch` goes through them pass by pass; that both
agree is proved and not run (15,498 passes for each rate, of which there are infinitely
many).
`StartBlock` is `render_sample_block` up to its loop with `recalcAddDelSamp`,
`Drop`, `Repeat`, `PushOnce` are one turn of the loop. Fills are arbitrary.

**Channel and Radio.** `Channel` has the dial alone, with the arithmetic of
`channel_read`. `Radio` adds the knob, which may turn at any moment, and who
reads it when: `Boot`, `Open` and `SetCount` read and select, `WrittenAndLook` and
`CheckKnob` read and compare. Between a netbuf and the next look at the knob lies
`spiRamFifoWrite` (place `write`), which may return (`Written`, `WrittenAndLook`) or
never: that depends on the decoder, and is `Player`'s matter. A `system_restart` is
`PowerUp`: all variables but the flash are back to zero. So is a header of Layer I or
II in the stream (`DecoderCrash`), once there is a decoder.

**Settings.** The flash is a row of records in the order `flash_writeConfig`
writes them, erased by `Save`, written one per `WriteRecord`. `Load` is
`flash_readConfig` with all of its ways out: it fills memory up to the first
record that cannot be read, decodes each text once more, ignores a refused
number of channels. A text is one of `plain`, `esc` (an escape that decodes
to a plain character), `escesc` (one that decodes to `esc`) and `long`
(512 characters or more, which `flash_read_string` refuses).

## 3. Runs

All bounds are CONSTANTS of the module or the `.cfg`.

| Run | Checks | Instance |
|---|---|---|
| `fifo` | `TypeOK RingHolds ReadInOrder NoLostWakeup NeverBothAsleep ImplementsByteFifo ReadReturns` | ring 5, chunks 4, calls of 1 to 5, 12 bytes, low mark inside the ring |
| `player` | `PTypeOK NoUnderrun DecodesStream DecoderFiresUp WritesEnd` | ring 6, chunks 2, netbufs of 1 to 3, decoder buffer 4, 10 bytes |
| `player_big_netbuf` | `DecoderFiresUp` is violated | netbufs of up to 5 |
| `i2s` | `TypeOK QueueIsRing LateExplains PlaysInOrder PushResumes` | 4 buffers of 2 samples, 11 samples |
| `decoder` | `TypeOK WedgeNeedsLongHeader OwnData AlignmentKept ImplementsReservoir CleanStreamPlays` | `readBuf` 6, guard 2, frames of 2 and 3, false headers of 1, 2 and 6, one odd byte at a time |
| `render` | `TypeOK ErrorSettles SpeedFollowsFill` | blocks of 3 samples, a sample is 5, a correction every 2 blocks; fifos of 6 and 12; the chip's dividers |
| `render_rates` | `DividersReachPort` is violated | the nine sample rates of MPEG audio |
| `channel` | `TypeOK Hysteresis EveryChannelSelectable MaxKnobIsServer DialEven` | the board's dial: 1024, margin 5; 1, 3, 7, 13, 36 channels; 0 and 100 refused |
| `radio` | `RTypeOK RestartOpensServer ServerRestartNeedsKnob KnobObeyed` | dial 14, margin 1; 1 and 3 channels; a look at every 2nd netbuf |
| `radio_hotspot` | `MaxOpensHotspot` is violated | as `radio` |
| `settings` | `TypeOK SavedIsLoaded AllOrNothing CrashNeedsCut ShownIsStored` | 11 records, 5 requests, 0, 2, 3 and 100 channels |
| `settings_cut` | `AlwaysStarts` is violated | as `settings` |

Why the bounds are enough:

* *fifo*: a ring that is not a multiple of the chunk, so that chunks are cut at
  its end; calls of several chunks; enough bytes for the indices to go round more
  than once. Chunks are longer than half the ring, where a deadlock would be
  possible if they were not cut (in the firmware it takes a much smaller ring or
  larger chunk than 1850 and 64 to get there). The low mark (`FIFO_LOWMARK`, 112K) lies
  inside the ring as in the build with the RAM chip (128K); `player` has it above the
  ring, as in the build without (1850 bytes), where a short read always sleeps.
* *player*: a decoder buffer that takes several reads, a stream longer than ring
  and buffer together, netbufs up to exactly half the ring, and beyond it in
  `player_big_netbuf`.
* *i2s*: the engine can lap the decoder and the decoder goes round the ring.
  Samples end at `MaxSamples`; the engine runs on for ever.
* *decoder*: frames of both sizes end before, at and behind the end of `readBuf` and of
  the guard. A false header comes too short for its side information, whole, and
  too long for the buffer; main data begins 0, 1 or 2 bytes back with frames that
  bring 0 or 1, so that a frame can end before its own first byte, where the
  reservoir keeps old bytes. There is one odd byte (`MaxOdd`) in the buffer at a
  time, but any number one after the other.
* *render*: an error of a fraction of a sample, corrections of less and of more than a
  sample per sample; fills below, at and above both targets. `AddDelCap` and
  `ErrCap` end a sum the code leaves without an end.
* *channel*: the real constants, since their quotients matter. Up to 36 channels
  the properties hold for every count. From 37 on a channel can be narrower than
  its margins together with the cut-down step, and `Hysteresis` and
  `EveryChannelSelectable` fail for many counts (37, 38, 40, 41, ...); that the end
  of the dial asks for the server (`MaxKnobIsServer`) is proved for all of 1 to 99.
* *radio*: the dial is short because every position is a state. Three channels on
  14 leave a rest at the end of the dial, as 1024 does for 3; `FirstCount`
  is in the flash at the first start.
* *settings*: the settings of two channels need 10 of 11 records, those of three
  need 13 and do not fit. Five requests are enough to change the count, set a
  link, save, change again and save again.

Deadlock is checked in every run but those of the fifo and the player, where the
network stops after `MaxStream` bytes and both tasks rightly sleep.

### Fairness

* *fifo, player*: weak fairness for each task as a whole. FreeRTOS runs the
  highest task that is ready; the reader has the higher priority but blocks on
  the network or on the full fifo, so the decoder gets on. Neither the network
  nor the callers owe anything: `RecvNetbuf`, `WriteCall`, `ReadCall` are not
  fair, except that a netbuf under way in `Player` is handed over. That the decoder
  came up, or does not come to a frame that wedges it, is not assumed: `WritesEnd`
  excepts both.
* *decoder*: the task runs whenever it can and the stream goes on (weak fairness of
  `Next` as a whole); which bytes come is left open. `CleanStreamPlays` asks only for
  streams that stay clean from some time on.
* *i2s*: the engine never stops, a pending interrupt is served, a task that is
  not blocked gets on. Nothing makes the decoder push.
* *radio*: weak fairness for the program's steps up to `spiRamFifoWrite`. For the
  environment: the WLAN gives an address, an attempt to connect ends, a stream server
  sends or closes, a client sends or closes (neither `netconn_recv` nor `recv` has a
  timeout, so the code cannot promise more), and not every answer fails to be
  written: `tskserver` looks at the knob only on its other paths, hence the strong
  fairness of `Serve /\ pc' = "check"`. There is no fairness for `Written` and
  `WrittenAndLook`, since a write can last for ever in three ways: a netbuf longer than
  the room left before there is a decoder (`player_big_netbuf`), a decoder that did
  not come up, a wedged one. `KnobObeyed` is about radios whose writes return
  (`WritesReturn`) and whose stream stops restarting the chip (`CrashesEnd`).

## 4. What the runs show

The fifo is a byte pipe under every interleaving, loses no wake-up and does not
deadlock. The receive loop and decoder work together for netbufs of at most half
the fifo. The queue of DMA buffers keeps its shape also when the engine laps the
decoder, and all trouble starts with a late buffer. A true frame in its place is
never missed, every frame whose data is there is decoded from it, and a clean
stream is always found again. Every sample left out or repeated is accounted for (proved,
`SamplesArePaid`). Up to 36 channels the dial
works as intended. The program's own restarts never come in a loop, the server restarts
only when the knob was turned, and a knob at rest is obeyed by a radio that neither
sleeps in `spiRamFifoWrite` for ever nor is restarted by its stream for ever. A save answered with OK is
what is loaded; only power lost during a save keeps the radio from starting.

Four runs show where the program departs from what its text says:

1. `player_big_netbuf`: a netbuf longer than the room left puts the reader task
   to sleep before there is a decoder (`user_main.c:201-214`); the fifo of the
   shipped build (1850 bytes) is not twice a TCP segment (1460 bytes). "The reader
   task will fire up the MP3 decoder as soon as it has read enough MP3 data"
   (`user_main.c:334-335`) does not hold then. `StrandedIsForever` says for every
   size of the fifo that a reader task asleep without a decoder never wakes. It does
   not look at the knob again either.
2. `radio_hotspot`: `tskreader`'s outer loop selects a channel without comparing
   it with the number of channels (`user_main.c:168-177`). A knob turned to the
   end while the radio connects leads to an endless attempt to reach a channel
   that does not exist, and no hotspot (`README.md:139-140`). `EndWithoutServer` proves
   that it lasts as long as the knob stays and what is left in the fifo does not
   restart the chip. `EndIsServerOrRetry` says what else can become of a knob at the
   end of the dial: the server, or a reader task that sleeps in `spiRamFifoWrite` for
   ever and never looks.
3. `settings_cut`: power lost between header and number of channels leaves a flash
   that loads "successfully" with no channel; `channel_read` then divides by zero
   at every start, and the defaults (`user_main.c:260`) are never taken. `CrashWindow`
   says that this happens at one place of a save and no other (password written, number
   of channels not), `CrashIsForever` that no restart gets out of it.
4. `render_rates`: `i2sSetRate` finds dividers up to 127
   (`i2s_freertos.c:242-243`), the register has 6 bits for each
   (`mp3/include/i2s_reg.h:6,8`). Of the nine rates of MPEG audio only 44100 and
   48000 Hz get dividers that fit; at 8000 Hz the port divides by 5 and 61 where 5 and
   125 were found. `WideFieldsReachPort` says that the width of the fields is the whole
   cause.

What the passing properties say only under a condition, because the code does
not do better:

* A decoder that is late with a buffer writes to it while it is sent
  (`i2s_freertos.c:291`), although the queue depth is said to prevent that (lines
  163-166): a popped buffer is in neither place. `LateExplains` says that nothing
  but lateness leads there.
* A text passes through the percent-decoder when it is set and at every load, so one
  with an escape of its own comes back decoded once more; `SavedIsLoaded` says so.
* A header whose frame is longer than `readBuf` wedges the decoder for ever
  (`frame.c:404`; MPEG-2.5 Layer II at 8 kHz and 128 kbit/s or more).
  "2106 bytes should be enough" (`mad_helper.c:34`) is right for Layer III;
  `WedgeNeedsLongHeader` says that nothing else does it. A reader task that then waits
  for room waits for ever, which `WritesEnd` and `SleeperIsWoken` except and
  `StrandedIsForever` says.
* A header of Layer I or II restarts the chip (`frame.c:57-63`); `CleanStreamPlays`
  and `KnobObeyed` start when the last of them has gone by.
* The first correction of the speed takes the fifo for empty (`minFifoFill` starts
  at 0), and corrections of a small fifo add up without a limit. A correction comes
  every 1500 blocks, which at 44.1 kHz is every 1.1 s, where the comment
  (`mad_helper.c:66`) says 100 ms.

## 5. Proofs

The theorems hold for every value of the constants that the modules' assumptions
allow. All but four are about safety. `PushIsResumed`, `KnobIsObeyed`,
`EndIsServerOrRetry` and `SleeperIsWoken` are about the specifications with their
fairness. The provers cannot evaluate ENABLED, so these four have the premise
`[]GuardsEnable`: where the guard of a step holds, that step is enabled. It restricts no
behaviour, since it says of each action only what can be read off it; TLC found it true
in every state of the models `i2s`, `radio` and `player`. Everything else about these
four is proved: which step is next at each place, that no other task undoes its guard,
and that the steps end where the property says.

* **SpiRamFifoProofs** assumes a ring and a chunk of at least one byte. None of the
  safety properties is inductive. `IInv` adds who holds the mutex at which place
  (`MutexInv`) and what a call's locals are worth there (`ChunkInv`: the loaded
  fill is still the fill, the chunk still fits); `WakeInv` is `NoLostWakeup`
  from the failed check on, since the wake-up can come between the check and the
  sleep. Each conjunct is preserved by a lemma of its own with one step per action;
  the copies in and out have their own lemmas about positions in the ring.
  `NeverBothAsleep` follows from `WakeInv`, `RingHolds` and the fact that a waiting
  chunk does not pass the end of the ring: if the written bytes run up to the end
  they are enough for the reader's chunk, otherwise the room does and is enough for
  the writer's. No relation between ring and chunk size is needed. Every
  step maps to a step of `ByteFifo` or to a stutter (`Refinement`).
* **PlayerProofs** shows first that each step of the player is a step of the fifo
  or invisible to it (`PlayerUsesFifo`), so `IInv` carries over. `Link` ties the
  tasks to their calls: the number read was seen in the fifo and nobody else
  takes bytes out. `BufInv` says that `readBuf` ends where `taken` does.
  `StartupIsSafe` has the additional assumption `MaxWrite <= SPIRAMSIZE \div 2`,
  and `player_big_netbuf` shows that it is needed. What becomes of a netbuf that does
  not fit is `StrandedIsForever`: with the reader task asleep, no token in its semaphore
  and no decoder, or a wedged one, every action's guard is false. With a decoder that
  goes on the task is woken (`SleeperIsWoken`): from each place of the decoder
  (`AtPlace`) its one enabled step leads one place further to the signal, or into the
  wedge from a full buffer, and only the receive loop itself could take
  the token away, which it does by waking.
* **I2sDmaProofs**: `QueueIsRing` is inductive with the types. `LateInv` covers the
  moment between the end of a buffer and its interrupt: if the buffer now being
  sent is still on the queue, the engine is late already. From both, an underrun or
  a write into the buffer being sent comes only after a late buffer. `OrderInv` says
  what the whole ring holds while nothing has been late: if the decoder has filled t
  buffers, the k-th one behind the present holds the samples of the (t-k)-th turn, or
  silence. A pop shifts every buffer by one place, a push fills one more place of the
  present one. The engine never goes on to a buffer still in the queue without being
  late, so it moves from one filled buffer to the next (`NextIsFilled`,
  `BufferFollows`), which is `PlaysInOrder`. `PushIsResumed`: the engine sends to the
  end of its buffer, the interrupt then puts that one on the queue, and only the
  decoder takes it off again.
* **ChannelProofs** assumes that a channel's part of the dial is wider than a
  margin and that the limits fit 16 bits (`StepAssumption`; on the board the narrowest
  part of 99 channels is 10, the margin 5). The provers know little of `\div`, so
  its facts come first, as lemmas about quotients (`DivFloor`, `DivAtLeast`) and
  about the dial (`StepFacts`, `PartBeyond`, `LimitBelow`): the end of the dial lies
  beyond every channel's upper limit, even after the limit was cut to 1024. Hence
  `EndIsServer` for every accepted number of channels, also those for which
  neighbouring channels no longer keep apart. `Hysteresis`, `EveryChannelSelectable`
  and `DialEven` are proved of every state whose number of channels is `Wide`: a channel
  is wider than both margins and than one margin together with what the whole steps
  leave over at the end of the dial; other numbers may be set before and afterwards.
  On the board that holds for every number of channels up to 36 and for eleven larger
  ones (`BoardDial`). The argument is about where the exact and the cut-down limit of
  a channel lie to each other (`StartBounds`, `Margins`, `PartEncloses`), since
  `channel_read` uses the one to leave a channel and the other to choose the next.
* **RadioProofs** adds to the types the invariant `Settled`: while the server is
  open the noted channel is the selected one and the knob, where it stood when
  the channel was selected, asks for just that channel. So a look at an unmoved
  knob sees no change (`ServerRestartNeedsKnob`), although new numbers of channels
  move every channel on the dial in between. `RestartOpensServer` rests on
  `BeyondFromStart`: what is beyond the last channel seen from any channel is so
  from the state after start-up too. `KnobIsObeyed` is one chain of places for each of
  the two lives, from wherever the radio is to the next look at the knob, and a last
  part in which a look changes nothing any more. That no write lasts for ever is a
  premise of it, in place of fairness. The looks are up to `KnobRate` netbufs
  apart; a chain of any length would need induction, so there is one link for each
  of the 20 netbufs of the code (`KnobRate <= 20`). `EndWithoutServer` and
  `EndIsServerOrRetry` are about the end of the dial. The latter has no premise about
  writes or crashes: a write that never ends is one of its three outcomes, and a radio
  that the stream restarts comes up as the server, where there is no decoder that could
  restart it again (`RestartServes`, `MadInv`).
* **SettingsProofs**: the invariant says what the flash is after each way a save can
  go (`Row`): always `Written(saving, v)`, what the first v records of the last save
  leave, with all of them unless the save was cut off. `LoadHeader` shows that a
  load learns the number of channels from the fourth record or not at all,
  `LoadWhole` that one that reads to the end found every text of the last save. All
  five properties of the run follow, for every flash of more than four records
  and any number of requests. `NoChannelFound` works out what a load makes of each
  `Written(saving, v)`: there is no channel after the third record and nowhere else,
  if name and password can be read (`CrashWindow`). Neither the start nor the crash
  writes to the flash, hence `CrashIsForever`.
* **RenderProofs**: `ErrorInv` follows the error through the loop: with n samples to go
  it is at most n + 1 samples, as long as no correction asked for more than a sample
  per sample, so that one is left at the end (`ErrorIsSettled`). `LowInv` ties
  `minFifoFill` to what this period has seen; the sign of the correction follows
  (`SpeedFollows`), for every period, target and gain. `LargeFifoSettles` is about the
  build with the RAM chip: a full or empty fifo asks for no more than a sample per sample
  there (`LargeFifo`: 65536 bytes times 1000 against 32 times 2^24), so `ErrorSettles`
  holds without its condition, the error stays within 33 times 2^24 and 32 bits, and
  `AddDelCap` and `ErrCap` cut nothing off. The shipped build has the small fifo, whose
  corrections add up without a limit. The search for dividers is written with `Min`,
  a CHOOSE: that it is defined is `NatMin`, from the well-foundedness of the numbers.
  `DividersAreClosest` says what a best setting is, `ClosestIsUnique` that there is one,
  and `SearchKeeps`, that the loops hold the best of the settings tried so far, is the
  loop invariant with which they end at it (`SearchFindsBest`). From there come the types
  of the registers (`RenderTypeCorrect`), `DividersAreSet` (the variables that
  `i2sSetRate` never initialises are set for every rate above 155 Hz) and
  `WideFieldsReachPort`.
* **DecoderProofs**, first of the reservoir alone: `RInv` says that the bytes at the end of `MainData` are those
  that have just gone by, as many as the next frame asks for and as have gone by since
  the last gap. One lemma per part of `mad_layer_III` says how many bytes it leaves
  and which (`UsedBytes`, `HeldBytes`, `KeptBytes`, `PreloadBytes`); `FrameKeeps`
  puts them together. From `RInv` each frame reads its own data
  (`FramesReadOwnData`), and the bytes of a frame fit into `MainData`, which the code
  asserts (`FrameFits`), also for frames that lie. Then of the way frames are found:
  `SInv` says that the cells in `readBuf` are `Chained`, so that a frame that follows
  another says no more than that one leaves room for; `LastChained` says the same of
  the frame the source will send next, which is what makes it inductive. Every action
  of `MadStream` either leaves the first cell alone when the decoder is `OnFrame`, or
  takes the frame (`SourceKeeps`, `SyncKeeps`, `TakeKeeps`, `OthersKeep`): that is
  `AlignmentKept`, and `WedgeNeedsLongHeader` comes with it. `PromiseKept` says that
  the header peeked at belongs to the frame now in its place. With it each step of
  `Decoder` is one of the reservoir or none (`ReservoirImplemented`), and the theorems
  about the reservoir hold in the whole decoder. `StreamAssumption` and
  `DecoderAssumption` are all that is assumed: frames and their guard fit into
  `readBuf`, and a frame that fits has no more main data than `MaxSpace`.

Only model-checked are four liveness properties. `ReadReturns`, `WritesEnd` and
`CleanStreamPlays` need an induction over a count (the bytes still to be moved, the odd
bytes in `readBuf`), which the provers cannot do; `DecoderFiresUp` needs one over the
netbufs until half the fifo is full. Of `WritesEnd` the step that could go wrong is
proved, the wake-up (`SleeperIsWoken`), and of `DecoderFiresUp` that nothing stands in
the way (`StartupIsSafe`).

## 6. Assumptions and limits

* An end-of-buffer interrupt is served before the next buffer has been sent; two
  that coalesce would lose a buffer (`i2s_freertos.c:83`).
* The flash driver reports no error. A text cut off while it is written reads
  like an erased one: no end within 512 characters.
* `malloc` and task creation succeed, except for the decoder's (`dead`).
* `copyFromUnicode` never initialises its index `d` (`channel.c:44`). The model takes 0,
  the only value for which the setters work at all.
* TCP delivers no empty netbuf; a request names a channel from 1 on.

* Streams of free bit rate are left out: their headers are as good as false ones, and
  their frames could be longer than `MaxSpace` allows.
* `skiplen` stays 0, since nothing calls `mad_stream_skip`.
* A stray frame is decoded with any begin: damaged side information may say anything.
* After an error that lets it go on `tskmad` calls `mad_synth_frame` once more with the
  frame it has (`mad_helper.c:223-226`); what is heard then is not modelled.
* Between two end-of-period corrections the fill is whatever the network makes it;
  underruns are not counted, since `NoUnderrun` shows that there are none.

Not modelled, and why:

* The arithmetic of libmad (`huffman.c`, `layer3.c` but for the reservoir, `synth.c`,
  `fixed.c`, `bit.c`, the tables): functions of one frame without a state that other
  parts share; what they compute is numbers of 28 bits, which TLC can not enumerate.
* `mp3/mad/mpg12/layer12.c` is not built: `decoder_table` holds NULL for its layers.
* The text of requests and pages (`webserver.c`): conversions without state; what they
  hand on is an input of `Settings` and `Radio`.
* Registers (UART, GPIO, SPI RAM, I2S set-up): single writes without control flow.
* The headers of the SDK, FreeRTOS and lwIP under `include`, `extra_include`, which
  make up most of the repository's lines: declarations of code that is only there as
  binary libraries. The modules contain what the firmware relies on of it, as
  environment. For that reason, and for the tables of libmad, the lines that the map
  names are a small part of the repository's, and two thirds of `mp3/user` and half of
  `i2s_freertos.c`.

## 7. Plan

Done, in the order of importance: fifo, player, I2S, dial, modes and settings, the
decoder's framing and reservoir, speed control and sample rates, with their proofs, and
the liveness that can be proved without induction.

What could follow: `Player` composed with `I2sDma`, a decoder that waits for the
engine while the network fills the fifo.
