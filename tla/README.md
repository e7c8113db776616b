# BoomRTX in TLA+

BoomRTX fires pyrotechnics by radio.  A **transmitter** (`mcu/tx/tx.ino`) with a
FIRE button, a target and a relay selector talks over a serial radio module to
**receivers** (`mcu/rx/rx.ino`), each with two relays; a desktop tool
(`tools/boomconfig`) configures either over USB and can fire too.  Both
firmwares are sets of AceRoutine coroutines around a byte-oriented framing
(`common/`).  What must not go wrong is plain: a relay may close only because
somebody fired at it, must open again whatever fails, the button must be
dead when nobody answers, and a device must keep the settings it has confirmed.

This directory models the framing, the link supervision, the relay's timer with
the loop that calls it, the fire chain they add up to, and the configuration of
the devices.  It checks them on small instances with TLC, and proves the safety
properties for all instances with TLAPS.

## 1. Inventory

| component | state | operations | hard parts | what makes it correct |
|---|---|---|---|---|
| frame format, CRC (`common/frame.h`, `crc16.cpp`) | none | `createXxxFrame`, `frameToBuffer`, `processBuffer` | sizes at the limit, 16-bit arithmetic | what is written is what the parser accepts |
| parser (`common/frameparser.h`) | state, frame, three offsets | `addByte`, `getFrame` | leftovers of dropped frames, resynchronising, indices from the line | only encodings are accepted, none invented, late or repeated; falls into step |
| ring (`common/circularbuffer__.h`) | array, head, tail, count | push, unshift, shift, pop, first, last, [], clear | independent wrap-arounds | a bounded deque |
| link quality (`common/linkquality.h`) | the last 40 events | `pushPing`, `pushPong`, `quality` | late answers, empty windows, stale windows | goes down in a silence, up when answered; is a share |
| relay trigger (`mcu/rx/trigger.h`, `relaytrigger.h`) | start, duration, state, pin | `trigger`, `tick` | clock wrap, firing again | a pulse of the duration asked for |
| scheduler (`mcu/common/AceRoutine`) | list of coroutines, status and delay of each | `setup`, `loop`, yield, delay | 16-bit delays of a 32-bit clock | every coroutine runs again within its delay and a round |
| receiver (`mcu/rx/rx.ino`) | triggers, parsers, id, channel, power, EEPROM | radio, tick and config coroutines | restarts, FIREs that are lost or held back, ticks that are not in step with time units, power cuts between two writes | dead man's switch; settings that are kept |
| transmitter (`mcu/tx/tx.ino`) | targets, selection, link and LED flags, window, parsers, EEPROM | five coroutines | interleaving of selection, answers and firing; stale flags | the gate of the button; the LED is right; the radio uses what is stored |
| radio and serial buffers | frames on the way | write, read, loss | loss, delay, full buffers | - |
| HC-12 driver (`mcu/common/HC12`) | set mode | AT commands, gated read and write | set mode that is not left, a radio that is told late | set mode is left, the radio follows |
| configuration tool (`tools/boomconfig`) | device id, what the fields show, the port | PING timer, `readData`, requests, what the user types | lost requests, answers of the device before | the screen shows what the device has |

The transmitter writes PING every 100 ms for the selected target; a receiver with
that id answers RX_PONG with its active relays.  Each PING and each PONG is an
event of the window; every 50 ms the quality is compared with 0.8 and sets
`__radioLinkOK`, which gates the button.  While the button is held, every scan
writes a FIRE of one second, so a relay stays on as long as FIREs arrive and
drops out on its own when they stop.  A PONG also drives the FIRE light and makes
the transmitter write one FIRE_ACK per relay.  Over USB the tool sends PINGs of its
own; a PONG with a new id makes it ask for the settings, and each setting that is
written goes to memory, to the EEPROM, back as an acknowledgement and, in the
transmitter, to the radio.

## 2. Modules

| module | models | how state and actions correspond |
|---|---|---|
| `Frame` | `frame.h` | a frame is a record with the whole payload array; `frameToBuffer` gives a byte sequence, empty where the function returns 0 |
| `CRC16` | `crc16.cpp` | the register is a number below 2^16; only runs on real bytes use it, elsewhere `Crc` is a parameter |
| `FrameParser` | `frameparser.h` | one action per `case` of `addByte`; scratch arrays are sequences whose length is the offset; `ret` is the value returned; `wire` is history |
| `Datagram` / `FrameLink` | what the framing promises / a sender, a faulty line and a parser | `NumberOf` maps the frames delivered to the numbers of the messages sent |
| `PingStream` | a parser that starts anywhere in the periodic PINGs | `position` is the place in the repeated bytes |
| `BoundedDeque` / `CircularBuffer` | the promise / the ring | pointers are distances from the array's beginning; `items` is the refinement mapping |
| `LinkQuality` | `linkquality.h` | the ring is the bounded sequence it was shown to be; a quality is the fraction of two counts; `silence` is history |
| `QualityReport` | the window with one receiver, and `OP_GET_RADIO_QUALITY` | `inFlight` counts unanswered PINGs that may still be answered |
| `Clock` | `millis()` | one number that wraps, and its differences |
| `Pulse` / `Trigger` | the promise / `trigger.h` and `relaytrigger.h` | unsigned subtraction; `age` and `sinceTick` are history |
| `Scheduler` | `CoroutineScheduler` and the delays of `Coroutine` | the list is a sequence of names, `current` is `mCurrent` as a position; a turn of a coroutine ends yielding or delaying |
| `ReceiverLoop` | the receiver's `loop()`: scheduler, relay and its three coroutines | one action per coroutine run, one for a look at a coroutine that is not due; implements `Trigger` |
| `Radio` | the air and the receive buffers, by frame | a write appends what fits; losing the front of a buffer at any time loses any frame; what goes to the receivers carries its `age` and is read or lost within `Latency` units |
| `Receiver`, `Transmitter` | the two sketches in the fire chain | one action per coroutine run, one per frame where the coroutine loops over what is available; pins that follow a flag are that flag; `held` is a frame that the parser keeps back for want of its end symbol (`HoldBack`, `StrayEnd`); `left` and `sinceTick` count time units of a pulse and of the tick; `sinceFire` and `belated` are history |
| `BoomRTX` | the whole fire chain | composes the two over `Radio`, with restarts and the passage of time |
| `ConfigLine` | the USB serial line | a sequence of frames in each direction, bounded by `LineFrames` |
| `HC12` | the driver of the transmitter's radio | `setMode`, and the three steps of a blocking call |
| `DeviceConfig` | `configRoutine` and `setup` of both sketches, as far as settings go | a SET is split at its writes (memory, EEPROM, answer, radio), for the power may fail between them; `said` is history |
| `ConfigTool` | `mainwindow.cpp` | `shown` is what the fields hold; one action per timer, slot or frame read |
| `ConfigRegister` / `ConfigSession` | the promise / tool, line and devices together | `Durable` (what the EEPROM holds, as `setup` would read it) is the register; `spoiled` is history: something was lost that the tool cannot know of |

`FrameLink` justifies that `Radio` and `ConfigLine` lose frames and never alter them,
and that a frame which is held back comes out unaltered or not at all;
`CircularBufferProofs` that `LinkQuality` uses a sequence; `ReceiverLoop` that `Trigger`
may count on its ticks and that every due coroutine of `BoomRTX` runs within a time unit.
`Receiver` does not repeat the milliseconds of `Trigger`: it counts the boundaries of time
units.  A FIRE of n units comes somewhere within a unit, so that the relay's time is over at
the n-th boundary at the earliest and surely after the next; a tick between the two may or
may not find it over (`Expiring`, `triggerTickRoutine`), and ticks are a delay and a round
apart, a little more than a unit.  That is the slack of `Pulse`, but by this argument and
not by a theorem (the unit is 50 ms, the tick's delay and the unit of a FIRE's
duration byte; its conversion to milliseconds and back is exact in the
32-bit floating point of the AVR for all 256 values).  The `MC...` modules give
the constants their values and nothing else.

`Transmitter` has the commands of `configRoutine` that bear on who is fired at
(TRIGGER_FIRE, the toggle, SELECT_TARGET, SET_TARGET_ID); `DeviceConfig` has PING
and the commands for id, channel, power and targets; `QualityReport` the one for
the quality.  The two views meet in the radio: a change of channel is, in the fire
chain, a radio that loses everything.

## 3. Runs

| run | question | bounds, and why they are enough |
|---|---|---|
| `parser` | Does any stream take an offset out of its array, or make the parser accept what no `frameToBuffer` wrote? | all streams over byte values 0..2: sizes 0, 1, 2 (empty, one byte, the whole array), start and end symbol as data; the checksum distinguishes order and length.  The history makes the state space finite, since `wire` is reset at each start |
| `ring` | Is the ring a bounded deque? | capacity 3, two values: both wraps, full, empty and one element, any mix of operations |
| `frame_link` | Can a wrong byte anywhere make a wrong, late or repeated frame?  Does a right line carry every frame unchanged (`RoundTrip`)? | the program's bytes and CRC; five frames of the radio protocol in a row, one fault at any place, five replacement bytes with both symbols.  One fault is what a CRC-16 is sure to find; with more the property is a matter of probability |
| `ping_stream` | Does a receiver that starts mid-stream fall into step? | 252 device ids, every starting byte |
| `ping_stream_second_start` | And for the other four ids? | violated |
| `trigger` | Does the loop tick in time, and is the relay a pulse of the right length over the wrap of both clocks? | clock of 32, delay clock of 16, delay 3, durations 0, 1, 7, at most one unit per coroutine run: a delay and a round of three runs (6) fit into 16, a duration and a gap into 32, as 50 ms and 12750 ms do into theirs; both clocks wrap many times |
| `quality_late` | Is the reported byte the share of answers when an answer may come late? | violated; window 10, since the wrapped value of a shorter one hardly differs from a good one |
| `fire_chain` | Dead man's switch, the button's gate, an honest FIRE light | one receiver, two slots of which one names nobody, one relay, window 3, one-frame buffers, FIREs of one unit and of none, `Latency` 0 (a frame is heard, lost or held back in the unit it is written in), every command of the host with a slot and a toggle value out of range: reselection, overflow, restart, late reports and held-back FIREs all occur.  A FIRE is history after 4 units (`Forgotten`), one more than the bound of `DeadMan` |
| `fire_chain_live` | Is every relay released, does the link come up, does the light follow? | one receiver, one relay, window 2, `Latency` 1, two-frame buffers that PINGs, FIREs and FIRE_ACKs share |
| `fire_chain_ack` | Do FIRE_ACKs stay off the air, as the comment says? | violated |
| `session` | Are confirmed settings kept, does the radio follow, is the screen right? | two devices of either type; id, channel and one slot (power is handled as the channel is); two frames each way (`LineFrames`), a PING only on an empty line (`PingFrames`: PINGs would otherwise fill it).  The set values are one out of range, one equal to the other device's id |
| `session_receiver` | Does a receiver that confirms a channel use it? | violated |

A window of 40, durations of 255 units, buffers of several frames, a relay that does not
exist and several receivers are out of TLC's reach in the fire chain with the host's
commands (the relay alone takes the run to six and a half million states); its safety
properties are proved for all of them.

What some of the properties do not say:

* `Fresh` counts frames, not time: a frame that waits for its end symbol comes out with the
  next frame at the latest, and if none comes it waits.  So a FIRE may close a relay long
  after it was written, when the transmitter dies or goes out of range in between and comes
  back.  No text of the repository promises otherwise; `DeadMan` makes the exception
  (`belated`) instead of a promise that the code does not keep.
* `CleanDelivery` is about lines without a fault; what a fault may do is `DatagramSpec`.
* `LinkComesUp` and `LightFollows` assume that a PING finds room in the receivers' buffers, as
  it does when they are read in time.  That FIRE_ACKs use that room for nothing is
  `fire_chain_ack`.
* `RegisterSpec`: `ConfigRegister` lets a value be written at any time, so that what it
  promises is that no answer names a value that is not durable by then.

### The four disagreements

* `ping_stream_second_start`: for the device ids 105, 110, 190 and 231 the PING holds
  a second 0xBE, and a receiver switched on at the wrong moment never answers.
* `quality_late`: the quality is not PONG_COUNT/PING_COUNT as a byte once an answer comes
  after its PING has left the window: it wraps.  With a window of ten the run reports
  126 of 255 for six PONGs and four PINGs of a link that lost nothing; with the firmware's 40,
  21 and 19 give 25.
* `fire_chain_ack`: the FIRE_ACKs "for the config interface" go to the radio.
* `session_receiver`: a receiver acknowledges "that we succesfully changed our radio
  channel" (`docs/frame.md`) although its build never tells its radio.

A fifth needs no run: `docs/frame.md:31` gives OP_PING an empty payload and the first test
of `tests/tests.cpp` expects a PING of seven bytes, while `createPingFrame` writes the target's
id as one byte of payload, which both firmwares read.

## 4. Time, fairness and assumptions

In `BoomRTX` time passes (`Elapse`) only when every coroutine of the transmitter whose delay
is over has run, no receiver's tick is two units old, and nothing the transmitter wrote has
been on its way for `Latency` units: it has been read, lost or held back.  For the receiver
`ReceiverLoop` derives the second from the scheduler: a delay that is over is seen
within one round of the list, and a round (a few bytes per coroutine, no blocking
call in the fire chain) is far shorter than 50 ms, so that ticks are more than one unit apart
and less than two.  The third is the time of a few frames of ten bytes at 9600 baud.  What
is held back may stay held back for ever, and answers of the receivers may take any time, so
late ones are covered (one that the transmitter's parser holds back is one that waits in
`toTransmitter`).  A device whose coroutines hang is not modelled, one that restarts is.
`MaxRun` of `ReceiverLoop` assumes the same: that no run of a coroutine blocks for long.  A
`Serial.write` of `configRoutine` to a host that does not read could; the receivers in the
field have no host.

A command to the transmitter's radio is the exception: `setChannel` stops the loop for
more than half a second.  `BoomRTX` does not have this pause, and it would be wrong to
add one to it: there the order of the coroutines is open, so that two PINGs could follow
each other without a check of the quality, while in the list (check of the quality,
switches, configuration, PING, radio) the loop goes on with one PING and the check is
due before the switches are read.  For the receivers the pause is a time without frames,
which is there; what set mode does to the radio is the subject of `ConfigSession`.

`Fairness` of the fire chain is weak for each periodic coroutine and each reader (the
scheduler calls every coroutine again and again), and says that time units pass without end:
neither a held button, nor devices that restart, can go on for ever within one unit.  That is
a statement about clocks, not about the code, and stronger than fairness of `Elapse` would
be: a device that restarts before its coroutines have run keeps `Elapse` disabled, and must not
stop time by it.  In `ReceiverLoop` only `loop` and time
go on: sooner or later `main()` calls the one, and the clock runs.  In `ConfigSession` the
device's loop, the tool's PING timer and the delivery of serial data go on.  Pressing,
selecting, typing, commands, losses, restarts and power cuts are never forced.
`LinkComesUp`, `LightFollows` and `Settles` are conditional: they speak of behaviours in
which from some time on no frame is lost or late and nobody restarts, plugs or selects
(and, for the light, fires).

`Trigger` assumes that `tick` is called at least every `TickGap` units and that a
duration and a gap fit into the clock (`TimeAssumption`); `ReceiverLoop` shows the first
for `TickGap` = a delay and a round, if a delay and a round fit into the 16-bit clock
(`LoopAssumption`).  The floating-point quotient and its comparisons were compared with the exact
fractions for all counts up to 40 outside this project, and agree.

## 5. Proofs

All of the following hold for every value of the constants that satisfies the
named assumptions of the modules, and are checked by TLAPS to the last leaf.

* **Parser** (`FrameParserProofs`): `IInv` adds `WireShape` to the two properties:
  per state, which fields `wire` holds, and that `buffer` is what the checksum
  covers (`Received`).  `OnlyEncodings` is not inductive, because when the end
  symbol arrives it depends on everything since the start symbol.  `TypeCorrect`
  gives that no offset leaves its array for any size byte.
* **Sender, line and parser** (`FrameLinkProofs`): `RoundTripHolds` says that
  `frameToBuffer` and `addByte` are inverse to each other over a line without a fault, for
  every list of frames that fit, payloads with start and end symbols included.  `OnTrack`
  is what makes it inductive: a parser inside a frame has read a prefix of the encoding of
  the frame sent last and the line holds the rest (`Split`); between frames the line is
  empty or holds one whole encoding.  With the parser's `IInv` each byte is then the one
  its state expects (`Within`, `Parsed`, `Layout`): the checksum is right, the end is where it
  is looked for, and the frame delivered is the message (`AllDelivered`).  The proof asks of
  the checksum no more than that it is two bytes (`LinkAssumption`), so it says nothing about
  what a CRC detects, only that a right frame is never refused.
* **Ring** (`CircularBufferProofs`): types and `PointersAgree` are inductive together.
  `ImplementsDeque` maps every operation to the deque's; the work is in the places
  `(head + i) % S`, which `Linear` and `LinearNext` turn into arithmetic without
  division.
* **Trigger** (first part of `ReceiverLoopProofs`): `IInv` has that the pin shows the state, that the
  unsigned difference of two readings is the real age, and that the age at the last
  tick was below the duration.  From it follows the refinement `ImplementsPulse`, which has
  the lower and the upper bound of a pulse.
* **The receiver's loop** (`ReceiverLoopProofs`): how long ago the relays were ticked is
  bounded by how far the scheduler has got in its list since (`GapBound`), on top of
  `DelayTracksTick`, that the wrapped 16-bit difference is the real time.  So every step maps to a step of `Trigger` or a stutter
  (`LoopImplementsTrigger`), and by `ImplementsPulse` the pin of a relay is a pulse
  (`LoopImplementsPulse`).
* **Link quality** (`LinkQualityProofs`): the newest events of the window are the
  PINGs of the silence (`SilentTail`), so the PONGs are at most what is left, and
  five ninths of the window is where four fifths of the PINGs exceed them
  (`SilenceCounts`).  `QualityReportProofs` and `BoomRTXProofs` use it for their
  specifications.
* **Fire chain** (`BoomRTXProofs`):
  * `TypeCorrect`, and `SilentLinkDown` for the window in it.
  * `DeadManHolds`: a relay that is on was fired at, and if that FIRE was not held back then
    at most `Latency + MaxDuration + 2` units ago, which TLC finds attained.  `DeadMan` is not
    inductive.  The history must hold a FIRE that is as young as one that waits at a
    receiver (`FiresFresh`), some FIRE for one that is held back (`HeldKnown`) and for each
    relay that is on (`KnownOn`); and the units that are left of such a relay and the age of
    its last FIRE must not add up to more than the latency, the longest duration and one, or,
    with none left, the age must not be more than the tick's (`Counted`).
  * `LinkGateHolds`.  The flag lags behind the window by at most one PING, since the
    quality is checked between two of them (`Gate`); a silence of 5/9 of the window
    and one PING more therefore finds the flag down.
  * `LightHonest`.  What a report on its way says of a relay follows from the dead
    man's invariant when it is written (`ReportsKnown`) and stays true, since the
    history of a relay never goes back to never fired at.  So the light goes on only for
    a device and relay that exist and were fired at.
* **Configuration** (`ConfigSessionProofs`): `RadioFollows` speaks of idle transmitters
  only.  Its strengthening says, while a handler or `setup` is under way, which setting may
  still differ: memory is legal (`Sanitized`); the EEPROM agrees with memory but for the
  setting that is still to be stored (`Stored`); the radio but for those it is still to be
  told (`RadioKnows`); what is handled has something left to do (`Handling`); and set mode is
  on only during a call (`SetModeShown`).  From it follow `RadioFollowsHolds`, and
  `ImplementsRegister`: an answer is given only when `Stored` has no exception left.

  `ScreenTrueHolds`.  `ScreenTrue` speaks of a quiet line only; its strengthening
  `ScreenInv` follows every request and answer on the way.  A port that is closed has nothing
  in its buffers (`PortClosed`); every PONG tells the type of the device that is plugged in
  (`PongsTyped`), the tool shows that type (`TypeShown`), and the id
  in its field is the one it last heard of, or what the device will end with once the ids
  that were typed have arrived (`IdShown`).  Unless something was lost unseen (`spoiled`),
  each setting is still asked for or being handled (`Asked`), or what is shown, after the
  acknowledgements on the way, ends with the value in memory (`AnswersComing`).  The lemmas
  on `Of`, `Last` and `Ends` say what appending, delivering and losing a frame does to the
  last frame of a kind in a queue.

Only model-checked: everything about liveness (`Synchronises`, `CleanDelivery`,
both `Released`, `LinkComesUp`, `LightFollows`, `Settles`), which is out of the prover's
reach; and `DatagramSpec` and `Fresh`, which rest on what a CRC detects: they are false for
some checksums, and for the program's they depend on the very bytes of the frames.

The assumptions on constants are those the code justifies: sizes and capacities are
positive, the clocks hold a duration and a round, frames fit their array and the sender's
buffer, settings are those of the firmware (`LineAssumption`: a transmitter has two slots).

## 6. Not modelled

Listed with reasons in `PROJECT.json`.  Out of scope for good:

* the tool's widgets; its link quality, which hides a panel and starts the timer of the
  quality requests; the texts of its fields (the channel is shown and read in base 16);
* `tools/boomconfig/qdarkstyle`, the vendored Qt style sheet.  Its eight Python files are
  the only Python in the repository: compiled image resources and the functions that load
  them.  The tool is C++ and calls none of them, and there is no logic of BoomRTX in them;
* AES, Arduino-Scheduler, SCoop, `ledtrigger.h` and `commcontroller.h`, which the
  firmwares do not use, and the tests (read as a reference);
* AceRoutine's `suspend`, `resume`, ending coroutines, `COROUTINE_AWAIT` and long delays:
  neither firmware has them.  The transmitter's loop is the same scheduler with another
  list, and is not composed a second time;
* an EEPROM byte that is torn by a power cut while it is written;
* the bytes that the configuration tool's parser keeps over a reconnect;
* an HC-12 that refuses an AT command: the driver throws its answer away, so that nothing in
  the code could depend on it;
* LEDs and the blinking of an activity light, where no flag depends on them.

## 7. What could come next

The transmitter's list in `Scheduler` with the pause of a radio command, which would
replace the argument of section 4; a refinement in place of the argument that `Receiver`'s
counts are those of `Pulse` in units; and
`DatagramSpec` from a stated property of the checksum (that it tells any two bodies apart
that differ by one fault).
