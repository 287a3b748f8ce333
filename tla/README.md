# Smallsat avionics: TLA+ models, model checks and proofs

This directory holds TLA+ specifications of the flight software and of the
links around it, the TLC configurations that check them on small instances, and
TLAPS proofs of the properties that hold for every value of the constants.
Paths below are relative to the repository root.

## 1. The system

A desk-scale satellite: a flight computer (STM32, FreeRTOS) running the
application in `fsw/`, a reaction-wheel node behind a serial line (`esc/`), a
ground station with two radios (`gsw/`) and a ground session in Python
(`tools/ground/`).

| part | state it keeps | operations | interacts with |
|---|---|---|---|
| Executive, `fsw/src/executive.cpp` | boot, detumble-done and detumble-enter counters, the mode to resume, `last_mode_`, pulse deadline, wheel estimate | `cycle(t, inputs)` every 100 ms | calls every manager below; hands torque, capture and payload calls to `platform` |
| Mode manager, `fsw/src/mode_manager.cpp` | current mode | `request(mode, trigger)` against one of three allow-lists | called by the executive only |
| Fault manager, `fsw/src/fault_manager.cpp` | active latches, bad-sample streaks, inhibits | `update`, `clear`, `should_enter_safe`, `response_active` | fed by sensor monitor and link timer |
| Command handler, `fsw/src/comms/command_handler.cpp` | last sequence number and verdict, time of last command | `handle`, `link_lost` | fed by the uplink queue |
| Attitude control, `fsw/src/attitude_control.cpp` | heading estimate, target, integrator | `point`, `detumble`, `enter_pointing`, `set_target` | called by the executive |
| Sensor monitor, `fsw/src/sensor_monitor.cpp` | last counter and time per source | `evaluate_*` | reads the sensor snapshot |
| Uplink task, `obc/Src/freertos/uplink_task.cpp` | decoder, command queue of 8 | radio poll, route, `take` | control task; downlink task for chunk requests |
| Control task, `obc/Src/freertos/control_task.cpp` | calibration, period | one executive cycle per 100 ms | everything |
| Downlink task, `obc/Src/freertos/downlink_task.cpp` | image id, next chunk, repair queue of 96 | serve repairs, stream the next chunk | camera FIFO, radio, ground assembler |
| Camera, `obc/Src/devices/ov2640.c` | idle / capturing / ready / failed, frame length, read position | start, poll, read, rewind | control task starts it, downlink task drains it |
| Telemetry task, `obc/Src/freertos/telemetry_task.cpp` | two byte buffers, radio queue of 3, poll byte, drop count | enqueue, drain, transmit, poll, report drops | control, health and downlink tasks, radio |
| Health task, `obc/Src/freertos/health_task.cpp`, `obc/Src/drivers/iwdg.c`, `reset.c` | last check-in per task, reset cause | judge, pet or withhold | hardware watchdog |
| Sensor task, `obc/Src/freertos/sensor_task.cpp`, and its drivers | which devices answered at init, i2c control register, queue of one | read three devices, overwrite the sample | control task |
| Wheel node, `esc/src/main.cpp` | torque, time of last command, serial buffer | align, apply, dead-man stop, report | serial line to the control task |
| LoRa driver, `obc/Src/devices/rfm95.c`; nRF24 driver, `obc/Src/devices/nrf24.c` | chip mode and flags; transmit FIFO of 3 | send, receive; cut a frame into packets | telemetry, uplink and downlink tasks |
| Ground station, `gsw/src/main.cpp`, `gsw/src/radios.cpp` | one parser per radio | poll both radios, forward to USB, send commands up | both radios, ground session |
| Frame codec, `common/protocol/frame.cpp`, `tools/ground/frames.py` | decoder state | encode, decode a byte | every link |
| Ground session, `tools/ground/session.py` | sequence counter, outstanding commands, macros | command, retry, acknowledge, fetch image, shoot, survey, recover, sweep | USB |
| Image assembler, `tools/ground/payload.py` | chunks per image id | push, pending | ground session |

`PROJECT.json` lists the parts left aside (register-level code, drawing, test
harness) with the reason.

### What is hard

* **Order inside a cycle.** Faults are answered before the ground command is
  dispatched, but the command was validated in the mode before that. Up to five
  mode requests can happen in one cycle.
* **Counters that outlive what they count.** The boot check, the two detumble
  counts, the debounce streaks and the pulse are reset by conditions on the
  mode as seen at some point of the cycle.
* **Lost, repeated and late commands.** The ground retries; the vehicle
  recognises only the last number.
* **A frame replaced under its reader.** The control task starts captures; the
  downlink task is in the middle of an image.
* **Silence.** A vehicle nobody talks to must end safed, and a recovery mode
  must end.
* **Who judges whom.** The health task judges the tasks, the watchdog the health
  task, the wheel node the vehicle and the vehicle the wheel node, each by a
  timer started at its own restart.
* **Half of something.** A frame cut by a full FIFO, a sample of which one
  register was read, a half-duplex chip in the middle of a transmit, a transfer
  that timed out with a flag left standing.
* **Late telemetry.** The macros of the ground act on what was true when a frame
  was sent.

### What makes each part correct

* Executive: a Critical fault means SAFE; SAFE is left by the ground alone; a
  disqualified mode is given up; accepted commands take effect; torque does not
  stand; recovery modes end.
* Fault manager: a latch is earned by a full debounce and kept until cleared.
* Command handler: a retransmission is answered and not run.
* Downlink, camera, assembler: the ground joins no chunks of two frames, but where a
  capture or a reset comes between an image and its end; a gap is eventually filled.
* Ground session and uplink: a command runs at most once unless the vehicle is reset
  between its tries, its answer belongs to it, and a retry does not undo a later command.
* Telemetry: a frame accepted for the radio leaves, once and in order; no drop is
  silent.
* Radios and codec: what comes out was sent, whole, once and in order; a loss costs
  a bounded number of bytes; the vehicle is deaf only while it transmits.
* Health, watchdog and wheel node: a stuck task is noticed, a healthy vehicle is not
  reset, a wheel without commands stops, a live wheel node is not condemned.
* Sensors: a fault names what failed; a dull sensor is noticed; the bias is
  stillness.
* Macros: what the session reports happened.

## 2. Modules

| module | models | uses |
|---|---|---|
| `ModeManager` | modes, triggers, the three allow-lists, `Request` | |
| `FaultManager` | fault table, `CountStreaks`, `Latch`, `ResponseActive`, `ShouldEnterSafe` | ModeManager |
| `CommandHandler` | command table, `Validate`, `IsDuplicate`, `LinkLost` | FaultManager |
| `Executive` | the control cycle: the state machine | CommandHandler |
| `VehicleModes` | abstract contract: a mode, the mode to come home to, what the ground orders | ModeManager |
| `ExecutiveProofs` | theorems about `Executive` | Executive, TLAPS |
| `MCExecutive` | fault tables, environments and constants for TLC | Executive |
| `Camera` | the camera and its one-frame FIFO | |
| `Assembler` | the ground's image assembler | |
| `Downlink` | the downlink task between the two, with the request loop | Camera, Assembler |
| `ImageTransfer` | abstract contract: saved images are pictures that were taken | |
| `DownlinkProofs` | theorems about `Downlink` and its contract | Downlink, TLAPS |
| `CommandLink` | ground session, keepalive, both directions of the radio, command queue | CommandHandler (instance) |
| `CommandService` | abstract contract: calls are performed in order, each at most once between two resets | |
| `CommandLinkProofs` | theorem about `CommandLink`: a running console holds the link | CommandLink, TLAPS |
| `FrameCodec` | the frame's layout and its decoder, byte by byte | |
| `Packets` | the payload radio end to end: FIFO, air, ground station, USB, console | FrameCodec |
| `LoraLink` | the half-duplex radio: both drivers and the loops that call them | |
| `LoraLinkProofs` | theorems about `LoraLink` | LoraLink, TLAPS |
| `SpiBus` | the bus of the camera and the two radios: its lock, its chip selects, six tasks that preempt each other | Camera |
| `SpiBusProofs` | theorems about `SpiBus` | SpiBus, TLAPS |
| `Telemetry` | both wire buffers, the radio's queue, the poll gate and their writers | |
| `TelemetryProofs` | theorems about `Telemetry` | Telemetry, TLAPS |
| `Mission` | the macros of the ground session against a vehicle | ModeManager, CommandHandler (instance) |
| `WheelNode` | the node: alignment, commands, dead-man, reports | |
| `Vigil` | check-ins, health report, watchdog, resets, wheel link | WheelNode |
| `VigilProofs` | theorems about `Vigil` | Vigil, TLAPS |
| `MCVigil` | times for TLC | Vigil |
| `SensorMonitor` | the detectors of the imu, power and temperature | FaultManager |
| `I2cBus` | one transfer and the control register it leaves | |
| `Sensing` | sensor task, i2c bus, monitor, faults, gyro bias | SensorMonitor, I2cBus |
| `SensingProofs` | theorems about `Sensing` | Sensing, TLAPS |
| `MCSensing` | the fault table's rows and rates for TLC | Sensing |

Operators whose comment begins with "Mutant:" are wrong variants of the
definition that follows them. They are used nowhere; replacing the definition
by one shows that a property notices the difference (`PROJECT.json`, `mutants`).

### Executive

One action, `Cycle(in)`, is one call of `Executive::cycle`. It runs to completion
in one task, so it is atomic; the interleaving is in the input, chosen freely
from `Environment` in every cycle: one sample per fault (`good`, `bad` or not
offered), at most one uplink command, the class of body rate, what the wheel
reports, the time since the last cycle.

| variable | code |
|---|---|
| `mode` | `mm_.current_` |
| `active`, `streak` | `fm_.active_`, `fm_.streak_` |
| `prev` | `ch_.last_seq_`, `last_event_`, `have_last_seq_` |
| `silence` | `t_ms - ch_.last_command_ms_`, capped one above the timeout |
| `bootCycles`, `doneCycles`, `enterCycles` | `boot_cycles_`, `detumble_done_cycles_`, `detumble_enter_cycles_` |
| `resumeMode`, `resumeValid`, `lastMode` | `resume_mode_`, `resume_valid_`, `last_mode_` |
| `target` | whether `ac_.target_` was never set, captured at entry or named by the ground |
| `pulse` | `pulse_until_ms_ - t_ms` |
| `out` | the answer of this cycle and what was handed to `platform` |

The chain `SafeEntry`, `BootExit`, `Retreat`, `now`, `after` is `mm_.mode()` at
successive points of the function. The detectors of the sensor monitor are not
computed: their samples are inputs, so whatever a detector can report is
covered. Rates are classes (`quiet`, `drift`, `fast`, or `none` without a valid
gyro sample), torque is the law that produced it. Telemetry and logs change
nothing that is read back and are left out.

### VehicleModes

The contract a flight operator reads: a vehicle has a `mode` and a `home` mode,
and the ground may `order` one. `Safe`, `GroundMode`, `Interrupt` (start an
autonomous detumble, remembering home), `Recover` (come home), `Idle` and `Stay`
are its only steps, and only `GroundMode` follows an order. `Executive`
implements it under `home <- Home, order <- Order`; one cycle with safing,
retreat, dispatch and recovery inside is one abstract step.

### Camera, Assembler, Downlink

`Camera` has one action per operation of `ov2640.c` that holds the camera's
mutex. Lengths are counted in chunks. A frame is known by the boot and the
capture it came from, which stands for its pixels, so that mixing two frames is
visible. `Assembler` is `payload.py`; `saved` is the history of its results.

`Downlink` is fine-grained: the task and the control task share `s_active`, the
camera and the request queue without a common lock, so every read of shared
state in the task's loop is a step of its own, and `pc` says which is next:

| `pc` | next read, in `downlink_task.cpp` |
|---|---|
| `top` | `s_active` and room in the buffers, loop head |
| `ready`, `fresh`, `measure`, `fix` | `ov2640_frame_ready`, `ov2640_capture_count`, `ov2640_frame_bytes`, `ov2640_capture_count` again, in `send_chunk` |
| `read` | `ov2640_read_chunk`, then the emission |
| `drain`, `serve` | the request queue, `ov2640_rewind` |
| `sweep`, `skim`, `wait` | the sweep's guard, its read, its wait for room |
| `rest` | the status frame |

`imageId`, `chunk`, `chunks`, `total`, `seen`, `reqBits`, `reqCount`, `reqQueue`
are the statics of that file under their names, `idx` and `held` the locals of
`serve_requests`. A chunk is sent and heard or lost in one step: the air orders
nothing else. The control task appears as `SetActive`, `Capture` and `Poll`; a
power cycle as `Reboot`. A request travels from the ground's `pending()` to
`s_req_queue` in one step, or is lost; whether the ground may ask (`idleHeard`)
is the last idle report it heard and forgets at any time.

`Captures` says what the operator does, because the code allows a capture in
STANDBY, POINTING and DOWNLINK alike: at `any` moment; while `parked` outside
DOWNLINK; or when everything is `settled`. `ImageTransfer` as a whole needs the last.
What holds of every capture is `SavedSound`: an image is saved once, and whole unless it
is in the history `spoilt`. `Capture` puts the image on the air and the next one there
when something of the first is still to be sent or asked for (`Unfinished`), and `Reboot`
puts there the ids the ground has open. Without any one of the disjuncts of `Unfinished`,
or either of the two ids, or the reset, TLC finds a mixed image that is not in `spoilt`.

### CommandLink

| variable | code |
|---|---|
| `seq`, `outstanding` | `GroundSession.seq`, `.outstanding` (call, tries, ticks until due) |
| `quiet` | time since `last_tx` in `uart_monitor.py` |
| `air`, `acks` | frames under way in each direction, in order |
| `queue` | `s_queue` of `uplink_task.cpp` |
| `prev`, `silence` | `last_seq_`, `last_event_`, `last_command_ms_` |
| `called`, `performed`, `told` | what the operator sent, what acted, what he was told (history) |
| `missed` | command frames lost since one was handled (history) |

Time is a tick of 0.7 s (`RETRY_AFTER_S`). `Tick` does not pass while a retry or
keepalive is due, since the reader thread comes round every 0.1 s, nor over a
message from the tick before the last: a frame is on the air for 57 ms, and the
control task takes a command every 100 ms. Repeats are recognised by
`CommandHandler`'s own `IsDuplicate`, through an instance. `Reset` may come at any
moment. The constant `Patient` says whether the operator waits for an answer before
the next command, closes the console with nothing outstanding, and opens the next one
only when the vehicle has forgotten the last number; nothing in the session makes him,
and section 5 says what happens when he does not.

### FrameCodec, Packets

`FrameDecode` is one call of the byte decoder, state for state. A byte is its
value where the decoder compares it and otherwise its place in the frame it came
from, so the checksum is ideal: it matches exactly when the bytes are those of
one frame. A *lookalike* is a picture whose bytes contain a sync pair and an id,
after which any byte passes for a length (`fake`), and whose last byte equals the
first sync byte. The radios' parsers reject a length above `kFrameMaxPayload`; the
console's decoder (`frames.py:78`) believes it and swallows as many bytes, several
whole frames among them.

| variable of `Packets` | code |
|---|---|
| `txFifo`, `rxFifo` | the FIFOs of the two nRF24 chips, three packets each |
| `parser` | `link_t.parser` in `gsw/src/main.cpp`, one per radio |
| `forwarded` | frames written to USB |
| `open`, `skip`, `console` | the session's port, the bytes it missed, its `FrameDecoder` |
| `last`, `calm`, `dropped`, `hush`, `missed` | what undisturbed frames were owed and not given (history) |

`NrfSend` is `nrf24_send` of one frame with the packets a full FIFO refuses;
`NrfPoll` takes one packet, runs its bytes through the parser and forwards whole
frames in the same step, as the station's loop does. `LoraPoll` stands for a
heartbeat on the other radio.

### LoraLink

A chip is its mode, the frame it sends, whether the other end heard the start of
it, the packet not yet read and the done flag. `tele` and `uplink` are the two
tasks of the vehicle that share the driver, with the test of `tx_busy` and the
read of the chip as two steps because the bus is taken between them; `station` is
the place in the ground station's loop. A transmit may never be reported done, a
packet may be lost, the computer may be reset without its radio. Frames carry
numbers, so a frame read twice or out of order shows.

### SpiBus

The same driver calls as in `Camera`, taken apart. A call takes `spi3_bus.mutex`
(`owner`), makes the transfers of its `Script`, each between the assertion of a chip
select and its release, and gives the lock back; `at` says where in its call each of
the six tasks is, and bring-up, which runs before the scheduler, is a seventh that
takes no lock. The scheduler is the code's: fixed priorities, preemption at every
step, no time slicing, and a mutex whose holder runs at the priority of its highest
waiter (`Outranks`). `fifo` is where the camera's read pointer really is: every byte
on the bus clocks it along while a burst is open (`Clocked`). The sensors' i2c bus is
there as `Wire`, because the camera's registers are behind it and it has no lock.

### Telemetry

A buffer is its fill, a beacon its number. `SetOut` and the functions over `Out`
let one control cycle, which nobody preempts, write all its frames in one step;
the health report and the image downlink are preempted between any two of their
calls, so each of their calls is a step, and the poll byte's compare and clear are
two. The telemetry task's loop is `tele.at`. `ticks` counts what the wire took
since the last control cycle: the 115200-baud line carries about nine pieces of
the drain in a cycle.

### Mission

`ground` is the `GroundSession`: the last heartbeat and attitude frame, the
commands in flight, and the state of each macro. Each macro's `_service` is one
function, called by the tick and once by the macro's start; the frame handler only
notes what a frame says. The vehicle is what the session can see of it, and its band
flag, peak and target are the executive's: the flag is published in every mode and
follows the heading (`fsw/src/executive.cpp:321`), the peak is that of any turn since
the last pulse, and a bearing once named outlives mode changes
(`fsw/src/attitude_control.cpp:86`). Commands are validated by `CommandHandler`'s own
`Validate`. `down` holds telemetry under way, so a frame about the old target can
arrive after the new command. `seen` records what the vehicle really did since a macro
began to wait for it.

The session believes the frame that came last. Each conjunct of `MacrosHonest` names
the condition under which that is enough, and section 5 says what happens otherwise:
no older picture still to come (`clear`), no side that takes the vehicle to be already
where the macro will put it (`fresh`), a bearing nobody has named (`novel`), a frame
sent after the pulse it is to judge.

### WheelNode, Vigil

A tick is one control cycle, and in it the tasks run in the order of their
priority, `stage` being who is next: control, health, the others, the wheel node.
`HealthPreempted` is the report in which the control task checks in between the
health task's reading of the clock and its reading of the check-ins. `dog` counts
to the watchdog's period at the fastest its oscillator runs. `csr` are the reset
flags in `RCC_CSR`, which accumulate; a hard fault, a brownout, a power-up and the reset
pin each set the flags the chip sets, and `reset.c`'s order of tests picks the cause. `wheel` is `evaluate_wheel` and the
debounce behind it. A torque is zero or not, and commanded in any cycle: test pulses and
the momentum dump of STANDBY turn the wheel with its dropout latched too
(`fsw/src/executive.cpp:221`, `:253`).

### I2cBus, SensorMonitor, Sensing

`Transfer` is one call of the i2c driver: the status, and whether STOP and POS are
left standing in the control register. `CutInto` is a call of the sensor task that the
control task preempts to write a register of the camera over the same bus, which has no
lock: before START, in the middle, or after STOP (`Cut`). `SensorPass` is one pass of the
sensor task with its four reads, of which one at most is cut; `CycleWith` and
`CycleWithout` are a control cycle that finds a sample or none, with the monitor, the
fault manager's own `CountStreaks` and `Latch`, and the learning of the bias. Parts break
and mend at any time; `broken` says which, `failed` which ever did. The part `camera`
is "broken" while captures keep changing their size and so write its registers. The
history `truth` counts the samples in a row that a cut cost (`cuts`), and notes for which
faults they filled a debounce (`spoilt`).

## 3. Runs

| run | shows | properties |
|---|---|---|
| `exec` | sensor reports, link silence, body rates, mode, clear, heading and pulse commands in every order | `CriticalMeansSafe`, `PulseBounded`, `PointsAtChosenBearing`, `SafeLeftByGround`, `LatchEdges`, `BootCheckSound`, `DisqualifiedNotHeld`, `CommandObeyed`, `ModesRefined` |
| `exec_live` | shoves, commands into and out of DETUMBLE, silence of any length | `DetumbleEnds`, `SilenceSafes` |
| `downlink_free` | captures, mode changes, losses, requests and a reset anywhere in the task's loop | `RequestsCounted`, `SavedSound` |
| `downlink_orderly` | the same with captures that wait for the last image | `TransferRefined`, `GapsFilled` |
| `link_patient` | losses both ways, retries, keepalives, chunk requests, a full queue, a reset at any moment or a reopened console; one operator command out at a time | `LinkHeld`, `CallsRefined` |
| `packets` | packets lost, frames cut by a full FIFO or a reset, both radios mixed, a console that joins mid-frame | `CalmFrameForwarded`, `ForwardedInOrder`, `ConsoleInStep` |
| `lora` | both ends at their own pace, a transmit never reported done, a lost packet, a reset of the computer but not of its radio | `DeafOnlyWhileSending`, `UnreadIsNew`, `ListensAgain` |
| `telemetry` | control cycles, health reports, polls and an image without end against one task that drains | `BeaconsInOrder`, `DropsRemembered`, `BeaconLeaves` |
| `mission` | macros one after the other or together, over late telemetry, with commands, answers or the link lost, a vehicle that turns in any mode | `Aimed`, `CapturedInItsStep`, `MacrosHonest` |
| `spi_bus` | camera, radios and sensors preempted between any two steps of any call, with and without the scheduler | `OneSelected`, `FrameInStep`, `ControlFirst` |
| `vigil` | tasks that hang and are preempted, every reset, a wheel node that aligns, restarts or dies | `HungTaskBites`, `HealthyNotBitten`, `CauseTold`, `WheelCoasts`, `WheelDropoutSound` |
| `sensing` | sensors that freeze, fall silent and come back, a held bus, reads the camera's writes cut into, samples late and overwritten | `DullLatched`, `BlameTheBroken`, `BiasFromStillness` |

A module's type invariant (`TypeOK`, `DownlinkTypeOK`, `LinkTypeOK`, `PacketsTypeOK`,
`LoraTypeOK`, `TelemetryTypeOK`, `MissionTypeOK`, `BusTypeOK`, `VigilTypeOK`,
`SensingTypeOK`) is the first conjunct of one of the listed invariants.

`CriticalMeansSafe` was first written without its exception. TLC showed the
cycle in which the ground commands STANDBY out of SAFE with a Critical fault
still latched: the fault step finds the vehicle already safed, the command is
dispatched, and the cycle ends in STANDBY. The next cycle safes again. The
exception states exactly that one cycle.

**Bounds.** Counter limits of `Executive` are small values with the order the
code has: in `exec` a boot check of 2 cycles, a debounce of 2 for `UNDERVOLTAGE` and of
1 for the others (`BriefDebounce`), detumble limits of 1, a pulse of 2 ticks, a command
timeout of 2; in a cycle one sensor is bad at most, or none has published
anything (a Degraded dropout and a fast rate come in successive cycles, not in the same one).
The rate class `drift` appears in `exec_live` only: it acts as `fast` in
DETUMBLE and as `quiet` elsewhere. The control
flow only compares a counter with its limit and with other counters, so a limit
of two already separates "below", "one below" and "at". Two or three faults
represent the table: one per severity and per fallback row. Sequence numbers are
from a set of two, enough for "same" and "different". The proofs do not depend
on any of these values.

`Downlink`: frames of one or two chunks (a sweep has a chunk to skip and one to
send, a pass can stop in the middle), two captures per boot (`MaxCaptures`; an
old and a new frame), one reset (`MaxBoots`), a request queue of two
(`ReqDepth`) against 96, `RequestMax` and `DoneKept` as in the cfg. The queue is
smaller than two requests, so overflow happens. `downlink_free` takes pictures at any
moment and resets once; `downlink_orderly` waits for the last image and does not reset.

`CommandLink`: the keepalive at 2 ticks and the timeout at 7 are
the code's own values in ticks, `RetryLimit` is 3 against 4. Two operator commands (`MaxCalls`) suffice for
order and repetition; keepalives are not bounded and wrap the sequence number
at `SeqNumbers`, 10 here and 65536 in the code. It must exceed the command frames
that fit in one dedup window, or a fresh number would meet a remembered one:
`LinkTimes` asks for more than the timeout in ticks and two. `MaxRestarts` 1 gives a
reset of the vehicle at any moment or a console closed and opened again; each touches
the memory of numbers at its own end, and a reset only ever empties the vehicle's.
The queue is of depth 2 and fills.

`Packets`: sizes are the shipped ones divided by four to six (packets of 8 bytes,
payloads of at most 12, status frames of 2), chosen so that a chunk spans three
packets and ends early in the third and a status frame fits one; the FIFOs have
their real depth of three. A lookalike's length byte says 12, the largest length the
radios' parsers believe, or 24 (`AnyLength`, 255 in the code), which only the console
believes: it then swallows a chunk and part of the next. Four frames (`MaxFrames`) are
the lookalike, what it swallows and one that must be whole. With the console's
allowance set to what the radios' parsers can swallow, the run finds the frame it
loses. The console is opened once, at any moment, between two frames or inside one and
before its lookalike (`JoinPoints`), and beside it one trouble (`MaxTroubles`): a packet
lost, or a reset of either end. A property speaks of one decoder, and a trouble that
meets it while a lookalike misleads it is the pair that could break it.

`LoraLink`: three frames each way (one read, one unread, one in the air), one mute
transmit, one loss, one reset.

`Telemetry`: `Cap` 3 units of one small frame against a chunk of two, so that a
chunk fits an empty buffer and not one that holds two frames; a heartbeat and a
dial every second cycle (`Every`, `DialPhase`), against ten; `WirePeriod` 5 pieces
between two cycles against nine, scaled with the buffer. Beacons are numbered modulo
`Numbers`, twice the depth of the queue.

`Mission`: ticks of `RETRY_AFTER_S`; the other delays are scaled so that the order of
the deadlines is the shipped one (`RetryLimit` 2 tries, a settle time after the last
of them, step time-outs after that). Three events (`MaxEvents`): a leg of a survey or
another macro started, a command that is lost or unanswered at every try it likes, a
loss of the command link; so a survey of two legs beside one trouble or another macro,
two macros beside one trouble, one beside two. One frame of telemetry is under way
(`DownDepth`), any number of ticks long. Leaving out the condition on the frame of a
pulse, on the pictures to come or on STANDBY makes the run find each misreport.

`Vigil`: times divided by 250 ms (`MCVigil`): report 4 ticks, watchdog 12, deadlines 2
and 4, alignment 8, wheel windows 4 and 12. `MaxHangs`, `MaxResets`,
`MaxEscRestarts` and `MaxLost` are 1. A spoilt report is never followed by another:
the control task would have to hit a window of microseconds twice in a row.

`SpiBus`: images of two chunks (a burst in the middle of a frame and one at its end),
two captures (`MaxCaptures`; the pointer is where the last frame left it, or rewound).

`Sensing`: a stale window of two cycles against five, debounces of two against three, a
bias window of three readings against twenty, two rates further apart than a quiet window
admits, one part that fails and mends as often as it likes (`MaxFailures`), the camera's
writes among them. The history `dull` is capped at the count that must have latched. One
read of a pass is cut at most, since a pass is shorter than the control cycle that writes
the registers; `Cuts` has one cut of each kind, in reads of either device. A read of two
bytes cut after its STOP returns a wrong low byte, two degrees at most, and is not told
from a right one. Without the disjuncts of `BlameTheBroken` about cut samples TLC finds
the well device blamed, the power monitor and the thermometer alike.

**Fairness.** `Executive`: `FairSpec` has weak fairness of `Next`, because the
control task runs a cycle every period (`obc/Src/freertos/control_task.cpp:539`).
Nothing is assumed of inputs; `DetumbleEnds` and `SilenceSafes` carry their
hypothesis about rates and commands in the formula. `Downlink`: weak fairness of
`Task` (an RTOS task that is ready runs), and strong fairness of what a lossy
medium does again and again: buffers with room, a resent chunk heard, an idle
report heard, a request delivered. A first-pass chunk is sent once and gets no
such assumption. `LoraLink`: weak fairness of both processors' loops and of the end
of a packet in the air; its report may still be missing. `Telemetry`: weak fairness
of the telemetry task, which outranks the image downlink and is held back by nothing
but its wires. `CommandLink`, `Packets`, `Mission`, `SpiBus`, `Vigil` and
`Sensing` state safety only: where something must happen in time it is stated as a bound on a
counter (`HungTaskBites`, `DullLatched`), which needs no fairness, and every step of
a macro has a time-out of its own.

**Deadlock** is checked in every run but `packets` and `lora`, where it is switched
off: both stop when the frames of the run are used up.

## 4. Proofs

`ExecutiveProofs` proves, for every fault table, command set, counter limit and
environment allowed by the named assumptions (`FaultAssumption`,
`CommandAssumption`, `ExecutiveAssumption`):

* `TypeCorrect`, `UpsetCounted` (invariants), from the inductive invariant
  `IInv == TypeOK /\ UpsetCountedInPlace`;
* `CriticalSafes`, `WheelIdle`, `PulseStaysInStandby` (invariants established by
  each step);
* `OnlyGroundLeavesSafe`, `LatchesEarned`, `DisqualifiedGivenUp`,
  `CommandsObeyed` (action properties);
* `ModesImplemented`: `Spec` implements `VehicleModes`.

The argument has three layers. Lemmas about the managers say what `Request`,
`CountStreaks`, `Latch` and `Aged` return. `Skeleton` and `CycleSkeleton` reduce
a cycle to its chain of modes `mode -> safed -> responded -> now -> after` with
the condition for every link, without the data. `CycleCases` then splits a cycle
by what its last link did (nothing, resume, interrupt), and each theorem follows
by cases on it.

`UpsetCountedInPlace` is the part of the invariant that is not typing. Without
it a state with `mode = "SAFE"` and a full upset counter would be allowed, and
from it the cycle that climbs to STANDBY could start an autonomous detumble at
once: `SafeLeftByGround` would fail, as would the refinement, whose steps out of
SAFE all go to STANDBY.

`IdleWheelUnforced` (no torque is left on the wheel by a cycle that ends booting,
safed or downlinking) and `UpsetCountedInPlace` are proved and checked by no run.

Two more invariants need a part of their own. `BearingWasChosen` needs that while
the mode the law last saw is POINTING, the target is the ground's or was captured when this
visit began: a captured heading is `"entry"` for the visit that captured it and `"past"`
from the first cycle outside POINTING on. `BootCheckMeansIt` needs
`BootClean`: while the vehicle boots, nothing that safes it is latched and no streak is
longer than the boot is old. Its hypothesis `CheckOutlasts`, that a Critical debounce is
at most one sample longer than the self-check, is a fact of the shipped tables (three
cycles in `executive.hpp:59`, no Critical debounce above three in
`fault_manager.cpp:14`); without it a slow sensor could leave BOOT unjudged.

`LoraLinkProofs` proves, for any number of frames, losses, mute transmits and resets,
`NeverDeaf` (`DeafOnlyWhileSending`) and `TakenInOrder` (`UnreadIsNew`), from
`LoraAssumption`. The inductive invariant `LoraInv` has three parts: `Shape` is
typing; `Turns` ties each chip's mode to the loop that waits for it, to the driver's
flag and to the chip at the other end (a packet still whole has a listener); `Newer`
orders the numbers: what an end has taken is older than what its chip holds, and that
older than what is in the air towards it. `Turns` is what makes `Newer` inductive:
a send starts from a chip that listens, so no frame in the air is overwritten.

`TelemetryProofs` proves `AiredInOrder` (`BeaconsInOrder`) and `NoSilentDrop`
(`DropsRemembered`) for buffers of any size and any periods, from
`TelemetryAssumption`. `TelemetryInv` says that the queue holds consecutive numbers from
the one on the air on. The work is in lemmas that show each entry point to keep `Sound`,
the part of the invariant about the shared state; a control cycle is a composition of
them, so its proof is the composition of the lemmas.

`VigilProofs` proves all five properties of the run from `VigilAssumption`,
`WheelNodeAssumption` and `TimesAssumption`, for any number of hangs, resets, restarts
and any times in the order assumed. Each has its own strengthening: `Uncommanded` ties
the history clock of the wheel to the node's own; `CauseRead` says the flags are clear
whenever the computer runs; `Overdue` says a pet is evidence of every task, so what has
passed since is on the watchdog's counter; `Healthy` bounds how old a task that keeps
its pace can be at each point of a tick, and with it how many reports in a row can
fail; `Noticed` and `Heard` bound the silence of a node that is gone and of one that is
not. `TimesAssumption` holds of the shipped times: a report each second
(`health_task.cpp:22`) and a watchdog of three (`main.cpp:145`); the health task's own
deadline is 0, which exempts it (`health_task.cpp:163`); wheel windows of 1 s and 8 s
(`sensor_monitor.cpp:29`, `:35`) against a status each 250 ms and about 5 s of alignment.

`CommandLinkProofs` proves `ConsoleHoldsLink` (`LinkHeld`) for any number of calls,
sessions, resets and losses, patient operator or not, from `LinkAssumption` and
`LinkTimes`. `Holding` bounds the vehicle's silence by the keepalives lost and the
session's own quiet time, with one allowance while a frame is under way and another for
the tick in which it is handled. `LinkTimes` holds of the shipped times: retries each
0.7 s, four tries (`session.py:57`), a keepalive each 1.3 s against 5 s
(`uart_monitor.py:46`).

`SpiBusProofs` proves `OneDeviceListens`, `FramePointerAgrees` and `ControlWaitsForOne`,
all three properties of its run, for any lengths of an image and any number of captures.
`BusInv` says who is in a call (`Alone`), that a chip select is asserted by the task that
is in that transfer (`Listening`), and that what is left of a call's script takes the
camera's pointer where its driver will believe it to be (`Pointer`, `OnPlan`).

`DownlinkProofs` proves `RequestsStayCounted` (`RequestsCounted`), `SavedOnlyOnce`
(`SavedOnce`) and `OnePictureSaved` (`SavedSound`) with captures at any moment, any number
of captures and resets, any memory of finished images. The first two follow from
`DownInv`: the task is in a pass exactly while chunks are left (`PassOK`), what was heard
of a power cycle was sent in it (`HeardSound`), and a saved image that could still come
in again is remembered (`Remembered`). `OnePictureSaved` adds what holds of an image that
is not spoilt: the frame in the FIFO is the one on the air and the task reads it in step
with its own count (`InStep`); while a newer frame waits for its pass, nothing of the last
is left to send and the new one is unread (`Waiting`); and what the ground has gathered is
of that frame, each part at its place (`Gathered`). It makes no assumption about the
operator; that with one who lets each image settle `Downlink` implements `ImageTransfer`
is checked by `downlink_orderly`.

`SensingProofs` proves `DullIsLatched` (`DullLatched`), `BlameIsDeserved`
(`BlameTheBroken`) and `QuietWindow` (`WindowWasQuiet`, the heart of
`BiasFromStillness`) for any windows, debounces and rates, any part that fails, and any
number of them, from `SensingAssumption`, `RatesAssumption`, `SpreadAssumption`,
`StaleWindowAssumption` and `FaultAssumption`. `TransferSucceeds` says a transfer does
not suffer from what the last left in the control register, a write of the camera's
included, and with it a read that is not cut is valid exactly if device and bus work;
`CutFails` says what a cut can cost. In `SensingInv`, `SampleSound` says that what a sample
under way lacks has failed or was cut and what it brings is new unless frozen; `Blamed`
that a streak, not only a latch, has someone to blame, or as many cut samples behind it; `DullCounted` that a source which is dull
beyond the window is on its streak, though the window's clock runs ahead of the samples
when they are late; `WindowOK` that the extremes of the bias window span the last
readings offered.

Model-checked only:

* liveness (`DetumbleEnds`, `SilenceSafes`, `GapsFilled`, `ListensAgain`,
  `BeaconLeaves`), which is out of the prover's reach;
* `TransferRefined`: the refinement of `ImageTransfer` holds for one power cycle and an
  operator who lets each image settle; what is proved instead, `SavedSound`, needs neither;
* `CallsRefined`: the refinement of `CommandService` holds for a patient operator
  (`Patient = TRUE`) and needs an invariant over everything under way at once;
* `Packets`, whose steps fold over sequences of bytes: what a fold returns for every
  sequence needs induction over data; so does the one conjunct of `BiasFromStillness`
  that has the sum of a window;
* the clocks of `SensingTypeOK` beyond those in `SensingInv`, and the bus register's;
* `Mission`.

## 5. Where text and code differ

Met while modelling. No run is kept for these; the properties are stated so that
they say what the code does.

* A DETUMBLE commanded in the cycle after one ended starts with the old exit count
  and can end after a single quiet sample (`fsw/src/executive.cpp:268`).
* The autonomous detumble starts on the fourth fast sample, not the third (`:287`).
* The boot check is shorter than the longest debounce.
* A pass cut short by leaving DOWNLINK goes on with the next frame's chunks under the
  old image id (`obc/Src/freertos/downlink_task.cpp:195`).
* After a reset of the vehicle, the first image with as many chunks as the first one
  before is taken for a repeat of it and dropped (`tools/ground/payload.py:67`).
* With two commands unanswered, a retry of the first acts again
  (`fsw/src/comms/command_handler.cpp:64`).
* The number of the last command is kept in memory only: a reset of the vehicle between
  a command and its retry runs the command twice, once before and once after it
  (`command_handler.cpp:64`). `CommandService` allows this and nothing more.
* The sweep judges a pulse by the attitude frame that came last. Clearing the peak on the
  ground as the pulse is sent is meant to match the vehicle (`tools/ground/session.py:340`),
  but a frame sent before brings the old peak back; if the pulse is lost, or the frames
  after it, the step reports a breakaway at a torque that moved nothing (`:355`). So
  does a turn of any other cause while the platform settles.
* The aim step waits for the vehicle to prove the command (`:596`), by the echo of the
  target and the band flag. Both are published in every mode: a vehicle safed or parked
  meanwhile that drifts across the bearing is reported aimed, and so is one asked for the
  bearing it was asked for before, by a frame from then.
* The recovery says "recovered" and a mission goes from step to step on the last heartbeat
  (`:403`, `:416`), which may be older than the command it is taken to confirm: a vehicle
  last seen in STANDBY and safed since is reported recovered before a word of it arrives.
* A mission takes the next picture saved for its own (`:631`). One of an earlier mission that
  failed, still in the camera, ends it with the wrong file, and the leg of a survey likewise.
* One lost packet can cost two frames, the one it was part of and the one whose head
  the parser swallows (`obc/Src/devices/nrf24.c:220`).
* The beacon is documented as one deep and replaced
  (`obc/Inc/telemetry_task.hpp:42`, `:79`); it is a queue of three that
  refuses the newest.
* The sensor task says that nothing else touches its i2c bus
  (`obc/Src/freertos/sensor_task.cpp:10`). The control task does: a new resolution is
  written to the camera over it (`fsw/platform/stm32/platform_stm32.cpp:113`,
  `obc/Src/devices/ov2640.c:104`), at a higher priority and without a lock, so it can
  start in the middle of a sensor's transfer. `SpiBus` reaches that state: two tasks in a
  transfer on `Wire`. Then the write is dropped unnoticed, or the sensor's read fails or
  returns a wrong byte. `sensing` shows a device that never failed blamed for it, after as
  many cut samples in a row as the debounce asks; `BlameTheBroken` promises no more than
  that this is what it takes.
* The radio driver says that the bus is free between polls of a transmit, so the payload
  downlink keeps it (`obc/Src/devices/rfm95.c:227`). The lock is free, but the polling
  task outranks the downlink task and never blocks: the downlink task finishes the call
  it is in and gets no other until the transmit is over.
* A chunk the task has read can be dropped by a buffer that another task filled in
  between; `downlink_task.cpp:273` says that this does not happen.

Observed, and allowed by the properties as stated:

* with `WHEEL_DROPOUT` or `ACCEL_GYRO_DROPOUT` latched, a fast rate in STANDBY
  still starts an autonomous detumble, which the next cycle gives up;
* a cycle without a valid rate freezes the exit count of DETUMBLE;
* a source that offers no sample neither extends nor breaks a streak;
* the ground may take the vehicle out of BOOT before its check has run, and a
  capture accepted in the cycle that safes the vehicle is started;
* an image joined from two frames can begin and end with the right markers, and
  is then reported as `JPEG OK` (`tools/ground/session.py:283`);
* a capture started between `downlink_task.cpp:202` and `:206` is marked as seen
  and never gets a pass of its own;
* after a reset the ground's `pending()` asks for the highest id it knows, which
  is one from before the reset, until it is completed by chunks of other frames
  or the session ends;
* an image none of whose chunks arrives in its one pass is never asked for;
* a ground session reopened within the dedup window, without its keepalive,
  counts from 1 again: its first command, meeting the same number of the session
  before, is answered with the old verdict and not executed;
* a poll written between the compare and the clear of the poll byte
  (`telemetry_task.cpp:177`, `:186`) is cleared unserved;
* the spread of the gyro's readings is narrowed to 16 bits
  (`control_task.cpp:428`): two readings more than 32767 counts apart would pass for
  stillness; `SpreadAssumption` excludes them;
* a wheel node restarted on its own is silent for the length of its alignment, which
  latches `WHEEL_DROPOUT`, and when it is aligned it obeys the oldest commands its
  buffer kept before the newer ones;
* a two-byte i2c read that times out leaves POS set (`obc/Src/drivers/i2c.c:188`); the reset
  before the next START clears it;
* the compass calibration, which is not modelled, compares with the angle of the last
  sample it used, however old (`control_task.cpp:381`), and its spike gate (`:341`) does not
  resynchronise after a turn it did not see.

## 6. Plan

Done: the executive with its managers, contract and proofs; downlink, camera and
assembler with their contract; command link with its contract; telemetry; frame codec
and payload radio; half-duplex radio with proofs; macros; watchdog, resets and wheel
node; sensors, i2c bus and gyro bias; the shared spi bus. Proofs of every safety property of
`Executive`, `LoraLink`, `Telemetry`, `Vigil`, `SpiBus`, `Downlink` and `Sensing` but the
refinement of `ImageTransfer` and the sum of the bias window, and of `LinkHeld`.

Left:

1. Proofs: the refinement of `CommandService`; `Aimed` and `CapturedInItsStep` of
   `Mission`.
2. Image requests over `Packets` and `CommandLink` together, in place of the
   one-step request of `Downlink`.

Not modelled, and why:

* control and estimation arithmetic, and the compass calibration of the control task:
  floating-point geometry, covered by the repository's plant simulation;
* the detectors of a wheel at its limit and of the camera: each passes on one bit of one
  sample, which is a free input of `Executive`;
* register setup and serial rings of the drivers, status lights and the
  ground station's display: no protocol state of their own;
* wire layouts of the messages: `Message catalogue` appears as constants;
* the simulation and hardware-in-the-loop harness: test infrastructure.
