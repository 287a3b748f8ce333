------------------------------- MODULE SpiBus --------------------------------
(***************************************************************************)
(* obc/Src/drivers/spi.c under the camera and the two radios: six tasks of *)
(* fixed priorities, one bus, a chip select per device and one lock.  A    *)
(* driver call takes the lock, makes its transfers and gives the lock      *)
(* back; a task is preempted anywhere in between, and bring-up runs before *)
(* the scheduler, when there is no lock to take.                           *)
(*                                                                         *)
(* The camera's driver is Camera, where every call is one step: here the   *)
(* call is taken apart, and its effect falls due when the lock is given    *)
(* back: nothing else looks at it before.  One run of register accesses    *)
(* stands for all that a call makes in a row.                              *)
(***************************************************************************)
EXTENDS Camera, Sequences

CONSTANT MaxCaptures   \* bound of the model: captures in a run

VARIABLES
    started,   \* xTaskGetSchedulerState() # taskSCHEDULER_NOT_STARTED
    up,        \* the devices whose driver is configured
    owner,     \* the holder of spi3_bus.mutex
    at,        \* [Task -> where the task is in its driver call]
    job,       \* [Task -> the call]
    todo,      \* [Task -> the transfers the call has still to make]
    low,       \* the chip selects that are asserted
    burst,     \* burst_open: the camera hands out its FIFO on every clock
    fifo       \* the arduchip's read pointer, in chunks

vars == <<cameraVars, started, up, owner, at, job, todo, low, burst, fifo>>

\* main() before the scheduler, and the tasks that make driver calls.
Task == {"main", "control", "health", "sensors", "uplink", "telemetry", "downlink"}

Nobody == "nobody"

\* rtos_tasks.h
Priority ==
    [main |-> 1, downlink |-> 2, telemetry |-> 3, uplink |-> 4,
     sensors |-> 5, health |-> 6, control |-> 7]

Dev == {"camera", "lora", "nrf24"}

\* A call is at the bus lock, waiting for it, between transfers, or in one.
Phase == {"idle", "entering", "blocked", "inside", "selected"}

\* A run of register accesses of each driver, a chip select around every one.
CameraRegs == [dev |-> "camera", what |-> "regs"]
LoraRegs   == [dev |-> "lora", what |-> "regs"]
Nrf24Regs  == [dev |-> "nrf24", what |-> "regs"]

\* The camera's transfers that move its read pointer: a burst of one chunk, the scan for
\* the end of the image, and the rewind.
Burst   == [dev |-> "camera", what |-> "burst"]
Scan    == [dev |-> "camera", what |-> "scan"]
Restart == [dev |-> "camera", what |-> "restart"]

\* A transfer on the i2c bus of the sensors and of the camera's registers.
Wire == [dev |-> "i2c1", what |-> "regs"]

Exchange == {CameraRegs, LoraRegs, Nrf24Regs, Burst, Scan, Restart, Wire}

\* The calls a task begins with, and the one it goes on to without pausing.
FirstCalls ==
    [control   |-> {"ov2640_poll", "ov2640_poll_done", "ov2640_set_resolution",
                    "ov2640_capture_start"},
     health    |-> {"rfm95_alive", "nrf24_alive"},
     sensors   |-> {"sample"},
     uplink    |-> {"rfm95_receive"},
     telemetry |-> {"rfm95_send"},
     downlink  |-> {"ov2640_frame_bytes", "ov2640_rewind", "ov2640_read_chunk",
                    "nrf24_send"},
     main      |-> {}]

\* rfm95_send waits for the transmit by polling, until it gives up.
NextCalls(call) ==
    CASE call = "ov2640_init" -> {"rfm95_init"}
      [] call = "rfm95_init" -> {"nrf24_init"}
      [] call \in {"ov2640_poll", "ov2640_poll_done"} -> {"ov2640_read"}
      [] call = "ov2640_set_resolution" -> {"ov2640_capture_start"}
      [] call = "rfm95_send" -> {"rfm95_tx_done"}
      [] call = "rfm95_tx_done" -> {"rfm95_tx_done", "rfm95_give_up", "none"}
      [] OTHER -> {"none"}

CameraCalls ==
    {"ov2640_init", "ov2640_poll", "ov2640_poll_done", "ov2640_read", "ov2640_set_resolution",
     "ov2640_capture_start", "ov2640_frame_bytes", "ov2640_rewind", "ov2640_read_chunk"}
LoraCalls  == {"rfm95_init", "rfm95_alive", "rfm95_receive", "rfm95_send",
               "rfm95_tx_done", "rfm95_give_up"}
Nrf24Calls == {"nrf24_init", "nrf24_alive", "nrf24_send"}

Call == CameraCalls \cup LoraCalls \cup Nrf24Calls \cup {"sample", "none"}

\* The device whose driver must be configured for the call to be made at all.
Device(call) ==
    CASE call \in CameraCalls -> "camera"
      [] call \in LoraCalls -> "lora"
      [] call \in Nrf24Calls -> "nrf24"
      [] OTHER -> "i2c1"

Inits == {"ov2640_init", "rfm95_init", "nrf24_init"}

Capturing == camState = "CAPTURING"

\* The transfers of a call, decided under the lock from the driver's state.
Script(call) ==
    CASE call = "ov2640_init" -> <<CameraRegs, Wire, CameraRegs>>
      [] call = "ov2640_poll" -> IF Capturing THEN <<CameraRegs>> ELSE <<>>
      [] call = "ov2640_poll_done" ->
           IF Capturing THEN <<CameraRegs, Scan, Restart>> ELSE <<>>
      [] call = "ov2640_read" -> <<CameraRegs>>
      [] call = "ov2640_set_resolution" -> IF Capturing THEN <<>> ELSE <<Wire>>
      [] call = "ov2640_capture_start" -> IF Capturing THEN <<>> ELSE <<CameraRegs>>
      [] call = "ov2640_rewind" -> IF CanRewind THEN <<Restart>> ELSE <<>>
      [] call = "ov2640_read_chunk" -> IF Remaining > 0 THEN <<Burst>> ELSE <<>>
      [] call \in {"ov2640_frame_bytes", "none"} -> <<>>
      [] call = "sample" -> <<Wire>>
      [] call \in LoraCalls -> <<LoraRegs>>
      [] call \in Nrf24Calls -> <<Nrf24Regs>>

\* What the call leaves in the camera driver.
Effect(call) ==
    CASE call = "ov2640_poll_done" /\ Capturing -> CapturePoll
      [] call = "ov2640_poll" /\ Capturing ->
           UNCHANGED cameraVars \/ (CapturePoll /\ camState' = "FAILED")
      [] call = "ov2640_capture_start" /\ ~Capturing -> CaptureStart
      [] call = "ov2640_rewind" /\ CanRewind -> Rewind
      [] call = "ov2640_read_chunk" /\ Remaining > 0 -> ReadChunk
      [] OTHER -> UNCHANGED cameraVars

Init ==
    /\ boot = 0
    /\ CameraInit
    /\ started = FALSE
    /\ up = {}
    /\ owner = Nobody
    /\ at = [t \in Task |-> IF t = "main" THEN "entering" ELSE "idle"]
    /\ job = [t \in Task |-> IF t = "main" THEN "ov2640_init" ELSE "none"]
    /\ todo = [t \in Task |-> <<>>]
    /\ low = {}
    /\ burst = FALSE
    /\ fifo = 0

------------------------------------------------------------------------------
(* The scheduler: preemptive, fixed priorities, no time slicing, and the   *)
(* lock a mutex: its holder runs at the priority of the highest waiter.    *)

Ready(t) == at[t] \notin {"idle", "blocked"}

Waiting == {t \in Task : at[t] = "blocked"}

\* Mutant: the lock is a binary semaphore.
RunsForItself(t) == {t}

\* The tasks whose priorities t runs at.
RunsFor(t) == {t} \cup (IF t = owner THEN Waiting ELSE {})

Outranks(t, u) ==
    \E w \in RunsFor(t) : \A x \in RunsFor(u) : Priority[x] < Priority[w]

Runs(t) == Ready(t) /\ \A u \in Task \ {t} : Ready(u) => Outranks(t, u)

\* The waiter a release makes ready; it takes the lock when it next runs.
Released(t) ==
    IF t # owner THEN {}
    ELSE {w \in Waiting : \A x \in Waiting : Priority[x] <= Priority[w]}

\* A period, a notification or a message is due, and a call follows.
Wake(t, call) ==
    /\ started
    /\ at[t] = "idle"
    /\ Device(call) \in up \cup {"i2c1"}
    /\ call \in {"ov2640_set_resolution", "ov2640_capture_start"} => captureSeq < MaxCaptures
    /\ at' = [at EXCEPT ![t] = "entering"]
    /\ job' = [job EXCEPT ![t] = call]
    /\ UNCHANGED <<cameraVars, started, up, owner, todo, low, burst, fifo>>

\* spi_bus_lock does nothing before the scheduler runs; the sensors' buses have no lock.
Locks(t) == started /\ t # "sensors"

\* Mutant: a lock per handle, not per peripheral.
MayPassHandle(t) ==
    Locks(t) /\ owner # Nobody => Device(job[owner]) # Device(job[t])

MayPass(t) == Locks(t) => owner = Nobody

Lock(t) ==
    /\ Runs(t) /\ at[t] = "entering" /\ MayPass(t)
    /\ owner' = IF Locks(t) THEN t ELSE owner
    /\ at' = [at EXCEPT ![t] = "inside"]
    /\ todo' = [todo EXCEPT ![t] = Script(job[t])]
    /\ UNCHANGED <<cameraVars, started, up, job, low, burst, fifo>>

Block(t) ==
    /\ Runs(t) /\ at[t] = "entering" /\ ~MayPass(t)
    /\ at' = [at EXCEPT ![t] = "blocked"]
    /\ UNCHANGED <<cameraVars, started, up, owner, job, todo, low, burst, fifo>>

\* spi_select, or START: the device listens until the transfer is over.
Select(t) ==
    /\ Runs(t) /\ at[t] = "inside" /\ todo[t] # <<>>
    /\ at' = [at EXCEPT ![t] = "selected"]
    /\ low' = low \cup ({Head(todo[t]).dev} \cap Dev)
    /\ burst' = (burst \/ Head(todo[t]) \in {Burst, Scan})
    /\ UNCHANGED <<cameraVars, started, up, owner, job, todo, fifo>>

\* Where a transfer leaves the camera's read pointer: its FIFO is clocked along by
\* anybody's bytes as long as it is in a burst.
Clocked(x) ==
    CASE x = Scan -> Sizes
      [] x = Restart -> {0}
      [] x = Burst -> {fifo + 1}
      [] OTHER -> {IF burst /\ x # Wire THEN fifo + 1 ELSE fifo}

\* Mutant: the burst stays open until the frame is drained.
DeselectedLate(x) == IF x = Burst /\ Remaining > 1 THEN {} ELSE {x.dev}

\* The chip select a finished transfer lets go.
Deselected(x) == {x.dev}

\* The bytes of the transfer and spi_deselect.
Transfer(t) ==
    /\ Runs(t) /\ at[t] = "selected"
    /\ fifo' \in Clocked(Head(todo[t]))
    /\ low' = low \ Deselected(Head(todo[t]))
    /\ burst' = (burst /\ "camera" \in low')
    /\ at' = [at EXCEPT ![t] = "inside"]
    /\ todo' = [todo EXCEPT ![t] = Tail(@)]
    /\ UNCHANGED <<cameraVars, started, up, owner, job>>

\* spi_bus_unlock and what the caller does next.
Unlock(t) ==
    /\ Runs(t) /\ at[t] = "inside" /\ todo[t] = <<>>
    /\ Effect(job[t])
    /\ up' \in IF job[t] \in Inits THEN {up, up \cup {Device(job[t])}} ELSE {up}
    /\ owner' = IF owner = t THEN Nobody ELSE owner
    /\ \E call \in NextCalls(job[t]) :
          /\ job' = [job EXCEPT ![t] = call]
          /\ at' = [u \in Task |-> IF u = t THEN IF call = "none" THEN "idle" ELSE "entering"
                                   ELSE IF u \in Released(t) THEN "entering" ELSE at[u]]
          /\ started' = (started \/ call = "none")
    /\ UNCHANGED <<todo, low, burst, fifo>>

Step(t) == Lock(t) \/ Block(t) \/ Select(t) \/ Transfer(t) \/ Unlock(t)

Next == \E t \in Task : Step(t) \/ \E call \in FirstCalls[t] : Wake(t, call)

Spec == Init /\ [][Next]_vars

------------------------------------------------------------------------------
(* Properties.                                                             *)

\* The call t is in holds the bus.
InCall(t) == at[t] \in {"inside", "selected"}

\* The variables hold what the drivers' types allow.
BusTypeOK ==
    /\ camState \in CamState /\ captureSeq \in Nat /\ frameBytes \in Nat /\ frameRead \in Nat
    /\ started \in BOOLEAN /\ up \subseteq Dev /\ owner \in Task \cup {Nobody}
    /\ at \in [Task -> Phase] /\ job \in [Task -> Call] /\ todo \in [Task -> Seq(Exchange)]
    /\ low \subseteq Dev /\ burst \in BOOLEAN /\ fifo \in Nat

\* Only one device listens on spi3, the one being addressed, however its task is
\* preempted; between transfers none does, and nobody pauses with the lock.
OneSelected ==
    /\ BusTypeOK
    /\ \A t \in Task : at[t] = "selected" /\ Head(todo[t]) # Wire => low = {Head(todo[t]).dev}
    /\ low # {} => \E t \in Task : at[t] = "selected"
    /\ owner # Nobody => InCall(owner)

\* The camera's FIFO and its driver agree on what has been read: outside the camera's
\* own calls no traffic of anybody's moves the read pointer.
FrameInStep ==
    frameBytes > 0 /\ (\A t \in Task : InCall(t) => job[t] \notin CameraCalls)
        => fifo = frameRead

\* The control cycle waits for one call at most: while it waits for the bus nobody
\* but the holder gets anywhere.
ControlFirst ==
    [][at["control"] = "blocked" =>
          \A t \in Task : Ready(t) /\ t # owner => at'[t] = at[t] /\ todo'[t] = todo[t]]_vars
==============================================================================
