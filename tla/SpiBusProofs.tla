---------------------------- MODULE SpiBusProofs -----------------------------
(***************************************************************************)
(* What SpiBus promises, for any lengths of an image and any number of     *)
(* captures: one device listens at a time, the control task waits for the  *)
(* holder of the bus alone, and the camera's read pointer is where its     *)
(* driver believes it to be.                                               *)
(***************************************************************************)
EXTENDS SpiBus, TLAPS

------------------------------------------------------------------------------
(* The inductive invariant.                                                *)

\* Outside the sensors' own bus there is one call at a time: main's before the
\* scheduler starts, the owner's from then on.
Alone ==
    /\ started = FALSE => owner = Nobody /\ \A t \in Task \ {"main"} : at[t] = "idle"
    /\ started = TRUE =>
          /\ at["main"] = "idle"
          /\ \A t \in Task \ {"sensors"} : InCall(t) <=> owner = t
    /\ owner # "sensors"
    /\ job["sensors"] \in {"none", "sample"}
    /\ todo["sensors"] \in {<<>>, <<Wire>>}

\* A waiting control task waits for somebody.
Turn == at["control"] = "blocked" => owner # Nobody

\* A chip select is asserted by the task in that transfer, and a burst is open in the
\* transfer that opened it.
Listening ==
    /\ \A t \in Task : at[t] = "selected" => todo[t] # <<>>
    /\ \A t \in Task : at[t] = "selected" /\ Head(todo[t]).dev \in Dev => Head(todo[t]).dev \in low
    /\ \A d \in low : \E t \in Task : at[t] = "selected" /\ Head(todo[t]).dev = d
    /\ burst = TRUE => \E t \in Task : at[t] = "selected" /\ Head(todo[t]) \in {Burst, Scan}

\* The calls that move the camera's read pointer.
Reading(call)   == call = "ov2640_read_chunk" /\ Remaining > 0
Rewinding(call) == call = "ov2640_rewind" /\ CanRewind
Finishing(call) == call = "ov2640_poll_done" /\ Capturing

Moves(call) == Reading(call) \/ Rewinding(call) \/ Finishing(call)

\* How far a call is with the pointer, by the transfers it has left.
OnPlan(call, left) ==
    /\ Reading(call) =>
          \/ left = <<Burst>> /\ fifo = frameRead
          \/ left = <<>> /\ fifo = frameRead + 1
    /\ Rewinding(call) => left = <<Restart>> \/ (left = <<>> /\ fifo = 0)
    /\ Finishing(call) =>
          \/ left \in {<<CameraRegs, Scan, Restart>>, <<Scan, Restart>>, <<Restart>>}
          \/ left = <<>> /\ fifo = 0
    /\ ~Moves(call) => \A i \in DOMAIN left : left[i] \notin {Burst, Scan, Restart}

\* Pointer and driver agree whenever no call is moving the pointer.
Pointer ==
    /\ Capturing => frameBytes = 0 /\ frameRead = 0
    /\ \A t \in Task : InCall(t) => OnPlan(job[t], todo[t])
    /\ \/ \E t \in Task : InCall(t) /\ Moves(job[t])
       \/ frameBytes > 0 => fifo = frameRead

BusInv == BusTypeOK /\ Alone /\ Turn /\ Listening /\ Pointer

------------------------------------------------------------------------------
(* Typing.                                                                 *)

\* A call's transfers are transfers, and it is followed by calls.
LEMMA ScriptIs ==
    ASSUME NEW call \in Call
    PROVE  Script(call) \in Seq(Exchange)
<1>1. CameraRegs \in Exchange /\ LoraRegs \in Exchange /\ Nrf24Regs \in Exchange
      /\ Burst \in Exchange /\ Scan \in Exchange /\ Restart \in Exchange /\ Wire \in Exchange
  BY DEF Exchange
<1>2. \A x, y, z \in Exchange : <<x, y, z>> \in Seq(Exchange) /\ <<x>> \in Seq(Exchange)
  OBVIOUS
<1>3. <<>> \in Seq(Exchange)
  OBVIOUS
<1>4. /\ <<CameraRegs, Wire, CameraRegs>> \in Seq(Exchange)
      /\ <<CameraRegs, Scan, Restart>> \in Seq(Exchange)
      /\ <<CameraRegs>> \in Seq(Exchange) /\ <<LoraRegs>> \in Seq(Exchange)
      /\ <<Nrf24Regs>> \in Seq(Exchange) /\ <<Wire>> \in Seq(Exchange)
      /\ <<Burst>> \in Seq(Exchange) /\ <<Restart>> \in Seq(Exchange)
  BY <1>1, <1>2
<1> HIDE <1>1, <1>2
<1> DEFINE a == <<CameraRegs, Wire, CameraRegs>>
           b == <<CameraRegs, Scan, Restart>>
           c == <<CameraRegs>>
           d == <<LoraRegs>>
           e == <<Nrf24Regs>>
           f == <<Wire>>
           g == <<Burst>>
           h == <<Restart>>
           z == <<>>
           S == Seq(Exchange)
<1>5. a \in S /\ b \in S /\ c \in S /\ d \in S /\ e \in S /\ f \in S /\ g \in S /\ h \in S /\ z \in S
  BY <1>3, <1>4
<1>6. Script(call) \in {a, b, c, d, e, f, g, h, z}
  <2> HIDE DEF a, b, c, d, e, f, g, h, z
  <2> QED  BY DEF Script, a, b, c, d, e, f, g, h, z, Call, CameraCalls, LoraCalls, Nrf24Calls
<1> HIDE DEF a, b, c, d, e, f, g, h, z, S
<1>7. Script(call) \in S
  BY <1>5, <1>6
<1> QED  BY <1>7 DEF S

LEMMA NextCallIs ==
    ASSUME NEW call \in Call
    PROVE  NextCalls(call) \subseteq Call
BY DEF NextCalls, Call, CameraCalls, LoraCalls, Nrf24Calls

\* A call leaves the camera's driver in values of its types.
LEMMA EffectTyped ==
    ASSUME BusTypeOK, NEW call \in Call, Effect(call)
    PROVE  camState' \in CamState /\ captureSeq' \in Nat /\ frameBytes' \in Nat /\ frameRead' \in Nat
<1>1. CASE UNCHANGED cameraVars
  BY <1>1 DEF BusTypeOK, cameraVars
<1>2. CASE CapturePoll
  BY <1>2, CameraAssumption DEF BusTypeOK, CapturePoll, CamState
<1>3. CASE CaptureStart
  BY <1>3 DEF BusTypeOK, CaptureStart, CamState
<1>4. CASE Rewind
  BY <1>4 DEF BusTypeOK, Rewind, CamState
<1>5. CASE ReadChunk
  BY <1>5 DEF BusTypeOK, ReadChunk, CamState
<1> QED  BY <1>1, <1>2, <1>3, <1>4, <1>5 DEF Effect

LEMMA TypeInit == Init => BusTypeOK
<1> SUFFICES ASSUME Init PROVE BusTypeOK
  OBVIOUS
<1>1. todo \in [Task -> Seq(Exchange)]
  BY DEF Init
<1>2. at \in [Task -> Phase] /\ job \in [Task -> Call]
  BY DEF Init, Phase, Call, CameraCalls
<1> QED  BY <1>1, <1>2 DEF Init, BusTypeOK, CameraInit, CamState, Nobody

LEMMA TypeNext ==
    ASSUME BusTypeOK, Listening, [Next]_vars
    PROVE  BusTypeOK'
<1>1. ASSUME NEW t \in Task, NEW call \in FirstCalls[t], Wake(t, call)
      PROVE  BusTypeOK'
  <2>1. call \in Call
    BY <1>1 DEF FirstCalls, Call, CameraCalls, LoraCalls, Nrf24Calls, Task
  <2> QED  BY <1>1, <2>1 DEF Wake, BusTypeOK, cameraVars, Phase
<1>2. ASSUME NEW t \in Task, Lock(t)
      PROVE  BusTypeOK'
  <2>1. Script(job[t]) \in Seq(Exchange)
    BY ScriptIs DEF BusTypeOK
  <2>2. owner' \in Task \cup {Nobody}
    BY <1>2 DEF Lock, BusTypeOK
  <2>3. at' \in [Task -> Phase] /\ todo' \in [Task -> Seq(Exchange)]
    BY <1>2, <2>1 DEF Lock, BusTypeOK, Phase
  <2> QED  BY <1>2, <2>2, <2>3 DEF Lock, BusTypeOK, cameraVars
<1>3. ASSUME NEW t \in Task, Block(t)
      PROVE  BusTypeOK'
  BY <1>3 DEF Block, BusTypeOK, cameraVars, Phase
<1>4. ASSUME NEW t \in Task, Select(t)
      PROVE  BusTypeOK'
  BY <1>4 DEF Select, BusTypeOK, cameraVars, Phase
<1>5. ASSUME NEW t \in Task, Transfer(t)
      PROVE  BusTypeOK'
  <2>1. todo[t] \in Seq(Exchange) /\ todo[t] # <<>>
    BY <1>5 DEF Transfer, BusTypeOK, Listening
  <2>2. Tail(todo[t]) \in Seq(Exchange) /\ Head(todo[t]) \in Exchange
    BY <2>1
  <2>3. fifo' \in Nat
    BY <1>5, CameraAssumption DEF Transfer, Clocked, BusTypeOK
  <2>4. at' \in [Task -> Phase] /\ todo' \in [Task -> Seq(Exchange)]
    BY <1>5, <2>2 DEF Transfer, BusTypeOK, Phase
  <2>5. low' \subseteq Dev /\ burst' \in BOOLEAN
    BY <1>5 DEF Transfer, BusTypeOK
  <2> QED  BY <1>5, <2>3, <2>4, <2>5 DEF Transfer, BusTypeOK, cameraVars
<1>6. ASSUME NEW t \in Task, Unlock(t)
      PROVE  BusTypeOK'
  <2>1. job[t] \in Call
    BY DEF BusTypeOK
  <2>2. camState' \in CamState /\ captureSeq' \in Nat /\ frameBytes' \in Nat /\ frameRead' \in Nat
    BY <1>6, <2>1, EffectTyped DEF Unlock
  <2>3. PICK call \in NextCalls(job[t]) :
          /\ job' = [job EXCEPT ![t] = call]
          /\ at' = [u \in Task |-> IF u = t THEN IF call = "none" THEN "idle" ELSE "entering"
                                   ELSE IF u \in Released(t) THEN "entering" ELSE at[u]]
          /\ started' = (started \/ call = "none")
    BY <1>6 DEF Unlock
  <2>4. call \in Call
    BY <2>1, NextCallIs
  <2>5. at' \in [Task -> Phase] /\ job' \in [Task -> Call] /\ started' \in BOOLEAN
    BY <2>3, <2>4 DEF BusTypeOK, Phase
  <2>6. up' \subseteq Dev
    BY <1>6 DEF Unlock, BusTypeOK, Inits, Device, Dev, CameraCalls, LoraCalls, Nrf24Calls
  <2>7. owner' \in Task \cup {Nobody}
    BY <1>6 DEF Unlock, BusTypeOK
  <2> QED  BY <1>6, <2>2, <2>5, <2>6, <2>7 DEF Unlock, BusTypeOK
<1>7. CASE UNCHANGED vars
  BY <1>7 DEF vars, BusTypeOK, cameraVars
<1> QED  BY <1>1, <1>2, <1>3, <1>4, <1>5, <1>6, <1>7 DEF Next, Step

------------------------------------------------------------------------------
(* One call at a time.                                                     *)

\* Two calls that both hold the bus are one.
LEMMA Apart ==
    ASSUME Alone, BusTypeOK,
           NEW t \in Task \ {"sensors"}, NEW u \in Task \ {"sensors"}, InCall(t), InCall(u)
    PROVE  t = u
<1>1. CASE started = TRUE
  BY <1>1 DEF Alone
<1>2. CASE started = FALSE
  BY <1>2 DEF Alone, InCall
<1> QED  BY <1>1, <1>2 DEF BusTypeOK

\* What the sensors' task asks of its own bus.
LEMMA SensorsOnly ==
    ASSUME NEW call \in {"none", "sample"}
    PROVE  Script(call) \in {<<>>, <<Wire>>} /\ NextCalls(call) = {"none"}
<1>1. call \notin CameraCalls /\ call \notin LoraCalls /\ call \notin Nrf24Calls
  BY DEF CameraCalls, LoraCalls, Nrf24Calls
<1> QED  BY <1>1 DEF Script, NextCalls

\* Before the scheduler only main makes calls, and the sensors' task makes its own calls.
LEMMA AloneNext ==
    ASSUME BusTypeOK, Alone, Listening, [Next]_vars
    PROVE  Alone'
<1>1. ASSUME NEW t \in Task, NEW call \in FirstCalls[t], Wake(t, call)
      PROVE  Alone'
  <2>1. t # "main"
    BY <1>1 DEF FirstCalls
  <2>2. t = "sensors" => call = "sample"
    BY DEF FirstCalls
  <2>3. started = TRUE
    BY <1>1 DEF Wake, BusTypeOK
  <2>4. \A u \in Task : InCall(u)' <=> InCall(u)
    BY <1>1 DEF Wake, InCall, BusTypeOK
  <2>5. job["sensors"]' \in {"none", "sample"}
    BY <1>1, <2>2 DEF Wake, Alone, BusTypeOK, Task
  <2> QED  BY <1>1, <2>1, <2>3, <2>4, <2>5 DEF Wake, Alone, BusTypeOK, Task
<1>2. ASSUME NEW t \in Task, Lock(t)
      PROVE  Alone'
  <2>1. \A u \in Task : InCall(u)' <=> InCall(u) \/ u = t
    BY <1>2 DEF Lock, InCall, BusTypeOK
  <2>2. ~InCall(t)
    BY <1>2 DEF Lock, InCall
  <2>3. todo["sensors"]' \in {<<>>, <<Wire>>}
    BY <1>2, SensorsOnly DEF Lock, Alone, BusTypeOK, Task
  <2>4. CASE started = FALSE
    <3>1. t = "main"
      BY <1>2, <2>4 DEF Alone, Lock
    <3> QED  BY <1>2, <2>3, <2>4, <3>1 DEF Lock, Alone, Locks, BusTypeOK, Task
  <2>5. CASE started = TRUE /\ t = "sensors"
    BY <1>2, <2>1, <2>3, <2>5 DEF Lock, Alone, Locks, BusTypeOK, Task
  <2>6. CASE started = TRUE /\ t # "sensors"
    <3>1. owner = Nobody /\ owner' = t /\ t # "main"
      BY <1>2, <2>6 DEF Lock, Locks, MayPass, Alone
    <3>2. \A u \in Task \ {"sensors"} : ~InCall(u)
      BY <2>6, <3>1 DEF Alone, Nobody, Task
    <3> QED  BY <1>2, <2>1, <2>3, <2>6, <3>1, <3>2 DEF Lock, Alone, BusTypeOK, Task
  <2> QED  BY <2>4, <2>5, <2>6 DEF BusTypeOK
<1>3. ASSUME NEW t \in Task, Block(t)
      PROVE  Alone'
  <2>1. \A u \in Task : InCall(u)' <=> InCall(u)
    BY <1>3 DEF Block, InCall, BusTypeOK
  <2>2. started = TRUE /\ t # "main"
    BY <1>3 DEF Block, MayPass, Locks, Alone, BusTypeOK
  <2> QED  BY <1>3, <2>1, <2>2 DEF Block, Alone, BusTypeOK, Task
<1>4. ASSUME NEW t \in Task, Select(t)
      PROVE  Alone'
  <2>1. \A u \in Task : InCall(u)' <=> InCall(u)
    BY <1>4 DEF Select, InCall, BusTypeOK
  <2>2. started = FALSE => t = "main"
    BY <1>4 DEF Select, Alone
  <2>3. started = TRUE => t # "main"
    BY <1>4 DEF Select, Alone
  <2> QED  BY <1>4, <2>1, <2>2, <2>3 DEF Select, Alone, BusTypeOK, Task
<1>5. ASSUME NEW t \in Task, Transfer(t)
      PROVE  Alone'
  <2>1. \A u \in Task : InCall(u)' <=> InCall(u)
    BY <1>5 DEF Transfer, InCall, BusTypeOK
  <2>2. started = FALSE => t = "main"
    BY <1>5 DEF Transfer, Alone
  <2>3. started = TRUE => t # "main"
    BY <1>5 DEF Transfer, Alone
  <2>4. Tail(<<Wire>>) = <<>>
    OBVIOUS
  <2>5. todo["sensors"]' \in {<<>>, <<Wire>>}
    <3>1. CASE t = "sensors"
      <4>1. todo["sensors"] = <<Wire>>
        BY <1>5, <3>1 DEF Transfer, Alone, Listening
      <4> QED  BY <1>5, <2>4, <3>1, <4>1 DEF Transfer, BusTypeOK
    <3>2. CASE t # "sensors"
      BY <1>5, <3>2 DEF Transfer, Alone, BusTypeOK, Task
    <3> QED  BY <3>1, <3>2
  <2> QED  BY <1>5, <2>1, <2>2, <2>3, <2>5 DEF Transfer, Alone, BusTypeOK, Task
<1>6. ASSUME NEW t \in Task, Unlock(t)
      PROVE  Alone'
  <2>1. PICK call \in NextCalls(job[t]) :
          /\ job' = [job EXCEPT ![t] = call]
          /\ at' = [u \in Task |-> IF u = t THEN IF call = "none" THEN "idle" ELSE "entering"
                                   ELSE IF u \in Released(t) THEN "entering" ELSE at[u]]
          /\ started' = (started \/ call = "none")
    BY <1>6 DEF Unlock
  <2>2. \A u \in Task : InCall(u)' <=> InCall(u) /\ u # t
    BY <1>6, <2>1 DEF InCall, Released, Waiting
  <2>3. todo["sensors"]' \in {<<>>, <<Wire>>}
    BY <1>6 DEF Unlock, Alone
  <2>4. job["sensors"]' \in {"none", "sample"}
    <3>1. CASE t = "sensors"
      BY <2>1, <3>1, SensorsOnly DEF Alone, BusTypeOK, Task
    <3>2. CASE t # "sensors"
      BY <2>1, <3>2 DEF Alone, BusTypeOK, Task
    <3> QED  BY <3>1, <3>2
  <2>5. CASE started = FALSE
    <3>1. t = "main" /\ owner = Nobody /\ owner' = Nobody
      BY <1>6, <2>5 DEF Unlock, Alone
    <3>2. \A u \in Task \ {"main"} : at'[u] = "idle"
      BY <2>1, <2>5, <3>1 DEF Alone, Released, Nobody
    <3>3. \A u \in Task \ {"main"} : ~InCall(u)'
      BY <3>2 DEF InCall
    <3>4. CASE call = "none"
      <4>1. at'["main"] = "idle" /\ started' = TRUE
        BY <2>1, <3>1, <3>4
      <4>2. ~InCall("main")'
        BY <4>1 DEF InCall
      <4> QED  BY <2>3, <2>4, <3>1, <3>3, <4>1, <4>2 DEF Alone, Nobody, Task
    <3>5. CASE call # "none"
      <4>1. started' = FALSE
        BY <2>1, <2>5, <3>5
      <4> QED  BY <2>3, <2>4, <3>1, <3>2, <4>1 DEF Alone, Nobody
    <3> QED  BY <3>4, <3>5
  <2>6. CASE started = TRUE
    <3>1. t # "main" /\ started' = TRUE
      BY <1>6, <2>1, <2>6 DEF Unlock, Alone
    <3>2. at'["main"] = "idle"
      BY <2>1, <2>6, <3>1 DEF Alone, Released, Waiting, Task
    <3>3. CASE t = "sensors"
      <4>1. owner' = owner
        BY <1>6, <3>3 DEF Unlock, Alone
      <4> QED  BY <2>2, <2>3, <2>4, <2>6, <3>1, <3>2, <3>3, <4>1 DEF Alone
    <3>4. CASE t # "sensors"
      <4>1. owner = t /\ owner' = Nobody
        BY <1>6, <2>6, <3>4 DEF Unlock, Alone, InCall
      <4>2. \A u \in Task \ {"sensors"} : ~InCall(u)'
        BY <2>2, <2>6, <4>1 DEF Alone
      <4>3. \A u \in Task \ {"sensors"} : owner' # u
        BY <4>1 DEF Nobody, Task
      <4> QED  BY <2>3, <2>4, <3>1, <3>2, <4>1, <4>2, <4>3 DEF Alone, Nobody
    <3> QED  BY <3>3, <3>4
  <2> QED  BY <2>5, <2>6 DEF BusTypeOK
<1>7. CASE UNCHANGED vars
  BY <1>7 DEF vars, Alone, InCall
<1> QED  BY <1>1, <1>2, <1>3, <1>4, <1>5, <1>6, <1>7 DEF Next, Step

\* A waiting control task is not left waiting by a release.
LEMMA TurnNext ==
    ASSUME BusTypeOK, Alone, Turn, [Next]_vars
    PROVE  Turn'
<1>1. ASSUME NEW t \in Task, NEW call \in FirstCalls[t], Wake(t, call)
      PROVE  Turn'
  BY <1>1 DEF Wake, Turn, BusTypeOK, Task
<1>2. ASSUME NEW t \in Task, Lock(t)
      PROVE  Turn'
  BY <1>2 DEF Lock, Turn, BusTypeOK, Task, Nobody
<1>3. ASSUME NEW t \in Task, Block(t)
      PROVE  Turn'
  BY <1>3 DEF Block, MayPass, Turn, BusTypeOK, Task
<1>4. ASSUME NEW t \in Task, Select(t)
      PROVE  Turn'
  BY <1>4 DEF Select, Turn, BusTypeOK, Task
<1>5. ASSUME NEW t \in Task, Transfer(t)
      PROVE  Turn'
  BY <1>5 DEF Transfer, Turn, BusTypeOK, Task
<1>6. ASSUME NEW t \in Task, Unlock(t)
      PROVE  Turn'
  <2>1. PICK call \in NextCalls(job[t]) :
          at' = [u \in Task |-> IF u = t THEN IF call = "none" THEN "idle" ELSE "entering"
                                ELSE IF u \in Released(t) THEN "entering" ELSE at[u]]
    BY <1>6 DEF Unlock
  <2>2. SUFFICES ASSUME at'["control"] = "blocked"
                 PROVE  owner' # Nobody
    BY DEF Turn
  <2>3. at["control"] = "blocked" /\ "control" \notin Released(t)
    BY <2>1, <2>2 DEF Task
  <2>4. \A w \in Task : Priority[w] <= Priority["control"]
    BY DEF Priority, Task
  <2>5. "control" \in Waiting /\ \A w \in Waiting : w \in Task
    BY <2>3 DEF Waiting, Task
  <2>6. t # owner
    BY <2>3, <2>4, <2>5 DEF Released
  <2> QED  BY <1>6, <2>3, <2>6 DEF Unlock, Turn
<1>7. CASE UNCHANGED vars
  BY <1>7 DEF vars, Turn
<1> QED  BY <1>1, <1>2, <1>3, <1>4, <1>5, <1>6, <1>7 DEF Next, Step

------------------------------------------------------------------------------
(* One device at a time.                                                   *)

\* Where a transfer goes, and that the camera's moving transfers are the camera's.
LEMMA Transfers ==
    ASSUME NEW x \in Exchange
    PROVE  /\ x # Wire => x.dev \in Dev
           /\ Wire.dev \notin Dev
           /\ x \in {CameraRegs, Burst, Scan, Restart} <=> x.dev = "camera"
BY DEF Exchange, CameraRegs, LoraRegs, Nrf24Regs, Burst, Scan, Restart, Wire, Dev

\* A chip select is asserted by the task in that transfer and by no other.
LEMMA ListeningNext ==
    ASSUME BusTypeOK, Alone, Listening, [Next]_vars
    PROVE  Listening'
<1> USE DEF BusTypeOK
<1>1. ASSUME NEW t \in Task, NEW call \in FirstCalls[t], Wake(t, call)
      PROVE  Listening'
  <2>1. \A u \in Task : at'[u] = "selected" <=> at[u] = "selected"
    BY <1>1 DEF Wake
  <2>2. todo' = todo /\ low' = low /\ burst' = burst
    BY <1>1 DEF Wake
  <2> QED  BY <2>1, <2>2 DEF Listening
<1>2. ASSUME NEW t \in Task, Lock(t)
      PROVE  Listening'
  <2>1. \A u \in Task : at'[u] = "selected" <=> at[u] = "selected"
    BY <1>2 DEF Lock
  <2>2. \A u \in Task : at[u] = "selected" => todo'[u] = todo[u]
    BY <1>2 DEF Lock
  <2>3. low' = low /\ burst' = burst
    BY <1>2 DEF Lock
  <2> QED  BY <2>1, <2>2, <2>3 DEF Listening
<1>3. ASSUME NEW t \in Task, Block(t)
      PROVE  Listening'
  <2>1. \A u \in Task : at'[u] = "selected" <=> at[u] = "selected"
    BY <1>3 DEF Block
  <2>2. todo' = todo /\ low' = low /\ burst' = burst
    BY <1>3 DEF Block
  <2> QED  BY <2>1, <2>2 DEF Listening
<1>4. ASSUME NEW t \in Task, Select(t)
      PROVE  Listening'
  <2>1. \A u \in Task : at'[u] = "selected" <=> at[u] = "selected" \/ u = t
    BY <1>4 DEF Select
  <2>2. todo' = todo /\ todo[t] # <<>>
    BY <1>4 DEF Select
  <2>3. low' = low \cup ({Head(todo[t]).dev} \cap Dev)
    BY <1>4 DEF Select
  <2>4. burst' = TRUE => burst = TRUE \/ Head(todo[t]) \in {Burst, Scan}
    BY <1>4 DEF Select
  <2>5. \A u \in Task : at'[u] = "selected" => todo'[u] # <<>>
    BY <2>1, <2>2 DEF Listening
  <2>6. \A u \in Task : at'[u] = "selected" /\ Head(todo'[u]).dev \in Dev
          => Head(todo'[u]).dev \in low'
    BY <2>1, <2>2, <2>3 DEF Listening
  <2>7. \A d \in low' : \E u \in Task : at'[u] = "selected" /\ Head(todo'[u]).dev = d
    BY <2>1, <2>2, <2>3 DEF Listening
  <2>8. burst' = TRUE => \E u \in Task : at'[u] = "selected" /\ Head(todo'[u]) \in {Burst, Scan}
    BY <2>1, <2>2, <2>4 DEF Listening
  <2> QED  BY <2>5, <2>6, <2>7, <2>8 DEF Listening
<1>5. ASSUME NEW t \in Task, Transfer(t)
      PROVE  Listening'
  <2> DEFINE x == Head(todo[t])
  <2>1. \A u \in Task : at'[u] = "selected" <=> at[u] = "selected" /\ u # t
    BY <1>5 DEF Transfer
  <2>2. \A u \in Task : u # t => todo'[u] = todo[u]
    BY <1>5 DEF Transfer
  <2>3. low' = low \ {x.dev}
    BY <1>5 DEF Transfer, Deselected
  <2>4. at[t] = "selected" /\ todo[t] # <<>> /\ x \in Exchange
    <3>1. at[t] = "selected" /\ todo[t] # <<>>
      BY <1>5 DEF Transfer, Listening
    <3>2. todo[t] \in Seq(Exchange)
      OBVIOUS
    <3> QED  BY <3>1, <3>2
  <2>5. burst' = TRUE => burst = TRUE /\ "camera" \in low'
    BY <1>5 DEF Transfer
  <2> HIDE DEF x
  <2>6. ASSUME NEW u \in Task, u # t, at[u] = "selected", Head(todo[u]).dev \in Dev
        PROVE  Head(todo[u]).dev # x.dev
    <3>1. u # "sensors"
      BY <2>6, Transfers DEF Alone, Listening, Exchange
    <3>2. t = "sensors"
      BY <2>4, <2>6, <3>1, Apart DEF InCall
    <3>3. x = Wire
      <4>1. todo[t] = <<Wire>>
        BY <2>4, <3>2 DEF Alone
      <4> QED  BY <4>1 DEF x
    <3> QED  BY <2>6, <3>3, Transfers DEF Exchange
  <2>7. \A u \in Task : at'[u] = "selected" => todo'[u] # <<>>
    BY <2>1, <2>2 DEF Listening
  <2>8. \A u \in Task : at'[u] = "selected" /\ Head(todo'[u]).dev \in Dev
          => Head(todo'[u]).dev \in low'
    BY <2>1, <2>2, <2>3, <2>6 DEF Listening
  <2>9. \A d \in low' : \E u \in Task : at'[u] = "selected" /\ Head(todo'[u]).dev = d
    <3>1. SUFFICES ASSUME NEW d \in low'
                   PROVE  \E u \in Task : at'[u] = "selected" /\ Head(todo'[u]).dev = d
      OBVIOUS
    <3>2. d \in low /\ d # x.dev
      BY <2>3, <3>1
    <3>3. PICK u \in Task : at[u] = "selected" /\ Head(todo[u]).dev = d
      BY <3>2 DEF Listening
    <3>4. u # t
      BY <3>2, <3>3 DEF x
    <3> QED  BY <2>1, <2>2, <3>3, <3>4
  <2>10. burst' = TRUE => \E u \in Task : at'[u] = "selected" /\ Head(todo'[u]) \in {Burst, Scan}
    <3>1. SUFFICES ASSUME burst' = TRUE
                   PROVE  \E u \in Task : at'[u] = "selected" /\ Head(todo'[u]) \in {Burst, Scan}
      OBVIOUS
    <3>2. PICK u \in Task : at[u] = "selected" /\ Head(todo[u]) \in {Burst, Scan}
      BY <2>5, <3>1 DEF Listening
    <3>3. Head(todo[u]).dev = "camera"
      BY <3>2 DEF Burst, Scan
    <3>4. u # t
      BY <2>3, <2>5, <3>1, <3>3 DEF x
    <3> QED  BY <2>1, <2>2, <3>2, <3>4
  <2> QED  BY <2>7, <2>8, <2>9, <2>10 DEF Listening
<1>6. ASSUME NEW t \in Task, Unlock(t)
      PROVE  Listening'
  <2>1. PICK call \in NextCalls(job[t]) :
          at' = [u \in Task |-> IF u = t THEN IF call = "none" THEN "idle" ELSE "entering"
                                ELSE IF u \in Released(t) THEN "entering" ELSE at[u]]
    BY <1>6 DEF Unlock
  <2>2. at[t] = "inside" /\ todo' = todo /\ low' = low /\ burst' = burst
    BY <1>6 DEF Unlock
  <2>3. \A u \in Task : at'[u] = "selected" <=> at[u] = "selected"
    BY <2>1, <2>2 DEF Released, Waiting
  <2> QED  BY <2>2, <2>3 DEF Listening
<1>7. CASE UNCHANGED vars
  BY <1>7 DEF vars, Listening
<1> QED  BY <1>1, <1>2, <1>3, <1>4, <1>5, <1>6, <1>7 DEF Next, Step

------------------------------------------------------------------------------
(* The camera's read pointer.                                              *)

\* The moving transfers are told from the others, and from each other.
LEMMA Distinct ==
    /\ {CameraRegs, LoraRegs, Nrf24Regs, Wire} \cap {Burst, Scan, Restart} = {}
    /\ Burst # Scan /\ Burst # Restart /\ Scan # Restart
BY DEF CameraRegs, LoraRegs, Nrf24Regs, Burst, Scan, Restart, Wire

\* A call that takes the lock sets out as planned.
LEMMA SetsOut ==
    ASSUME BusTypeOK, frameBytes > 0 => fifo = frameRead, NEW call \in Call
    PROVE  OnPlan(call, Script(call))
<1>1. CASE Reading(call)
  <2>1. Script(call) = <<Burst>>
    BY <1>1 DEF Reading, Script, CameraCalls, LoraCalls, Nrf24Calls
  <2>2. frameBytes > 0
    BY <1>1 DEF Reading, Remaining, BusTypeOK
  <2> QED  BY <1>1, <2>1, <2>2 DEF OnPlan, Reading, Rewinding, Finishing, Moves
<1>2. CASE Rewinding(call)
  <2>1. Script(call) = <<Restart>>
    BY <1>2 DEF Rewinding, Script, CameraCalls, LoraCalls, Nrf24Calls
  <2> QED  BY <1>2, <2>1 DEF OnPlan, Reading, Rewinding, Finishing, Moves
<1>3. CASE Finishing(call)
  <2>1. Script(call) = <<CameraRegs, Scan, Restart>>
    BY <1>3 DEF Finishing, Script, CameraCalls, LoraCalls, Nrf24Calls
  <2> QED  BY <1>3, <2>1 DEF OnPlan, Reading, Rewinding, Finishing, Moves
<1>4. CASE ~Moves(call)
  <2> DEFINE a == <<CameraRegs, Wire, CameraRegs>>
             b == <<CameraRegs>>
             c == <<LoraRegs>>
             d == <<Nrf24Regs>>
             e == <<Wire>>
             z == <<>>
  <2>1. Script(call) \in {a, b, c, d, e, z}
    <3> HIDE DEF a, b, c, d, e, z
    <3>1. CASE call \in LoraCalls
      BY <3>1 DEF Script, CameraCalls, LoraCalls, Nrf24Calls, c
    <3>2. CASE call \in Nrf24Calls
      BY <3>2 DEF Script, CameraCalls, LoraCalls, Nrf24Calls, d
    <3>3. CASE call \in {"sample", "none"}
      BY <3>3 DEF Script, CameraCalls, LoraCalls, Nrf24Calls, e, z
    <3>4. CASE call \in CameraCalls
      BY <1>4, <3>4 DEF Script, CameraCalls, LoraCalls, Nrf24Calls, a, b, e, z, Moves,
                        Reading, Rewinding, Finishing
    <3> QED  BY <3>1, <3>2, <3>3, <3>4 DEF Call
  <2>2. \A left \in {a, b, c, d, e, z} :
           \A i \in DOMAIN left : left[i] \in {CameraRegs, LoraRegs, Nrf24Regs, Wire}
    OBVIOUS
  <2> HIDE DEF a, b, c, d, e, z
  <2>3. \A i \in DOMAIN Script(call) : Script(call)[i] \notin {Burst, Scan, Restart}
    BY <2>1, <2>2, Distinct
  <2> QED  BY <1>4, <2>3 DEF OnPlan, Moves
<1> QED  BY <1>1, <1>2, <1>3, <1>4 DEF Moves

\* The effect of a call that moved the pointer is where the pointer now is; a call that
\* did not move it leaves the driver's count, or begins without a frame.
LEMMA EffectInStep ==
    ASSUME BusTypeOK, NEW call \in Call, Effect(call), OnPlan(call, <<>>),
           Capturing => frameBytes = 0 /\ frameRead = 0,
           Moves(call) \/ (frameBytes > 0 => fifo = frameRead)
    PROVE  /\ Capturing' => frameBytes' = 0 /\ frameRead' = 0
           /\ frameBytes' > 0 => fifo = frameRead'
<1>0. <<>> # <<Burst>> /\ <<>> # <<Restart>> /\ <<>> # <<Scan, Restart>>
      /\ <<>> # <<CameraRegs, Scan, Restart>>
  OBVIOUS
<1>1. CASE Finishing(call)
  <2>1. CapturePoll
    BY <1>1 DEF Finishing, Effect
  <2>2. fifo = 0
    BY <1>0, <1>1 DEF OnPlan
  <2> QED  BY <1>1, <2>1, <2>2 DEF Finishing, CapturePoll, Capturing
<1>2. CASE Rewinding(call)
  <2>1. Rewind
    BY <1>2 DEF Rewinding, Effect
  <2>2. fifo = 0
    BY <1>0, <1>2 DEF OnPlan
  <2> QED  BY <2>1, <2>2 DEF Rewind, Capturing
<1>3. CASE Reading(call)
  <2>1. ReadChunk
    BY <1>3 DEF Reading, Effect
  <2>2. fifo = frameRead + 1
    BY <1>0, <1>3 DEF OnPlan
  <2> QED  BY <2>1, <2>2 DEF ReadChunk, Capturing
<1>4. CASE ~Moves(call)
  <2>1. frameBytes > 0 => fifo = frameRead
    BY <1>4
  <2>2. CASE UNCHANGED cameraVars
    BY <2>1, <2>2 DEF cameraVars, Capturing
  <2>3. CASE call = "ov2640_poll" /\ Capturing /\ CapturePoll /\ camState' = "FAILED"
    BY <2>3 DEF CapturePoll, Capturing
  <2>4. CASE CaptureStart
    BY <2>4 DEF CaptureStart
  <2> QED  BY <1>4, <2>2, <2>3, <2>4 DEF Effect, Moves, Reading, Rewinding, Finishing
<1> QED  BY <1>1, <1>2, <1>3, <1>4 DEF Moves

\* The sensors' calls have nothing to do with the pointer.
LEMMA SensorsStill ==
    ASSUME Alone
    PROVE  ~Moves(job["sensors"]) /\ OnPlan(job["sensors"], todo["sensors"])
<1>1. ~Reading(job["sensors"]) /\ ~Rewinding(job["sensors"]) /\ ~Finishing(job["sensors"])
  BY DEF Alone, Reading, Rewinding, Finishing
<1>2. \A i \in DOMAIN todo["sensors"] : todo["sensors"][i] \notin {Burst, Scan, Restart}
  <2>1. \A left \in {<<>>, <<Wire>>} : \A i \in DOMAIN left : left[i] = Wire
    OBVIOUS
  <2> QED  BY <2>1, Distinct DEF Alone
<1> QED  BY <1>1, <1>2 DEF Moves, OnPlan

\* What a step that leaves the driver, the pointer and the calls alone leaves agreed.
LEMMA PointerStill ==
    ASSUME BusTypeOK, Pointer, UNCHANGED <<cameraVars, fifo>>,
           \A u \in Task : InCall(u)' <=> InCall(u),
           \A u \in Task : InCall(u) => job'[u] = job[u] /\ todo'[u] = todo[u]
    PROVE  Pointer'
<1> USE DEF OnPlan, Moves, Reading, Rewinding, Finishing, Capturing
<1>1. (Remaining > 0)' <=> Remaining > 0
  BY DEF Remaining, FrameReady, cameraVars
<1>2. CanRewind' <=> CanRewind
  BY DEF CanRewind, cameraVars
<1>3. camState' = camState /\ frameBytes' = frameBytes /\ frameRead' = frameRead /\ fifo' = fifo
  BY DEF cameraVars
<1>4. ASSUME NEW u \in Task, InCall(u)
      PROVE  OnPlan(job[u], todo[u])' /\ (Moves(job[u])' <=> Moves(job[u]))
  <2>1. OnPlan(job[u], todo[u]) /\ job'[u] = job[u] /\ todo'[u] = todo[u]
    BY <1>4 DEF Pointer
  <2> QED  BY <1>1, <1>2, <1>3, <2>1
<1>5. (Capturing => frameBytes = 0 /\ frameRead = 0)'
  BY <1>3 DEF Pointer
<1>6. \A u \in Task : InCall(u)' => OnPlan(job[u], todo[u])'
  BY <1>4
<1>7. (\E u \in Task : InCall(u)' /\ Moves(job[u])') \/ (frameBytes' > 0 => fifo' = frameRead')
  <2> HIDE DEF OnPlan, Moves
  <2> QED  BY <1>3, <1>4 DEF Pointer
<1> HIDE DEF OnPlan, Moves, Reading, Rewinding, Finishing, Capturing
<1> QED  BY <1>5, <1>6, <1>7 DEF Pointer

\* The same of the state after a step.
LEMMA SensorsStillNext ==
    ASSUME Alone'
    PROVE  ~Moves(job["sensors"])' /\ OnPlan(job["sensors"], todo["sensors"])'
<1>1. ~Reading(job["sensors"])' /\ ~Rewinding(job["sensors"])' /\ ~Finishing(job["sensors"])'
  BY DEF Alone, Reading, Rewinding, Finishing
<1>2. \A i \in DOMAIN todo'["sensors"] : todo'["sensors"][i] \notin {Burst, Scan, Restart}
  <2>1. \A left \in {<<>>, <<Wire>>} : \A i \in DOMAIN left : left[i] = Wire
    OBVIOUS
  <2> QED  BY <2>1, Distinct DEF Alone
<1> QED  BY <1>1, <1>2 DEF Moves, OnPlan

\* Outside its own transfers nothing moves the pointer: the bus carries one call, and the
\* FIFO is in a burst only while that call reads it.
LEMMA PointerTransfer ==
    ASSUME BusTypeOK, Alone, Alone', Listening, Pointer, NEW t \in Task, Transfer(t)
    PROVE  Pointer'
<1> DEFINE x == Head(todo[t])
           left == todo[t]
<1>1. at[t] = "selected" /\ left # <<>> /\ left \in Seq(Exchange) /\ x \in Exchange
  <2>1. at[t] = "selected" /\ left # <<>> /\ left \in Seq(Exchange)
    BY DEF Transfer, Listening, BusTypeOK
  <2> QED  BY <2>1
<1>2. InCall(t) /\ OnPlan(job[t], left)
  BY <1>1 DEF InCall, Pointer
<1>3. /\ camState' = camState /\ frameBytes' = frameBytes /\ frameRead' = frameRead
      /\ job' = job /\ UNCHANGED cameraVars
  BY DEF Transfer, cameraVars
<1>4. \A u \in Task : InCall(u)' <=> InCall(u)
  BY <1>1 DEF Transfer, InCall, BusTypeOK
<1>5. \A u \in Task : u # t => todo'[u] = todo[u]
  BY DEF Transfer, BusTypeOK
<1>6. todo'[t] = Tail(left) /\ fifo' \in Clocked(x)
  BY DEF Transfer, BusTypeOK
<1>7. t = "sensors" => left = <<Wire>>
  BY <1>1 DEF Alone
<1>8. (Capturing => frameBytes = 0 /\ frameRead = 0)'
  BY <1>3 DEF Pointer, Capturing
<1>9. \A c : /\ Reading(c)' <=> Reading(c)
             /\ Rewinding(c)' <=> Rewinding(c)
             /\ Finishing(c)' <=> Finishing(c)
  BY <1>3 DEF Reading, Rewinding, Finishing, Remaining, FrameReady, CanRewind, Capturing
<1>10. CASE ~Moves(job[t])
  <2>1. \A i \in DOMAIN left : left[i] \notin {Burst, Scan, Restart}
    BY <1>2, <1>10 DEF OnPlan
  <2>2. x \notin {Burst, Scan, Restart}
    BY <1>1, <2>1
  <2>3. x # Wire => burst = FALSE
    <3>1. SUFFICES ASSUME x # Wire, burst = TRUE
                   PROVE  FALSE
      BY DEF BusTypeOK
    <3>2. PICK u \in Task : at[u] = "selected" /\ Head(todo[u]) \in {Burst, Scan}
      BY <3>1 DEF Listening
    <3>3. u # "sensors"
      <4>1. u = "sensors" => todo[u] = <<Wire>>
        BY <3>2 DEF Listening, Alone
      <4>2. Head(<<Wire>>) = Wire
        OBVIOUS
      <4>3. Wire \notin {Burst, Scan}
        BY Distinct
      <4> QED  BY <3>2, <4>1, <4>2, <4>3
    <3>4. t # "sensors"
      BY <1>7, <3>1
    <3>5. u = t
      BY <1>2, <3>2, <3>3, <3>4, Apart DEF InCall
    <3> QED  BY <2>2, <3>2, <3>5
  <2>4. fifo' = fifo
    BY <1>6, <2>2, <2>3 DEF Clocked
  <2>5. todo'[t] \in Seq(Exchange) /\ \A i \in DOMAIN todo'[t] : todo'[t][i] \notin {Burst, Scan, Restart}
    <3>1. Len(Tail(left)) = Len(left) - 1 /\ \A i \in 1..(Len(left) - 1) : Tail(left)[i] = left[i + 1]
      BY <1>1
    <3> QED  BY <1>1, <1>6, <2>1, <3>1
  <2>6. ASSUME NEW u \in Task, InCall(u)
        PROVE  OnPlan(job[u], todo[u])' /\ (Moves(job[u])' <=> Moves(job[u]))
    <3>1. OnPlan(job[u], todo[u])
      BY <2>6 DEF Pointer
    <3>2. Moves(job[u])' <=> Moves(job[u])
      BY <1>3, <1>9 DEF Moves, Reading, Rewinding, Finishing, Remaining, FrameReady, CanRewind, Capturing
    <3>3. CASE u # t
      BY <1>3, <1>5, <2>4, <3>1, <3>3 DEF OnPlan, Moves, Reading, Rewinding, Finishing,
            Remaining, FrameReady, CanRewind, Capturing
    <3>4. CASE u = t
      <4>1. ~Reading(job[u])' /\ ~Rewinding(job[u])' /\ ~Finishing(job[u])'
        BY <1>10, <3>2, <3>4 DEF Moves
      <4> QED  BY <2>5, <3>4, <4>1, <3>2 DEF OnPlan
    <3> QED  BY <3>2, <3>3, <3>4
  <2> QED  BY <1>3, <1>4, <1>8, <2>4, <2>6 DEF Pointer
<1>11. CASE Moves(job[t])
  <2>1. t # "sensors"
    BY <1>11, SensorsStill
  <2>2. ASSUME NEW u \in Task, InCall(u)', u # t
        PROVE  OnPlan(job[u], todo[u])'
    <3>1. u = "sensors"
      BY <1>2, <1>4, <2>1, <2>2, Apart
    <3> QED  BY <3>1, SensorsStillNext
  <2>3. Moves(job[t])'
    BY <1>3, <1>11 DEF Moves, Reading, Rewinding, Finishing, Remaining, FrameReady, CanRewind, Capturing
  <2>4. OnPlan(job[t], todo[t])'
    <3>1. CASE Reading(job[t])
      <4>1. left = <<Burst>> /\ fifo = frameRead
        BY <1>1, <1>2, <3>1 DEF OnPlan
      <4>2. x = Burst /\ Tail(left) = <<>>
        BY <4>1
      <4>3. fifo' = frameRead + 1 /\ todo'[t] = <<>>
        BY <1>6, <4>1, <4>2, Distinct DEF Clocked
      <4>4. Reading(job[t])' /\ ~Rewinding(job[t])' /\ ~Finishing(job[t])'
        BY <1>3, <3>1 DEF Reading, Rewinding, Finishing, Remaining, FrameReady
      <4> QED  BY <1>3, <2>3, <4>3, <4>4 DEF OnPlan
    <3>2. CASE Rewinding(job[t])
      <4>1. left = <<Restart>>
        BY <1>1, <1>2, <3>2 DEF OnPlan
      <4>2. x = Restart /\ Tail(left) = <<>>
        BY <4>1
      <4>3. fifo' = 0 /\ todo'[t] = <<>>
        BY <1>6, <4>2, Distinct DEF Clocked
      <4>4. ~Reading(job[t])' /\ ~Finishing(job[t])'
        BY <1>3, <3>2 DEF Reading, Rewinding, Finishing
      <4> QED  BY <2>3, <4>3, <4>4 DEF OnPlan
    <3>3. CASE Finishing(job[t])
      <4>1. left \in {<<CameraRegs, Scan, Restart>>, <<Scan, Restart>>, <<Restart>>}
        BY <1>1, <1>2, <3>3 DEF OnPlan
      <4>2. ~Reading(job[t])' /\ ~Rewinding(job[t])'
        BY <1>3, <3>3 DEF Reading, Rewinding, Finishing
      <4>3. CASE left = <<Restart>>
        <5>1. x = Restart /\ Tail(left) = <<>>
          BY <4>3
        <5>2. fifo' = 0 /\ todo'[t] = <<>>
          BY <1>6, <5>1, Distinct DEF Clocked
        <5> QED  BY <2>3, <4>2, <5>2 DEF OnPlan
      <4>4. CASE left # <<Restart>>
        <5>1. Tail(<<CameraRegs, Scan, Restart>>) = <<Scan, Restart>>
              /\ Tail(<<Scan, Restart>>) = <<Restart>>
          OBVIOUS
        <5>2. todo'[t] \in {<<Scan, Restart>>, <<Restart>>}
          BY <1>6, <4>1, <4>4, <5>1
        <5> QED  BY <2>3, <4>2, <5>2 DEF OnPlan
      <4> QED  BY <4>3, <4>4
    <3> QED  BY <1>11, <3>1, <3>2, <3>3 DEF Moves
  <2> QED  BY <1>2, <1>4, <1>8, <2>2, <2>3, <2>4 DEF Pointer
<1> QED  BY <1>10, <1>11

\* Pointer and driver stay agreed whatever the tasks do.
LEMMA PointerNext ==
    ASSUME BusTypeOK, Alone, Alone', Listening, Pointer, [Next]_vars
    PROVE  Pointer'
<1>1. ASSUME NEW t \in Task, NEW call \in FirstCalls[t], Wake(t, call)
      PROVE  Pointer'
  <2>1. \A u \in Task : InCall(u)' <=> InCall(u)
    BY <1>1 DEF Wake, InCall, BusTypeOK
  <2>2. \A u \in Task : InCall(u) => job'[u] = job[u] /\ todo'[u] = todo[u]
    BY <1>1 DEF Wake, InCall, BusTypeOK
  <2>3. UNCHANGED <<cameraVars, fifo>>
    BY <1>1 DEF Wake
  <2> QED  BY <2>1, <2>2, <2>3, PointerStill
<1>2. ASSUME NEW t \in Task, Lock(t)
      PROVE  Pointer'
  <2>1. at[t] = "entering" /\ ~InCall(t) /\ UNCHANGED cameraVars /\ fifo' = fifo /\ job' = job
    BY <1>2 DEF Lock, InCall
  <2>2. \A u \in Task : InCall(u)' <=> InCall(u) \/ u = t
    BY <1>2 DEF Lock, InCall, BusTypeOK
  <2>3. \A u \in Task : u # t => todo'[u] = todo[u]
    BY <1>2 DEF Lock, BusTypeOK
  <2>4. todo'[t] = Script(job[t])
    BY <1>2 DEF Lock, BusTypeOK
  <2>5. /\ (Remaining > 0)' <=> Remaining > 0
        /\ CanRewind' <=> CanRewind
        /\ camState' = camState /\ frameBytes' = frameBytes /\ frameRead' = frameRead
    BY <2>1 DEF Remaining, FrameReady, CanRewind, cameraVars
  <2>6. (Capturing => frameBytes = 0 /\ frameRead = 0)'
    BY <2>5 DEF Pointer, Capturing
  <2>7. ASSUME NEW u \in Task, InCall(u)
        PROVE  OnPlan(job[u], todo[u])' /\ (Moves(job[u])' <=> Moves(job[u]))
    <3>1. u # t /\ OnPlan(job[u], todo[u]) /\ job'[u] = job[u] /\ todo'[u] = todo[u]
      BY <2>1, <2>3, <2>7 DEF Pointer
    <3> QED  BY <2>1, <2>5, <3>1 DEF OnPlan, Moves, Reading, Rewinding, Finishing, Capturing
  <2>8. CASE t = "sensors"
    <3>1. OnPlan(job[t], todo[t])'
      BY <2>8, SensorsStillNext
    <3> QED  BY <2>1, <2>2, <2>5, <2>6, <2>7, <3>1 DEF Pointer
  <2>9. CASE t # "sensors"
    <3>1. \A u \in Task \ {"sensors"} : ~InCall(u)
      <4>1. CASE started = TRUE
        BY <1>2, <2>9, <4>1 DEF Lock, MayPass, Locks, Alone, Nobody, Task
      <4>2. CASE started = FALSE
        BY <1>2, <2>1, <4>2 DEF Lock, Alone, InCall
      <4> QED  BY <4>1, <4>2 DEF BusTypeOK
    <3>2. frameBytes > 0 => fifo = frameRead
      <4>1. \A u \in Task : InCall(u) => ~Moves(job[u])
        BY <3>1, SensorsStill
      <4> QED  BY <4>1 DEF Pointer
    <3>3. OnPlan(job[t], Script(job[t]))
      BY <3>2, SetsOut DEF BusTypeOK
    <3>4. OnPlan(job[t], todo[t])' /\ (Moves(job[t])' <=> Moves(job[t]))
      BY <2>1, <2>4, <2>5, <3>3 DEF OnPlan, Moves, Reading, Rewinding, Finishing, Capturing
    <3> QED  BY <2>1, <2>2, <2>5, <2>6, <2>7, <3>2, <3>4 DEF Pointer
  <2> QED  BY <2>8, <2>9
<1>3. ASSUME NEW t \in Task, Block(t)
      PROVE  Pointer'
  <2>1. \A u \in Task : InCall(u)' <=> InCall(u)
    BY <1>3 DEF Block, InCall, BusTypeOK
  <2>2. job' = job /\ todo' = todo /\ UNCHANGED <<cameraVars, fifo>>
    BY <1>3 DEF Block
  <2> QED  BY <2>1, <2>2, PointerStill
<1>4. ASSUME NEW t \in Task, Select(t)
      PROVE  Pointer'
  <2>1. \A u \in Task : InCall(u)' <=> InCall(u)
    BY <1>4 DEF Select, InCall, BusTypeOK
  <2>2. job' = job /\ todo' = todo /\ UNCHANGED <<cameraVars, fifo>>
    BY <1>4 DEF Select
  <2> QED  BY <2>1, <2>2, PointerStill
<1>5. ASSUME NEW t \in Task, Transfer(t)
      PROVE  Pointer'
  BY <1>5, PointerTransfer
<1>6. ASSUME NEW t \in Task, Unlock(t)
      PROVE  Pointer'
  <2>1. PICK call \in NextCalls(job[t]) :
          /\ job' = [job EXCEPT ![t] = call]
          /\ at' = [u \in Task |-> IF u = t THEN IF call = "none" THEN "idle" ELSE "entering"
                                   ELSE IF u \in Released(t) THEN "entering" ELSE at[u]]
    BY <1>6 DEF Unlock
  <2>2. /\ at[t] = "inside" /\ todo[t] = <<>> /\ Effect(job[t])
        /\ todo' = todo /\ fifo' = fifo /\ InCall(t)
    BY <1>6 DEF Unlock, InCall
  <2>3. \A u \in Task : InCall(u)' <=> InCall(u) /\ u # t
    BY <2>1 DEF InCall, Released, Waiting
  <2>4. \A u \in Task : u # t => job'[u] = job[u]
    BY <2>1 DEF BusTypeOK
  <2>5. CASE t = "sensors"
    <3>1. UNCHANGED cameraVars
      <4>1. job[t] \in {"none", "sample"}
        BY <2>5 DEF Alone
      <4> QED  BY <2>2, <4>1 DEF Effect
    <3>2. /\ (Remaining > 0)' <=> Remaining > 0
          /\ CanRewind' <=> CanRewind
          /\ camState' = camState /\ frameBytes' = frameBytes /\ frameRead' = frameRead
      BY <3>1 DEF Remaining, FrameReady, CanRewind, cameraVars
    <3>3. ASSUME NEW u \in Task, InCall(u), u # t
          PROVE  OnPlan(job[u], todo[u])' /\ (Moves(job[u])' <=> Moves(job[u]))
      <4>1. OnPlan(job[u], todo[u]) /\ job'[u] = job[u] /\ todo'[u] = todo[u]
        BY <2>2, <2>4, <3>3 DEF Pointer
      <4> QED  BY <2>2, <3>2, <4>1 DEF OnPlan, Moves, Reading, Rewinding, Finishing, Capturing
    <3>4. (Capturing => frameBytes = 0 /\ frameRead = 0)'
      BY <3>2 DEF Pointer, Capturing
    <3>5. (\E u \in Task : InCall(u) /\ Moves(job[u]) /\ u # t) \/ (frameBytes > 0 => fifo = frameRead)
      BY <2>5, SensorsStill DEF Pointer
    <3> QED  BY <2>2, <2>3, <3>2, <3>3, <3>4, <3>5 DEF Pointer
  <2>6. CASE t # "sensors"
    <3>1. \A u \in Task \ {"sensors"} : InCall(u) => u = t
      BY <2>2, <2>6, Apart
    <3>2. OnPlan(job[t], <<>>)
      BY <2>2 DEF Pointer
    <3>3. Moves(job[t]) \/ (frameBytes > 0 => fifo = frameRead)
      BY <3>1, SensorsStill DEF Pointer
    <3>4. /\ Capturing' => frameBytes' = 0 /\ frameRead' = 0
          /\ frameBytes' > 0 => fifo' = frameRead'
      <4>1. Capturing => frameBytes = 0 /\ frameRead = 0
        BY DEF Pointer
      <4>2. job[t] \in Call
        BY DEF BusTypeOK
      <4> QED  BY <2>2, <3>2, <3>3, <4>1, <4>2, EffectInStep
    <3>5. \A u \in Task : InCall(u)' => u = "sensors"
      BY <2>3, <3>1
    <3>6. \A u \in Task : InCall(u)' => OnPlan(job[u], todo[u])'
      BY <3>5, SensorsStillNext
    <3> QED  BY <3>4, <3>6 DEF Pointer
  <2> QED  BY <2>5, <2>6
<1>7. CASE UNCHANGED vars
  <2>1. \A u \in Task : InCall(u)' <=> InCall(u)
    BY <1>7 DEF vars, InCall
  <2>2. job' = job /\ todo' = todo /\ UNCHANGED <<cameraVars, fifo>>
    BY <1>7 DEF vars
  <2> QED  BY <2>1, <2>2, PointerStill
<1> QED  BY <1>1, <1>2, <1>3, <1>4, <1>5, <1>6, <1>7 DEF Next, Step

------------------------------------------------------------------------------
(* The theorems.                                                           *)

\* Before main has made its first call nothing is selected and nobody waits.
LEMMA BusInvInit == Init => BusInv
<1> SUFFICES ASSUME Init PROVE BusInv
  OBVIOUS
<1>1. BusTypeOK
  BY TypeInit
<1>2. at["main"] = "entering" /\ \A t \in Task \ {"main"} : at[t] = "idle"
  BY DEF Init, Task
<1>3. \A t \in Task : ~InCall(t) /\ at[t] # "selected"
  BY DEF Init, InCall
<1>4. Alone
  BY <1>2 DEF Init, Alone, Nobody, Task
<1>5. Turn
  BY <1>2 DEF Turn, Task
<1>6. Listening
  BY <1>3 DEF Listening, Init
<1>7. Pointer
  BY <1>3 DEF Pointer, Init, CameraInit, Capturing
<1> QED  BY <1>1, <1>4, <1>5, <1>6, <1>7 DEF BusInv

\* The invariant is inductive.
THEOREM BusInvariant == Spec => []BusInv
<1>1. Init => BusInv
  BY BusInvInit
<1>2. BusInv /\ [Next]_vars => BusInv'
  BY TypeNext, AloneNext, TurnNext, ListeningNext, PointerNext DEF BusInv
<1> QED  BY <1>1, <1>2, PTL DEF Spec

\* One device listens on spi3 at a time, the one being addressed, and nobody pauses with
\* the lock: spi_select and spi_bus_lock under preemption.
THEOREM OneDeviceListens == Spec => []OneSelected
<1>1. BusInv => OneSelected
  <2> SUFFICES ASSUME BusInv PROVE OneSelected
    OBVIOUS
  <2> USE DEF BusInv
  <2>1. ASSUME NEW t \in Task, at[t] = "selected", Head(todo[t]) # Wire
        PROVE  low = {Head(todo[t]).dev}
    <3>1. t # "sensors"
      <4>1. t = "sensors" => todo[t] = <<Wire>>
        BY <2>1 DEF Listening, Alone
      <4>2. Head(<<Wire>>) = Wire
        OBVIOUS
      <4> QED  BY <2>1, <4>1, <4>2
    <3>2. Head(todo[t]) \in Exchange
      <4>1. todo[t] \in Seq(Exchange) /\ todo[t] # <<>>
        BY <2>1 DEF Listening, BusTypeOK
      <4> QED  BY <4>1
    <3>3. Head(todo[t]).dev \in low
      BY <2>1, <3>2, Transfers DEF Listening
    <3>4. ASSUME NEW d \in low
          PROVE  d = Head(todo[t]).dev
      <4>1. PICK u \in Task : at[u] = "selected" /\ Head(todo[u]).dev = d
        BY DEF Listening
      <4>2. u # "sensors"
        <5>1. u = "sensors" => todo[u] = <<Wire>>
          BY <4>1 DEF Listening, Alone
        <5>2. Head(<<Wire>>) = Wire /\ Wire \in Exchange
          BY DEF Exchange
        <5>3. Wire.dev \notin Dev /\ d \in Dev
          BY <5>2, Transfers DEF BusTypeOK
        <5> QED  BY <4>1, <5>1, <5>2, <5>3
      <4>3. u = t
        BY <2>1, <3>1, <4>1, <4>2, Apart DEF InCall
      <4> QED  BY <4>1, <4>3
    <3> QED  BY <3>3, <3>4
  <2>2. low # {} => \E t \in Task : at[t] = "selected"
    BY DEF Listening
  <2>3. owner # Nobody => InCall(owner)
    BY DEF Alone, BusTypeOK
  <2> QED  BY <2>1, <2>2, <2>3 DEF OneSelected
<1> QED  BY <1>1, BusInvariant, PTL

\* The camera's FIFO and its driver agree on what has been read, whatever else the bus
\* carries: read_chunk_locked's frame_read against the arduchip's pointer.
THEOREM FramePointerAgrees == Spec => []FrameInStep
<1>1. BusInv => FrameInStep
  <2> SUFFICES ASSUME BusInv, frameBytes > 0,
                      \A t \in Task : InCall(t) => job[t] \notin CameraCalls
               PROVE  fifo = frameRead
    BY DEF FrameInStep
  <2>1. \A t \in Task : InCall(t) => ~Moves(job[t])
    BY DEF Moves, Reading, Rewinding, Finishing, CameraCalls
  <2> QED  BY <2>1 DEF BusInv, Pointer
<1> QED  BY <1>1, BusInvariant, PTL

\* The priority the lock's holder inherits lets nobody else run while the control task
\* waits for it: one driver call is all a control cycle waits for.
THEOREM ControlWaitsForOne == Spec => ControlFirst
<1>1. ASSUME BusInv, [Next]_vars, at["control"] = "blocked",
             NEW u \in Task, Ready(u), u # owner
      PROVE  at'[u] = at[u] /\ todo'[u] = todo[u]
  <2>0. BusTypeOK /\ Alone /\ Turn
    BY <1>1 DEF BusInv
  <2>1. owner \in Task /\ owner # Nobody
    BY <1>1, <2>0 DEF Turn, BusTypeOK
  <2>2. started = TRUE
    <3>1. started # FALSE
      BY <2>0, <2>1 DEF Alone
    <3> QED  BY <2>0, <3>1 DEF BusTypeOK
  <2>3. InCall(owner) /\ Ready(owner)
    <3>1. InCall(owner)
      BY <2>0, <2>1, <2>2 DEF Alone
    <3> QED  BY <3>1 DEF InCall, Ready
  <2>4. "control" \in RunsFor(owner)
    BY <1>1, <2>1 DEF RunsFor, Waiting, Task
  <2>5. RunsFor(u) = {u}
    BY <1>1 DEF RunsFor
  <2>6. ~Runs(u)
    <3>1. ~(Priority["control"] < Priority[u])
      BY DEF Priority, Task
    <3>2. ~Outranks(u, owner)
      BY <2>4, <2>5, <3>1 DEF Outranks
    <3> QED  BY <1>1, <2>1, <2>3, <3>2 DEF Runs
  <2>7. ASSUME NEW t \in Task, NEW call \in FirstCalls[t], Wake(t, call)
        PROVE  at'[u] = at[u] /\ todo'[u] = todo[u]
    BY <1>1, <2>0, <2>7 DEF Wake, Ready, BusTypeOK
  <2>8. ASSUME NEW t \in Task, Lock(t) \/ Block(t) \/ Select(t) \/ Transfer(t)
        PROVE  at'[u] = at[u] /\ todo'[u] = todo[u]
    <3>1. t # u
      BY <2>6, <2>8 DEF Lock, Block, Select, Transfer
    <3>2. at \in [Task -> Phase] /\ todo \in [Task -> Seq(Exchange)]
      BY <2>0 DEF BusTypeOK
    <3> QED  BY <2>8, <3>1, <3>2 DEF Lock, Block, Select, Transfer
  <2>9. ASSUME NEW t \in Task, Unlock(t)
        PROVE  at'[u] = at[u] /\ todo'[u] = todo[u]
    <3>1. t # u
      BY <2>6, <2>9 DEF Unlock
    <3>2. u \notin Released(t)
      BY <1>1 DEF Released, Waiting, Ready
    <3> QED  BY <2>9, <3>1, <3>2 DEF Unlock
  <2>10. CASE UNCHANGED vars
    BY <2>10 DEF vars
  <2> QED  BY <1>1, <2>7, <2>8, <2>9, <2>10 DEF Next, Step
<1>2. BusInv /\ [Next]_vars =>
        [at["control"] = "blocked" =>
           \A t \in Task : Ready(t) /\ t # owner => at'[t] = at[t] /\ todo'[t] = todo[t]]_vars
  BY <1>1
<1> QED  BY <1>2, BusInvariant, PTL DEF Spec, ControlFirst
==============================================================================
