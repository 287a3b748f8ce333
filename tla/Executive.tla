------------------------------ MODULE Executive ------------------------------
(***************************************************************************)
(* fsw/src/executive.cpp: one control cycle of the flight software.  Each  *)
(* cycle takes the readings, at most one ground command and the time since *)
(* the previous cycle, and runs to completion in a fixed order:            *)
(*                                                                         *)
(*   detect faults, validate the command, sample the link, safe, leave     *)
(*   BOOT, retreat from modes a Degraded fault disqualifies, dispatch the  *)
(*   command, run the attitude law, start or finish an autonomous          *)
(*   detumble, publish.                                                    *)
(*                                                                         *)
(* The mode is passed down that chain: SafeEntry, BootExit, Retreat, now   *)
(* and after are mm_.mode() at successive points.  Rates, torques and      *)
(* bearings are abstracted to the classes the control flow tells apart.    *)
(***************************************************************************)
EXTENDS CommandHandler

CONSTANTS
    BootCheckCycles,       \* kBootCheckCycles
    DetumbleDoneCycles,    \* kDetumbleDoneCycles
    DetumbleEnterCycles,   \* kDetumbleEnterCycles
    PulseTicks,            \* kWheelPulseMs, in ticks
    Environment            \* the inputs a cycle may be given

\* "quiet" is inside the deadband, "fast" above detumble_enter_rads, "drift" in
\* between, "none" a cycle without a valid rate.
Rate == {"none", "quiet", "drift", "fast"}

\* The wheel's report: none this cycle, at its noise floor, or carrying momentum.
Wheel == {"none", "still", "spinning"}

Input == [dt     : Nat \ {0},
          report : [Fault \ {"COMMAND_LINK_LOSS"} -> Sample],
          cmd    : Uplink \cup {NoCommand},
          rate   : Rate,
          wheel  : Wheel]

ASSUME ExecutiveAssumption ==
    /\ BootCheckCycles \in Nat
    /\ DetumbleDoneCycles \in Nat
    /\ DetumbleEnterCycles \in Nat \ {0}
    /\ PulseTicks \in Nat \ {0}
    /\ Environment \subseteq Input

VARIABLES
    mode,         \* mm_.current_
    active,       \* fm_.active_
    streak,       \* fm_.streak_
    prev,         \* ch_.last_seq_, last_event_, have_last_seq_
    silence,      \* t_ms - ch_.last_command_ms_
    bootCycles,   \* boot_cycles_
    doneCycles,   \* detumble_done_cycles_
    enterCycles,  \* detumble_enter_cycles_
    resumeMode,   \* resume_mode_
    resumeValid,  \* resume_valid_
    lastMode,     \* last_mode_
    target,       \* what ac_.target_ holds: nothing yet, the heading at which the
                  \* current or a past visit of POINTING began, or a bearing
                  \* the ground named
    pulse,        \* pulse_until_ms_ - t_ms, 0 when no pulse is outstanding
    out           \* what the cycle handed to the platform

vars == <<mode, active, streak, prev, silence, bootCycles, doneCycles,
          enterCycles, resumeMode, resumeValid, lastMode, target, pulse, out>>

Torque == {"zero", "pulse", "detumble", "point", "dump"}

\* The command answered (and how), whether it was dispatched, and the platform
\* calls: wheel torque, capture, payload downlink.
Output == [cmd     : Uplink \cup {NoCommand},
           verdict : Verdict \cup {"None"},
           ran     : BOOLEAN,
           torque  : Torque,
           capture : BOOLEAN,
           payload : BOOLEAN]

Init ==
    /\ mode = "BOOT"
    /\ active = {}
    /\ streak = [f \in Fault |-> 0]
    /\ prev = [seq |-> 0, verdict |-> "None"]
    /\ silence = 0
    /\ bootCycles = 0
    /\ doneCycles = 0
    /\ enterCycles = 0
    /\ resumeMode = "STANDBY"
    /\ resumeValid = FALSE
    /\ lastMode = "BOOT"
    /\ target = "unset"
    /\ pulse = 0
    /\ out = [cmd |-> NoCommand, verdict |-> "None", ran |-> FALSE,
              torque |-> "zero", capture |-> FALSE, payload |-> FALSE]

------------------------------------------------------------------------------
(* Command validation and fault detection.                                 *)

Duplicate(cmd, quiet) == cmd # NoCommand /\ IsDuplicate(cmd, prev, quiet)

\* A repeat gets the previous answer, everything else is judged in this mode.
Answer(cmd, dup) ==
    IF cmd = NoCommand THEN "None"
    ELSE IF dup THEN prev.verdict
    ELSE Validate(cmd, mode)

\* The detectors' reports, and the link timer's, as one sample per fault.
Samples(report, quiet) ==
    [f \in Fault |->
        IF f # "COMMAND_LINK_LOSS" THEN report[f]
        ELSE IF LinkLost(quiet) THEN "bad" ELSE "good"]

------------------------------------------------------------------------------
(* Fault response: SAFE first, then the way out of BOOT, then the retreats. *)

\* Mutant: the response looks at the faults latched before this cycle's samples.
SafingStale(latched) == mode # "SAFE" /\ ShouldEnterSafe(active)

Safing(latched) == mode # "SAFE" /\ ShouldEnterSafe(latched)

SafeEntry(latched) ==
    IF Safing(latched) THEN Request(mode, "FaultEntry", "SAFE") ELSE mode

\* Mutant: BOOT is left as soon as nothing Critical is latched.
BootExitAtOnce(m, latched) ==
    IF m = "BOOT" /\ ~ShouldEnterSafe(latched)
      THEN Request(m, "Nominal", "STANDBY") ELSE m

BootExit(m, latched) ==
    IF m = "BOOT" /\ bootCycles >= BootCheckCycles /\ ~ShouldEnterSafe(latched)
      THEN Request(m, "Nominal", "STANDBY") ELSE m

Steering == {"POINTING", "DETUMBLE"}

\* kFallbacks: the modes each Degraded fault disqualifies.
FallbackModes(f) ==
    CASE f \in {"ACCEL_GYRO_DROPOUT", "WHEEL_DROPOUT", "WHEEL_SATURATED"} -> Steering
      [] f = "POWER_DROPOUT" -> Steering \cup {"DOWNLINK"}
      [] OTHER -> {}

Disqualified(m, latched) ==
    \E f \in Fault : ResponseActive(latched, f) /\ m \in FallbackModes(f)

\* Mutant: only the faults latched before this cycle's samples are looked at.
RetreatStale(m, latched) ==
    IF Disqualified(m, active) THEN Request(m, "FaultEntry", "STANDBY") ELSE m

\* Every retreat goes to STANDBY, so the first row that applies decides.
Retreat(m, latched) ==
    IF Disqualified(m, latched) THEN Request(m, "FaultEntry", "STANDBY") ELSE m

\* The mode once the latched faults have been answered, before the ground is.
Responded(latched) == Retreat(BootExit(SafeEntry(latched), latched), latched)

------------------------------------------------------------------------------
(* Dispatch and the attitude law; `now` is mode_now, the mode the law sees. *)

\* Mutant: a heading captured once is taken for this entry's.
AimOnce(now, named) ==
    IF named \/ target = "ground" THEN "ground"
    ELSE IF now # "POINTING" THEN (IF target = "unset" THEN "unset" ELSE "past")
    ELSE IF target = "unset" THEN "entry"
    ELSE target

\* set_target, then enter_pointing on the cycle POINTING is entered: a bearing
\* the ground named outlives mode changes, otherwise the present heading is
\* captured, and is the heading of a past visit once POINTING has been left.
Aim(now, named) ==
    IF named \/ target = "ground" THEN "ground"
    ELSE IF now # "POINTING" THEN (IF target = "unset" THEN "unset" ELSE "past")
    ELSE IF lastMode # "POINTING" THEN "entry"
    ELSE target

\* Mutant: leaving STANDBY does not abandon the pulse.
PulseLeftStanding(now, started, dt) ==
    IF started THEN PulseTicks ELSE IF pulse > dt THEN pulse - dt ELSE 0

\* The pulse outstanding after this cycle; abandoned outside STANDBY.
PulseLeft(now, started, dt) ==
    IF now # "STANDBY" THEN 0
    ELSE IF started THEN PulseTicks
    ELSE IF pulse > dt THEN pulse - dt
    ELSE 0

\* Mutant: momentum is dumped in every mode that is not steering.
LawTorqueDumping(now, left, rate, wheel) ==
    CASE left > 0 -> "pulse"
      [] left = 0 /\ now = "DETUMBLE" /\ rate \in {"drift", "fast"} -> "detumble"
      [] left = 0 /\ now = "POINTING" /\ rate # "none" -> "point"
      [] left = 0 /\ now \notin Steering /\ wheel = "spinning" -> "dump"
      [] OTHER -> "zero"

LawTorque(now, left, rate, wheel) ==
    CASE left > 0 -> "pulse"
      [] left = 0 /\ now = "DETUMBLE" /\ rate \in {"drift", "fast"} -> "detumble"
      [] left = 0 /\ now = "POINTING" /\ rate # "none" -> "point"
      [] left = 0 /\ now = "STANDBY" /\ wheel = "spinning" -> "dump"
      [] OTHER -> "zero"

Nulled(now, rate) == now = "DETUMBLE" /\ rate = "quiet"

DetumbleDone(now, rate) == Nulled(now, rate) /\ doneCycles >= DetumbleDoneCycles

\* A cycle without a rate leaves the count where it was.
DoneCycles(now, rate) ==
    IF now # "DETUMBLE" \/ rate \in {"drift", "fast"} THEN 0
    ELSE IF Nulled(now, rate) /\ ~DetumbleDone(now, rate) THEN doneCycles + 1
    ELSE doneCycles

\* An upset: too fast, in a mode that is not steering, safed or booting.
Upset(now, rate) == rate = "fast" /\ now \in {"STANDBY", "DOWNLINK"}

Interrupts(now, rate) == Upset(now, rate) /\ enterCycles >= DetumbleEnterCycles

\* Mutant: the count survives the cycles in between.
EnterCyclesKept(now, rate) ==
    IF Interrupts(now, rate) THEN 0
    ELSE IF Upset(now, rate) THEN enterCycles + 1 ELSE enterCycles

EnterCycles(now, rate) ==
    IF Upset(now, rate) /\ ~Interrupts(now, rate) THEN enterCycles + 1 ELSE 0

\* Mutant: a finished detumble resumes whether or not there is a mode to resume.
ModeAfterResuming(now, rate, pending) ==
    IF DetumbleDone(now, rate) THEN Request(now, "Nominal", resumeMode)
    ELSE IF Interrupts(now, rate) THEN Request(now, "Nominal", "DETUMBLE")
    ELSE now

\* Mutant: a commanded DETUMBLE waits for the ground.
ModeAfterParking(now, rate, pending) ==
    IF DetumbleDone(now, rate) /\ pending THEN Request(now, "Nominal", resumeMode)
    ELSE IF Interrupts(now, rate) THEN Request(now, "Nominal", "DETUMBLE")
    ELSE now

\* The two autonomous edges of DETUMBLE; `pending` says there is a mode to resume.
ModeAfter(now, rate, pending) ==
    IF DetumbleDone(now, rate)
      THEN Request(now, "Nominal", IF pending THEN resumeMode ELSE "STANDBY")
    ELSE IF Interrupts(now, rate) THEN Request(now, "Nominal", "DETUMBLE")
    ELSE now

------------------------------------------------------------------------------

\* Executive::cycle.
Cycle(in) ==
    LET cmd     == in.cmd
        before  == Aged(silence, in.dt)
        dup     == Duplicate(cmd, before)
        answer  == Answer(cmd, dup)
        ran     == cmd # NoCommand /\ answer = "Ok" /\ ~dup
        quiet   == IF cmd = NoCommand THEN before ELSE 0
        sample  == Samples(in.report, quiet)
        counted == CountStreaks(streak, sample)
        latched == Latch(active, counted, sample)
        \* a SET_MODE never overrides a safing of the same cycle
        obeys   == ran /\ cmd.id = "SET_MODE" /\ ~Safing(latched)
        now     == IF obeys THEN Request(Responded(latched), "Command", cmd.arg)
                   ELSE Responded(latched)
        pending == resumeValid /\ ~obeys
        left    == PulseLeft(now, ran /\ cmd.id = "PULSE_WHEEL", in.dt)
        after   == ModeAfter(now, in.rate, pending)
    IN
    /\ mode' = after
    /\ streak' = counted
    /\ active' = latched \ (IF ran /\ cmd.id = "CLEAR_FAULT" THEN {cmd.arg} ELSE {})
    /\ prev' = IF cmd = NoCommand \/ dup THEN prev
               ELSE [seq |-> cmd.seq, verdict |-> answer]
    /\ silence' = quiet
    /\ bootCycles' = IF SafeEntry(latched) = "BOOT" /\ bootCycles < BootCheckCycles
                       THEN bootCycles + 1 ELSE bootCycles
    /\ doneCycles' = DoneCycles(now, in.rate)
    /\ enterCycles' = EnterCycles(now, in.rate)
    /\ resumeMode' = IF Interrupts(now, in.rate) THEN now ELSE resumeMode
    /\ resumeValid' = \/ Interrupts(now, in.rate)
                      \/ pending /\ ~DetumbleDone(now, in.rate)
    /\ lastMode' = now
    /\ target' = Aim(now, ran /\ cmd.id = "SET_HEADING")
    /\ pulse' = left
    /\ out' = [cmd     |-> cmd,
               verdict |-> answer,
               ran     |-> ran,
               torque  |-> LawTorque(now, left, in.rate, in.wheel),
               capture |-> ran /\ cmd.id = "CAPTURE_IMAGE",
               payload |-> after = "DOWNLINK"]

Next == \E in \in Environment : Cycle(in)

Spec == Init /\ [][Next]_vars

\* The control task runs a cycle every 100 ms whatever else happens.
FairSpec == Spec /\ WF_vars(Next)

------------------------------------------------------------------------------
(* Properties.                                                             *)

\* The variables hold what the code's types and caps allow: a streak stops at
\* its threshold, the counters at theirs, a resume mode is one an autonomous
\* entry can interrupt.
TypeOK ==
    /\ mode \in Mode
    /\ active \subseteq Fault
    /\ streak \in [Fault -> Nat]
    /\ \A f \in Fault : streak[f] <= Debounce[f]
    /\ prev \in Remembered
    /\ silence \in 0..(CommandTimeout + 1)
    /\ bootCycles \in 0..BootCheckCycles
    /\ doneCycles \in 0..DetumbleDoneCycles
    /\ enterCycles \in 0..DetumbleEnterCycles
    /\ resumeMode \in {"STANDBY", "DOWNLINK"}
    /\ resumeValid \in BOOLEAN
    /\ lastMode \in Mode
    /\ target \in {"unset", "entry", "past", "ground"}
    /\ pulse \in 0..PulseTicks
    /\ out \in Output

\* The ground asked for mode m this cycle and the request was dispatched.
Commanded(m) == out.ran /\ out.cmd.id = "SET_MODE" /\ out.cmd.arg = m

\* SAFE dominates (REQ-FAULT-002, -006): a cycle that ends with an active
\* Critical response ends in SAFE.  The one exception is the cycle in which the
\* ground itself climbs out of SAFE: the fault step finds the vehicle already
\* safed, so nothing vetoes the command, and the next cycle safes again.
CriticalMeansSafe ==
    ShouldEnterSafe(active) =>
        mode = "SAFE" \/ (mode = "STANDBY" /\ Commanded("STANDBY"))

\* A vehicle that ends a cycle booting, safed or downlinking has left no torque
\* on the wheel, whatever it was doing when the cycle began: the wheel keeps the
\* last torque it was given.
IdleWheelUnforced ==
    mode \in {"BOOT", "SAFE", "DOWNLINK"} => out.torque = "zero"

\* An actuator test point never outlives STANDBY: the pulse is outstanding only
\* there, or in the cycle an autonomous detumble interrupts it, and then the next
\* cycle drops it.
PulseBounded ==
    /\ TypeOK
    /\ pulse > 0 => \/ mode = "STANDBY"
                    \/ mode = "DETUMBLE" /\ lastMode = "STANDBY"

\* An upset is counted only over an unbroken stay in an interruptible mode: no
\* count is carried through SAFE, BOOT or a steering mode into the next one.
UpsetCountedInPlace == enterCycles > 0 => mode \in {"STANDBY", "DOWNLINK"}

\* POINTING never steers at a bearing left over from before: when the pointing law
\* drives the wheel, the target is the heading at which this visit of POINTING began
\* or one the ground named, however often the mode was entered and left before.
PointsAtChosenBearing == out.torque = "point" => target \in {"entry", "ground"}

\* SAFE is left only by an executed, first-time SET_MODE STANDBY (REQ-MODE-006):
\* no retreat, boot exit, resume or replayed answer climbs out.
SafeLeftByGround ==
    [][mode = "SAFE" /\ mode' # "SAFE" => mode' = "STANDBY" /\ Commanded("STANDBY")']_vars

\* A latch is earned and kept (REQ-FAULT-001, -004, -010): a fault latches only on
\* the bad sample that completes its debounce, and leaves the latched set only
\* when the ground clears that fault.
LatchEdges ==
    [][/\ \A f \in active' \ active : /\ streak[f] >= Debounce[f] - 1
                                      /\ streak'[f] = Debounce[f]
       /\ \A f \in active \ active' : /\ out'.ran
                                      /\ out'.cmd.id = "CLEAR_FAULT"
                                      /\ out'.cmd.arg = f]_vars

\* The vehicle never holds a mode a latched fault disqualifies (REQ-FAULT-005):
\* it can be found in one only at the end of the cycle that entered it, because
\* dispatch and the autonomous entry come after the retreat.
DisqualifiedNotHeld ==
    [][\A f \in Fault :
          ResponseActive(active', f) /\ mode' \in FallbackModes(f) => mode' # mode]_vars

\* Acceptance of a SET_MODE is not idle (REQ-CMD-006): unless the same cycle safed
\* the vehicle, the cycle ends in the commanded mode, or detumbling with the
\* commanded mode to return to.  A DETUMBLE commanded in the cycle after a detumble
\* ended finds the exit count of that one at its limit and may end at once.
CommandObeyed ==
    [][\A m \in Mode : Commanded(m)' =>
          \/ mode' = m
          \/ mode # "SAFE" /\ mode' = "SAFE"
          \/ mode' = "DETUMBLE" /\ resumeValid' /\ resumeMode' = m
          \/ m = "DETUMBLE" /\ mode' = "STANDBY" /\ doneCycles = DetumbleDoneCycles]_vars

\* The self-check means something for the faults that safe the vehicle
\* (REQ-MODE-010): the vehicle leaves BOOT on its own for an operating mode only if
\* every Critical fault has missed a bad sample since boot; bootCycles + 1 cycles
\* have run by then.
BootCheckSound ==
    [][mode = "BOOT" /\ mode' \notin {"BOOT", "SAFE"} /\ ~out'.ran =>
          \A f \in Fault \ Inhibited :
             Severity[f] = "Critical" =>
                streak'[f] < IF bootCycles + 1 < Debounce[f] THEN bootCycles + 1
                             ELSE Debounce[f]]_vars

\* Detumbling ends: once the rates stay inside the deadband DETUMBLE is left,
\* however it was entered and whatever the ground says, "a parking brake" being what
\* the autonomous exit is there to prevent.
DetumbleEnds ==
    <>[](out.torque # "detumble") => (mode = "DETUMBLE" ~> mode # "DETUMBLE")

\* A vehicle the ground falls silent on ends up safed for good (REQ-CMD-002),
\* whatever it was commanded before and whatever its sensors and rates do.
SilenceSafes == <>[](out.cmd = NoCommand) => <>[](mode = "SAFE")

\* The mode to return to, as VehicleModes tells the story.
Home ==
    IF mode # "DETUMBLE" THEN mode
    ELSE IF resumeValid THEN resumeMode ELSE "STANDBY"

\* The mode the ground's command named, if one was executed.
Order == IF out.ran /\ out.cmd.id = "SET_MODE" THEN out.cmd.arg ELSE "none"

Modes == INSTANCE VehicleModes WITH mode <- mode, home <- Home, order <- Order

\* The executive implements the mode contract: every cycle, with its safing,
\* retreat, dispatch and recovery in one step, is a step of VehicleModes.
ModesRefined == Modes!Spec
==============================================================================
