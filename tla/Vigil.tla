-------------------------------- MODULE Vigil --------------------------------
(***************************************************************************)
(* Who notices what has stopped.  The tasks check in with the health task, *)
(* which alone pets the hardware watchdog; the watchdog restarts the       *)
(* computer; the wheel node lets go of a wheel nobody commands; and the    *)
(* sensor monitor judges the wheel node by its silence.  A tick is one     *)
(* control cycle, and in it the tasks run in the order of their priority.  *)
(***************************************************************************)
EXTENDS WheelNode, FiniteSets

CONSTANTS
    ReportPeriod,   \* kReportPeriodMs
    Deadline,       \* task -> how long it may go without a check-in; 0 is not judged
    Pace,           \* task -> how long it may take between check-ins when all is well
    Iwdg,           \* the watchdog's period, at the fastest its oscillator runs
    BringUp,        \* ticks from reset to the scheduler
    WheelTimeout,   \* kWheelTimeoutMs
    WheelAcquire,   \* kWheelAcquireMs
    WheelDebounce,  \* debounce_n of WHEEL_DROPOUT
    MaxHangs,       \* bound: tasks that hang
    MaxResets,      \* bound: resets that are not the watchdog's
    MaxEscRestarts, \* bound: restarts of the wheel node
    MaxLost         \* bound: status frames lost on the line

Judged == {"control", "sensors", "uplink", "telemetry", "downlink"}
Task == Judged \cup {"health"}

ASSUME VigilAssumption ==
    /\ Deadline \in [Task -> Nat] /\ Pace \in [Task -> Nat]
    /\ Deadline["health"] = 0
    /\ \A t \in Judged : Pace[t] < Deadline[t]
    /\ {ReportPeriod, Iwdg, BringUp, WheelTimeout, WheelAcquire, WheelDebounce} \subseteq Nat \ {0}
    /\ {MaxHangs, MaxResets, MaxEscRestarts, MaxLost} \subseteq Nat

\* The times as they are set: two reports (1 s) fall into the watchdog's 3 s and every task
\* comes round faster than that; the wheel's short window (1 s) is not longer than the long
\* one (8 s), which outlasts bring-up; a node that aligns (5 s) or reports (each 250 ms) is
\* inside them with MaxLost reports lost.
ASSUME TimesAssumption ==
    /\ ReportPeriod > 1 /\ 2 * ReportPeriod < Iwdg
    /\ \A t \in Judged : Pace[t] < ReportPeriod
    /\ WheelTimeout <= WheelAcquire /\ BringUp < WheelAcquire
    /\ (MaxLost + 1) * (StatusPeriod + 1) <= WheelTimeout
    /\ AlignTicks + (MaxLost + 1) * (StatusPeriod + 1) <= WheelAcquire

VARIABLES
    stage,    \* who runs next in this tick, or that the computer is down
    clock,    \* ticks since the reset, as far as anyone asks
    csr,      \* the reset flags in RCC_CSR
    cause,    \* the reset cause, until the first control cycle reports it
    age,      \* task -> ticks since its last check-in, or since the start
    checked,  \* tasks that have checked in since the start
    hung,     \* tasks that will not run again
    health,   \* ticks since the health task's last wake-up, and whether it was preempted
    dog,      \* ticks since the watchdog was last petted
    wheel,    \* sensor_monitor's view of the wheel link
    status,   \* a status frame waits at the vehicle's uart
    esc,      \* the wheel node
    truth,    \* history: what reset last, how long a wheel node that runs was not commanded
    spent     \* hangs, resets, restarts and losses so far

vars == <<stage, clock, csr, cause, age, checked, hung, health, dog, wheel, status, esc, truth, spent>>

Least(a, b) == IF a < b THEN a ELSE b

------------------------------------------------------------------------------
(* Reset and bring-up.                                                     *)

\* What a reset of each kind leaves in RCC_CSR: the pin is asserted by all of them.
FlagsOf ==
    [POWER_ON |-> {"POR", "BOR", "PIN"}, BROWNOUT |-> {"BOR", "PIN"}, SOFTWARE |-> {"SFT", "PIN"},
     WATCHDOG |-> {"IWDG", "PIN"}, RESET_PIN |-> {"PIN"}]

\* reset_init: the most specific flag first.
ResetCause(flags) ==
    IF "IWDG" \in flags THEN "WATCHDOG"
    ELSE IF "SFT" \in flags THEN "SOFTWARE"
    ELSE IF "POR" \in flags THEN "POWER_ON"
    ELSE IF "BOR" \in flags THEN "BROWNOUT"
    ELSE "RESET_PIN"

\* Mutant: the flags are left for the next reset to find.
FlagsKept(flags) == flags

\* ... and they are cleared once read.
FlagsLeft(flags) == {}

NoWheel == [quiet |-> 0, acquired |-> FALSE, streak |-> 0, latched |-> FALSE]

Init ==
    /\ stage = "boot" /\ clock = 0
    /\ csr = FlagsLeft(FlagsOf["POWER_ON"]) /\ cause = ResetCause(FlagsOf["POWER_ON"])
    /\ age = [t \in Task |-> 0] /\ checked = {} /\ hung = {}
    /\ health = [since |-> 0, late |-> FALSE, missed |-> FALSE]
    /\ dog = 0
    /\ wheel = NoWheel /\ status = FALSE /\ esc = EscStart
    /\ truth = [reset |-> "POWER_ON", uncommanded |-> 0]
    /\ spent = [hangs |-> 0, resets |-> 0, restarts |-> 0, lost |-> 0]

\* The program starts over; the first thing it does is to read why.
Reset(kind) ==
    /\ stage' = "boot" /\ clock' = 0
    /\ LET flags == csr \cup FlagsOf[kind]
       IN  csr' = FlagsLeft(flags) /\ cause' = ResetCause(flags)
    /\ age' = [t \in Task |-> 0] /\ checked' = {} /\ hung' = {}
    /\ health' = [since |-> 0, late |-> FALSE, missed |-> FALSE]
    /\ dog' = 0 /\ wheel' = NoWheel /\ status' = FALSE
    /\ truth' = [truth EXCEPT !.reset = kind]

\* The counter runs out.
WatchdogBites ==
    /\ stage # "boot" /\ dog = Iwdg
    /\ Reset("WATCHDOG")
    /\ UNCHANGED <<esc, spent>>

\* A hard fault ends in a software reset, in bring-up too, as a failed scheduler start
\* does; the pin and a sagging rail are outside.  Power that goes takes the wheel node
\* with it.
OtherReset(kind) ==
    /\ stage \in {"boot", "control"} /\ spent.resets < MaxResets
    /\ spent' = [spent EXCEPT !.resets = @ + 1]
    /\ Reset(kind)
    /\ esc' = IF kind = "POWER_ON" THEN EscStart ELSE esc

\* Bring-up ends: the wheel is told to stand still, the watchdog starts
\* and after it the scheduler.
StartScheduler ==
    /\ stage = "boot" /\ clock = BringUp
    /\ stage' = "control"
    /\ esc' = Deliver(esc, 0)
    /\ dog' = 0
    /\ truth' = [truth EXCEPT !.uncommanded = 0]
    /\ UNCHANGED <<clock, csr, cause, age, checked, hung, health, wheel, status, spent>>

------------------------------------------------------------------------------
(* The tasks, in the order of their priority.                              *)

Runs(t) == t \notin hung

CheckIn(tasks) ==
    /\ age' = [t \in Task |-> IF t \in tasks THEN 0 ELSE age[t]]
    /\ checked' = checked \cup tasks

\* Mutant: no frame is no opinion, as for the sensors.
SilenceIsNoOpinion(w, heard) ==
    IF heard THEN [w EXCEPT !.quiet = 0, !.acquired = TRUE, !.streak = 0] ELSE w

\* Mutant: the grace of the first frame is the window of every frame.
WindowWithoutGrace(w) == WheelTimeout

\* evaluate_wheel's window: long until the first frame, short ever after.
Window(w) == IF w.acquired THEN WheelTimeout ELSE WheelAcquire

\* evaluate_wheel, and the fault manager's debounce and latch behind it.
EvaluateWheel(w, heard) ==
    LET seen == [w EXCEPT !.quiet = IF heard THEN 0 ELSE @, !.acquired = @ \/ heard]
        bad == seen.quiet > Window(seen)
        streak == IF bad THEN Least(w.streak + 1, WheelDebounce) ELSE 0
    IN  [seen EXCEPT !.streak = streak, !.latched = @ \/ streak = WheelDebounce]

\* A control cycle: the wheel's status is read and judged, and a torque commanded whether
\* the dropout is latched or not: it retreats to STANDBY, where test pulses run.
Control(torque) ==
    /\ stage = "control" /\ stage' = "health"
    /\ IF Runs("control")
         THEN /\ wheel' = EvaluateWheel(wheel, status)
              /\ status' = FALSE
              /\ esc' = Deliver(esc, torque)
              /\ CheckIn({"control"})
              /\ cause' = "told"
              /\ truth' = [truth EXCEPT !.uncommanded = 0, !.reset = "told"]
         ELSE /\ torque = 0
              /\ UNCHANGED <<wheel, status, esc, age, checked, cause, truth>>
    /\ UNCHANGED <<clock, csr, hung, health, dog, spent>>

\* Mutant: a deadline of zero is judged like another.
JudgeAll(t) == TRUE

\* A deadline of zero opts out.
IsJudged(t) == Deadline[t] # 0

\* Mutant: a task is judged from its first check-in only.
TooOldOnceSeen(t, late) == t \in checked /\ age[t] > Deadline[t]

\* checkin_age against the clock the health task read: a check-in after that reading
\* wraps round to the largest age there is, and no check-in at all is larger still.
TooOld(t, late) ==
    IF t \notin checked THEN TRUE
    ELSE IF late THEN age[t] = 0 \/ age[t] - 1 > Deadline[t]
    ELSE age[t] > Deadline[t]

Alive(late) == \A t \in Task : IsJudged(t) => ~TooOld(t, late)

\* The report, and the pet if every judged task is inside its deadline.
Judge(late) ==
    /\ health' = [since |-> IF late THEN 1 ELSE 0, late |-> FALSE, missed |-> late]
    /\ dog' = IF Alive(late) THEN 0 ELSE dog
    /\ stage' = "others"

HealthDue == Runs("health") /\ health.since = ReportPeriod

HealthSleeps ==
    /\ stage = "health" /\ ~HealthDue
    /\ stage' = "others"
    /\ UNCHANGED <<clock, csr, cause, age, checked, hung, health, dog, wheel, status, esc, truth, spent>>

HealthReports ==
    /\ stage = "health" /\ HealthDue /\ ~health.late
    /\ CheckIn({"health"})
    /\ Judge(FALSE)
    /\ UNCHANGED <<clock, csr, cause, hung, wheel, status, esc, truth, spent>>

\* The next control cycle falls between the reading of the clock and that of the
\* check-ins.  Bound: never in two reports in a row.
HealthPreempted ==
    /\ stage = "health" /\ HealthDue /\ ~health.late /\ ~health.missed
    /\ CheckIn({"health"})
    /\ health' = [health EXCEPT !.late = TRUE]
    /\ stage' = "wheel"
    /\ UNCHANGED <<clock, csr, cause, hung, dog, wheel, status, esc, truth, spent>>

HealthResumes ==
    /\ stage = "health" /\ HealthDue /\ health.late
    /\ Judge(TRUE)
    /\ UNCHANGED <<clock, csr, cause, age, checked, hung, wheel, status, esc, truth, spent>>

\* The other tasks check in at their own pace.
Others(tasks) ==
    /\ stage = "others" /\ stage' = "wheel"
    /\ \A t \in tasks : Runs(t)
    /\ \A t \in Judged \ {"control"} : Runs(t) /\ age[t] >= Pace[t] => t \in tasks
    /\ CheckIn(tasks)
    /\ UNCHANGED <<clock, csr, cause, hung, health, dog, wheel, status, esc, truth, spent>>

\* The wheel node's pass ends the tick.
Wheel(lost) ==
    /\ stage \in {"wheel", "boot"} /\ (stage = "boot" => clock < BringUp) /\ dog < Iwdg
    /\ LET speaks == Running(esc) /\ Reports(esc)
       IN  /\ lost => speaks /\ spent.lost < MaxLost
           /\ spent' = [spent EXCEPT !.lost = @ + (IF lost THEN 1 ELSE 0)]
           /\ status' = (status \/ (speaks /\ ~lost))
    /\ truth' = [truth EXCEPT !.uncommanded = IF Running(esc) THEN Least(@ + 1, CommandTimeout + 2)
                                              ELSE 0]
    /\ esc' = EscTick(EscLoop(esc))
    /\ stage' = IF stage = "boot" THEN "boot" ELSE "control"
    /\ clock' = Least(clock + 1, BringUp)
    /\ dog' = IF stage = "boot" THEN 0 ELSE dog + 1
    /\ age' = IF stage = "boot" THEN age
              ELSE [t \in Task |-> Least(age[t] + 1, Deadline[t] + Iwdg + 2)]
    /\ health' = IF stage = "boot" THEN health ELSE [health EXCEPT !.since = Least(@ + 1, ReportPeriod)]
    /\ wheel' = [wheel EXCEPT !.quiet = Least(@ + 1, WheelAcquire + WheelDebounce + 1)]
    /\ UNCHANGED <<csr, cause, checked, hung>>

------------------------------------------------------------------------------
(* What goes wrong.                                                        *)

Hang(tasks) ==
    /\ stage = "control" /\ spent.hangs < MaxHangs
    /\ spent' = [spent EXCEPT !.hangs = @ + 1]
    /\ hung' = hung \cup tasks
    /\ UNCHANGED <<stage, clock, csr, cause, age, checked, health, dog, wheel, status, esc, truth>>

\* The node restarts, or never speaks again.
EscRestarts(alive) ==
    /\ spent.restarts < MaxEscRestarts /\ stage = "control"
    /\ spent' = [spent EXCEPT !.restarts = @ + 1]
    /\ esc' = [EscStart EXCEPT !.alive = alive]
    /\ UNCHANGED <<stage, clock, csr, cause, age, checked, hung, health, dog, wheel, status, truth>>

Next ==
    \/ WatchdogBites \/ StartScheduler
    \/ HealthSleeps \/ HealthReports \/ HealthPreempted \/ HealthResumes
    \/ \E torque \in 0..1 : Control(torque)
    \/ \E tasks \in SUBSET (Judged \ {"control"}) : Others(tasks)
    \/ \E lost \in BOOLEAN : Wheel(lost)
    \/ \E kind \in DOMAIN FlagsOf \ {"WATCHDOG"} : OtherReset(kind)
    \/ \E t \in Task : Hang({t})
    \/ Hang(Task)
    \/ \E alive \in BOOLEAN : EscRestarts(alive)

Spec == Init /\ [][Next]_vars

------------------------------------------------------------------------------
\* The clocks stay in range and a node that aligns drives nothing.
VigilTypeOK ==
    /\ stage \in {"boot", "control", "health", "others", "wheel"}
    /\ dog \in 0..Iwdg
    /\ health.since \in 0..ReportPeriod
    /\ Len(esc.rx) <= RxDepth
    /\ ~Running(esc) => esc.target = 0
    /\ wheel.streak \in 0..WheelDebounce

\* health_task.cpp:117: whichever task stops, the one that reports included, the computer
\* is reset within its deadline and one period of the watchdog (the one that reports within
\* the period alone).
HungTaskBites ==
    \A t \in Task : age[t] <= (IF t = "health" THEN 0 ELSE Deadline[t]) + Iwdg + 1

\* health_task.cpp:101: a vehicle whose tasks all keep their pace is never reset by its
\* watchdog, not in its first second and not when a report is spoilt by a check-in that
\* came after the health task read the clock.
HealthyNotBitten == dog = Iwdg => hung # {}

\* REQ-WDG-002: the cause a boot reports is what reset it, however many resets came before.
CauseTold == cause = truth.reset

\* esc/src/main.cpp:141: a hung computer, or one that restarts, does not leave the wheel
\* spinning, and a node that aligns drives nothing, however many commands wait for it.
WheelCoasts ==
    /\ VigilTypeOK
    /\ Running(esc) /\ truth.uncommanded > CommandTimeout + 1 => esc.target = 0

\* sensor_monitor.cpp:31, :138: silence is the measurement.  A wheel node that came up with
\* the vehicle and stays up is never taken for a dead link, whatever resets the vehicle and
\* whichever few frames are lost; one that is gone is noticed, before its first frame or
\* after it.
WheelDropoutSound ==
    /\ spent.restarts = 0 => ~wheel.latched
    /\ stage # "boot" /\ Runs("control") /\ wheel.quiet > WheelAcquire + WheelDebounce
         => wheel.latched
==============================================================================
