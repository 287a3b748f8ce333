------------------------------- MODULE Sensing -------------------------------
(***************************************************************************)
(* From the sensors to the control law: the sensor task reads three        *)
(* devices over two buses and overwrites a queue of one, and the control   *)
(* task takes what is there, judges it and learns the bias of the gyro.    *)
(* A tick is one control cycle; the sensor task may be late, or early      *)
(* when it makes up for being late.                                        *)
(***************************************************************************)
EXTENDS SensorMonitor, I2cBus, Integers, Sequences, FiniteSets, SequencesExt

CONSTANTS
    BiasSamples,   \* kBiasSamples
    QuietCounts,   \* kBiasQuietCounts
    Rates,         \* yaw counts the gyro may read
    BusLevels,     \* where the bus voltage may be: "low", "ok", "high"
    TempLevels,    \* where the temperature may be: "cold", "ok", "hot"
    MaxFailures,   \* bound: parts that fail, each as often as it likes
    Cuts           \* bound: which of a pass's four transfers over i2c may be cut into, and how

\* The faults of the table that are judged here by what they claim.
I2cFaults    == {"POWER_DROPOUT", "TEMP_DROPOUT"}
SensorFaults == {"ACCEL_GYRO_DROPOUT", "MAG_DROPOUT", "UNDERVOLTAGE"} \cup I2cFaults

ASSUME SensingAssumption ==
    /\ BiasSamples \in Nat \ {0} /\ QuietCounts \in Nat /\ MaxFailures \in Nat
    /\ Cuts \subseteq [at : 1..4, how : Cut]
    /\ BusLevels \subseteq {"low", "ok", "high"} /\ TempLevels \subseteq {"cold", "ok", "hot"}
    /\ SensorFaults \subseteq Fault

\* The limits of int16_t.
INT16_MIN == -32768
INT16_MAX == 32767

ASSUME RatesAssumption == Rates \subseteq INT16_MIN..INT16_MAX /\ Rates # {}

\* The spread of the rates fits the code's int16_t: two readings further apart than that
\* would wrap and be taken for stillness.
ASSUME SpreadAssumption == \A a, b \in Rates : a - b <= INT16_MAX

\* What can fail: the imu as a whole, one of its sources, a device on the i2c bus, that
\* bus, held by someone.  And while pictures of a new size are taken, the camera's writes get
\* into the bus.
Part == Source \cup {"imu", "ina", "tmp", "bus", "camera"}

VARIABLES
    fit,      \* devices that answered at init
    broken,   \* parts that are broken now
    bus,      \* the i2c control register
    reg,      \* the rate the gyro last measured
    queue     \* what was published and not taken: nothing, or one sample

VARIABLES
    age,      \* source -> cycles since the monitor saw it change
    unseen,   \* sources whose published reading is not the one the monitor remembers
    streak, active,   \* the fault manager
    bias      \* the window of readings and what was learned from it

VARIABLES
    truth,    \* history: source -> samples in a row that carried nothing new; low samples;
              \* fault -> samples in a row that were lost to the camera's writes
    used,     \* history: the last readings the window took
    failed    \* history: parts that were ever broken

vars == <<fit, broken, bus, reg, queue, age, unseen, streak, active, bias, truth, used, failed>>

------------------------------------------------------------------------------
(* Bring-up.                                                               *)

AnswerOf(part) == IF part \in broken THEN "absent" ELSE "answers"

\* i2c_probe of every address; most of them are nobody's.
Scanned == Transfer(BusReset, "bus" \in broken, 0, "absent").bus

\* ina228_init: five transfers, and the first that fails ends it.
InaInit(b) ==
    LET next(r, n) == IF r.status = "OK" THEN Transfer(r.bus, "bus" \in broken, n, AnswerOf("ina"))
                      ELSE r
        start      == [status |-> "OK", bus |-> b]
    IN  next(next(next(next(next(start, 2), 2), 0), 0), 0)

\* tmp117_init.
TmpInit(b) == Transfer(b, "bus" \in broken, 2, AnswerOf("tmp"))

NoWindow == [n |-> 0, sum |-> 0, min |-> INT16_MAX, max |-> INT16_MIN]

\* The init of main.cpp has not run yet.
Init ==
    /\ fit = {"unknown"}
    /\ broken \in {b \in SUBSET Part : Cardinality(b) <= MaxFailures} /\ failed = broken
    /\ bus = BusReset /\ reg \in Rates /\ queue = <<>>
    /\ age = [s \in Source |-> StaleWindow + 1] /\ unseen = Source
    /\ streak = [f \in Fault |-> 0] /\ active = {}
    /\ bias = [window |-> NoWindow, locked |-> FALSE, counts |-> 0]
    /\ truth = [dull |-> [s \in Source |-> 0], lows |-> 0, sagged |-> FALSE,
                 cuts |-> [f \in I2cFaults |-> 0], spoilt |-> {}]
    /\ used = <<>>

\* init: the imu over its own bus, then the scan and the two devices behind it.  Nothing
\* that failed here is tried again.
BringUp ==
    /\ fit = {"unknown"}
    /\ LET ina == InaInit(Scanned)
           tmp == TmpInit(ina.bus)
       IN  /\ fit' = {d \in {"imu", "ina", "tmp"} : CASE d = "imu" -> "imu" \notin broken
                                                 [] d = "ina" -> ina.status = "OK"
                                                 [] d = "tmp" -> tmp.status = "OK"}
           /\ bus' = tmp.bus
    /\ UNCHANGED <<broken, reg, queue, age, unseen, streak, active, bias, truth, used, failed>>

------------------------------------------------------------------------------
(* The sensor task.                                                        *)

\* Mutant: what a read failed to fetch is zero, and valid.
PowerZeroed(status, level) == IF status = "OK" THEN level ELSE "low"

\* ina228_read: valid only if all three registers were read.
Power(status, level) == IF status = "OK" THEN level ELSE "invalid"

\* The transfers of a pass over i2c: three of the power monitor, one of the thermometer.  The
\* control task cuts into at most one of them: a cycle writes one table, and a pass is shorter
\* than a cycle.
NoCut == [at |-> 0, how |-> "none"]

\* The i-th of them.
Read(i, b, n, answer, cut) ==
    IF i = cut.at THEN CutInto(b, "bus" \in broken, n, answer, cut.how)
    ELSE Transfer(b, "bus" \in broken, n, answer)

\* The three reads of ina228_read, of which a device that falls silent answers the first k;
\* the next are tried all the same.
InaRead(b, k, cut) ==
    LET silent(i)  == IF i = k + 1 /\ k > 0 THEN "stalls" ELSE "absent"
        next(r, i) == LET t == Read(i, r.bus, 3, IF "ina" \notin broken \/ i <= k THEN "answers" ELSE silent(i), cut)
                      IN  [status |-> IF r.status = "OK" THEN t.status ELSE r.status, bus |-> t.bus]
    IN  next(next(next([status |-> "OK", bus |-> b], 1), 2), 3)

\* tmp117_read.
TmpRead(b, stalls, cut) ==
    Read(4, b, 2, IF "tmp" \in broken /\ stalls THEN "stalls" ELSE AnswerOf("tmp"), cut)

\* icm20948_read: an imu that is gone reads all ones, which is no reading of the accelerometer
\* and the gyro and an overflow of the magnetometer; a magnetometer of its own may have
\* nothing ready, or too much.
Valid(mute) ==
    IF "imu" \in fit /\ "imu" \notin broken THEN Source \ (IF mute THEN {"mag"} ELSE {}) ELSE {}

\* What a pass may meet: all is well, or what a broken part makes of it.
IfBroken(part, well, ill) == IF part \in broken THEN {well} \cup ill ELSE {well}

\* A pass of the task: a device that failed its init is published as invalid, the others
\* are read, and the sample replaces the one nobody took.  What the voltage was, and which
\* readings a write of the camera cost it, go along for the history.
SensorPass(rate, level, temp, k, stalls, mute, cut) ==
    /\ fit # {"unknown"}
    /\ LET unfit(b) == [status |-> "unfit", bus |-> b]
           ina == IF "ina" \in fit THEN InaRead(bus, k, cut) ELSE unfit(bus)
           tmp == IF "tmp" \in fit THEN TmpRead(ina.bus, stalls, cut) ELSE unfit(ina.bus)
       IN  /\ bus' = tmp.bus
           /\ queue' = <<[valid |-> Valid(mute),
                      power |-> Power(ina.status, level),
                      temp  |-> IF tmp.status = "OK" THEN temp ELSE "invalid",
                      level |-> IF {"ina", "bus"} \cap broken # {} \/ "ina" \notin fit \/ cut.at \in 1..3
                                THEN "unmeasured" ELSE level,
                      cut   |-> {f \in I2cFaults : IF f = "POWER_DROPOUT" THEN cut.at \in 1..3
                                                   ELSE cut.at = 4 /\ tmp.status # "OK"}]>>
    /\ reg' = IF Valid(mute) # {} /\ "gyro" \notin broken THEN rate ELSE reg
    /\ unseen' = unseen \cup (Valid(mute) \ broken)
    /\ UNCHANGED <<fit, broken, age, streak, active, bias, truth, used, failed>>

------------------------------------------------------------------------------
(* The control task.                                                       *)

Lesser(a, b) == IF a < b THEN a ELSE b
Greater(a, b) == IF a < b THEN b ELSE a

\* static_cast<int16_t>
Int16(n) == ((n - INT16_MIN) % 65536) + INT16_MIN

\* Mutant: a poisoned window keeps its count.
PoisonedCounting(w) == [NoWindow EXCEPT !.n = w.n]

\* The platform moved: the window starts over.
Poisoned(w) == NoWindow

\* read_sensors, the gyro half: the window widens by a reading, is thrown away if it moved,
\* and becomes the bias when it is full.
Learned(raw) ==
    LET w == [n |-> bias.window.n + 1, sum |-> bias.window.sum + raw,
              min |-> Lesser(bias.window.min, raw), max |-> Greater(bias.window.max, raw)]
        moved == Int16(w.max - w.min) > QuietCounts
    IN  CASE bias.locked -> bias
          [] ~bias.locked /\ moved -> [bias EXCEPT !.window = Poisoned(w)]
          [] ~bias.locked /\ ~moved /\ w.n = BiasSamples ->
                [window |-> w, locked |-> TRUE, counts |-> w.sum \div BiasSamples]
          [] OTHER -> [bias EXCEPT !.window = w]

\* A cycle nothing was published for: no sensor is offered, no fault is judged.
CycleWithout ==
    /\ fit # {"unknown"} /\ queue = <<>>
    /\ age' = [s \in Source |-> Lesser(age[s] + 1, StaleWindow + 1)]
    /\ UNCHANGED <<fit, broken, bus, reg, queue, unseen, streak, active, bias, truth, used, failed>>

\* A cycle with a sample: the monitor judges it and the gyro's reading goes to the bias.
CycleWith ==
    /\ queue # <<>> /\ queue' = <<>>
    /\ LET set == Head(queue)
           now == [s \in Source |-> Lesser(age[s] + 1, StaleWindow + 1)]
           verdict == Evaluate(set, now, unseen)
           sample == [f \in Fault |-> IF f \in DOMAIN verdict THEN verdict[f] ELSE "none"]
           lows == IF set.level = "low" THEN Lesser(truth.lows + 1, Debounce["UNDERVOLTAGE"])
                   ELSE IF set.level = "unmeasured" THEN truth.lows ELSE 0
           cuts == [f \in I2cFaults |-> IF f \in set.cut THEN Lesser(truth.cuts[f] + 1, Debounce[f]) ELSE 0]
       IN  /\ age' = [s \in Source |-> IF s \in set.valid /\ s \in unseen THEN 0 ELSE now[s]]
           /\ unseen' = unseen \ set.valid
           /\ streak' = CountStreaks(streak, sample)
           /\ active' = Latch(active, streak', sample)
           /\ bias' = IF "gyro" \in set.valid THEN Learned(reg) ELSE bias
           /\ used' = IF "gyro" \notin set.valid \/ bias.locked THEN used
                      ELSE Append(IF Len(used) = BiasSamples THEN Tail(used) ELSE used, reg)
           /\ truth' = [dull |-> [s \in Source |-> IF s \in set.valid /\ s \in unseen THEN 0
                                                    ELSE Lesser(truth.dull[s] + 1, StaleWindow + Debounce[HalfOf[s]])],
                        lows |-> lows,
                        sagged |-> truth.sagged \/ lows = Debounce["UNDERVOLTAGE"],
                        cuts |-> cuts,
                        spoilt |-> truth.spoilt \cup {f \in I2cFaults : cuts[f] = Debounce[f]}]
    /\ UNCHANGED <<fit, broken, bus, reg, failed>>

------------------------------------------------------------------------------
(* What fails, and what comes back.                                        *)

Breaks(part) ==
    /\ part \notin broken /\ Cardinality(failed \cup {part}) <= MaxFailures
    /\ broken' = broken \cup {part} /\ failed' = failed \cup {part}
    /\ UNCHANGED <<fit, bus, reg, queue, age, unseen, streak, active, bias, truth, used>>

Mends(part) ==
    /\ part \in broken
    /\ broken' = broken \ {part}
    /\ UNCHANGED <<fit, bus, reg, queue, age, unseen, streak, active, bias, truth, used, failed>>

Next ==
    \/ BringUp
    \/ \E rate \in Rates, level \in BusLevels, temp \in TempLevels, k \in IfBroken("ina", 0, 0..2),
          stalls \in IfBroken("tmp", FALSE, BOOLEAN), mute \in IfBroken("mag", FALSE, BOOLEAN),
          cut \in IfBroken("camera", NoCut, Cuts) : SensorPass(rate, level, temp, k, stalls, mute, cut)
    \/ CycleWithout \/ CycleWith
    \/ \E part \in Part : Breaks(part) \/ Mends(part)

Spec == Init /\ [][Next]_vars

------------------------------------------------------------------------------
\* The clocks stop at the window, a window never overfills, and a bus left with POS set is
\* one the next transfer resets.
SensingTypeOK ==
    /\ age \in [Source -> 0..StaleWindow + 1]
    /\ bias.window.n <= BiasSamples
    /\ streak \in [Fault -> Nat]
    /\ \A f \in Fault : streak[f] <= Debounce[f]
    /\ bus.pos => bus.stop

\* sensor_monitor.cpp:93: a half of the imu that answers nothing, or answers and is
\* frozen, latches its dropout after the window and the debounce, and not only if it
\* stays the one or the other.
DullLatched ==
    \A s \in Source :
        truth.dull[s] >= StaleWindow + Debounce[HalfOf[s]] => HalfOf[s] \in active

\* REQ-SNS-002: a dropout names a part that really failed.  Late samples, a neighbour that
\* does not answer and the bus scan at boot are no failures.  A write of the camera between a
\* sensor's START and STOP is none either, and a debounce of samples lost to such writes blames
\* a part that is well; short of that many in a row, they blame nobody.  And the voltage that
\* safes the vehicle was measured, as often as the debounce asks (ina228.c:82): a monitor that
\* stops answering does not read as an empty battery.
BlameTheBroken ==
    /\ "ACCEL_GYRO_DROPOUT" \in active => failed \cap {"imu", "accel", "gyro"} # {}
    /\ "MAG_DROPOUT" \in active => failed \cap {"imu", "mag"} # {}
    /\ "POWER_DROPOUT" \in active => failed \cap {"ina", "bus"} # {} \/ "POWER_DROPOUT" \in truth.spoilt
    /\ "TEMP_DROPOUT" \in active => failed \cap {"tmp", "bus"} # {} \/ "TEMP_DROPOUT" \in truth.spoilt
    /\ "UNDERVOLTAGE" \in active => truth.sagged

\* What the window held when it was locked.
WindowWasQuiet ==
    bias.locked =>
        /\ Len(used) = BiasSamples
        /\ \A i, j \in 1..BiasSamples : used[i] - used[j] <= QuietCounts

\* control_task.cpp:412: only a window that stayed quiet from end to end becomes the bias,
\* whatever was lost or overwritten between its readings.
BiasFromStillness ==
    /\ SensingTypeOK
    /\ WindowWasQuiet
    /\ bias.locked => bias.counts = FoldLeft(LAMBDA a, b : a + b, 0, used) \div BiasSamples
==============================================================================
