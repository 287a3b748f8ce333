---------------------------- MODULE SensorMonitor ----------------------------
(***************************************************************************)
(* fsw/src/sensor_monitor.cpp: what the sampled sensors' readings say of   *)
(* their faults.  A reading matters only by whether it differs from the    *)
(* one remembered (moved), and a value by the side of its limit it is on.  *)
(***************************************************************************)
EXTENDS FaultManager

CONSTANT StaleWindow    \* kImuStaleWindowMs, in control cycles

ASSUME StaleWindowAssumption == StaleWindow \in Nat \ {0}

Source == {"accel", "gyro", "mag"}
HalfOf == [accel |-> "ACCEL_GYRO_DROPOUT", gyro |-> "ACCEL_GYRO_DROPOUT", mag |-> "MAG_DROPOUT"]

\* Mutant: the time of a change is written after the window was judged.
StaleOf(age, moved) == age > StaleWindow

\* source_stale: a change restarts the clock before the window is judged.
Stale(age, moved) == ~moved /\ age > StaleWindow

\* Mutant: a half is frozen when all of it is.
EvaluateImuWhole(valid, age, moved, fault) ==
    IF \A s \in Source : HalfOf[s] = fault => s \notin valid \/ Stale(age[s], s \in moved)
    THEN "bad" ELSE "good"

\* evaluate_imu: a half is bad if it does not answer, or answers with a source frozen.
EvaluateImu(valid, age, moved, fault) ==
    IF \E s \in Source : HalfOf[s] = fault /\ (s \notin valid \/ Stale(age[s], s \in moved))
    THEN "bad" ELSE "good"

Says(bad) == IF bad THEN "bad" ELSE "good"

\* evaluate_power and evaluate_temp: an invalid sample is a dropout and no opinion of the
\* values.
EvaluateLevel(level, wrong) == IF level = "invalid" THEN "none" ELSE Says(level = wrong)

\* SensorMonitor::evaluate on a sample, fault by fault.
Evaluate(set, age, moved) ==
    [ACCEL_GYRO_DROPOUT |-> EvaluateImu(set.valid, age, moved, "ACCEL_GYRO_DROPOUT"),
     MAG_DROPOUT        |-> EvaluateImu(set.valid, age, moved, "MAG_DROPOUT"),
     POWER_DROPOUT      |-> Says(set.power = "invalid"),
     UNDERVOLTAGE       |-> EvaluateLevel(set.power, "low"),
     OVERVOLTAGE        |-> EvaluateLevel(set.power, "high"),
     TEMP_DROPOUT       |-> Says(set.temp = "invalid"),
     UNDERTEMPERATURE   |-> EvaluateLevel(set.temp, "cold"),
     OVERTEMPERATURE    |-> EvaluateLevel(set.temp, "hot")]
==============================================================================
