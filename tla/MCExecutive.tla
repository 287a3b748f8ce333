----------------------------- MODULE MCExecutive -----------------------------
(***************************************************************************)
(* Instances of Executive for TLC.  Each run gives the environment the     *)
(* faults, commands and rates its question needs, and nothing else.        *)
(***************************************************************************)
EXTENDS Executive

Row(f, i) == kFaultTable[f][i]

\* The shipped policy of the instance's faults.
ShippedSeverity == [f \in Fault |-> Row(f, 1)]
ShippedDebounce == [f \in Fault |-> Row(f, 2)]

\* The shipped severities with a one-sample debounce, where the debounce is not
\* the question.
UnitDebounce == [f \in Fault |-> 1]

Cmd(id, arg, seq) == [id |-> id, arg |-> arg, seq |-> seq]

SetModes(modes, seq) == {Cmd("SET_MODE", m, seq) : m \in modes}

Detected == Fault \ {"COMMAND_LINK_LOSS"}

Inputs(dts, reports, rates, wheels) ==
    [dt : dts, report : reports, cmd : Uplink \cup {NoCommand},
     rate : rates, wheel : wheels]

AllReports == [Detected -> {"bad", "good"}]
OneBad     == {r \in AllReports : \A f, g \in Detected :
                   r[f] = "bad" /\ r[g] = "bad" => f = g}

\* A debounce short enough for TLC and long enough to be seen counting.
BriefDebounce == [f \in Fault |-> IF f = "UNDERVOLTAGE" THEN 2 ELSE 1]

\* Faults, safing and attitude: every kind of command, at most one bad sample, a rate that
\* is quiet or fast; or a cycle for which the sensors published nothing.
GroundUplink ==
    SetModes({"STANDBY", "DETUMBLE", "POINTING", "DOWNLINK"}, 1)
    \cup {Cmd("PULSE_WHEEL", "ANY", 2), Cmd("SET_HEADING", "ANY", 2),
          Cmd("CLEAR_FAULT", "UNDERVOLTAGE", 2)}
BadOnly(faults) == {r \in OneBad : \A f \in Detected : r[f] = "bad" => f \in faults}
FlightEnvironment ==
    Inputs({1}, BadOnly({"UNDERVOLTAGE"}), {"quiet", "fast"}, {"spinning"})
    \cup Inputs({1}, OneBad, {"quiet"}, {"spinning"})
    \cup {[dt |-> 1, report |-> [f \in Detected |-> "none"], cmd |-> NoCommand,
           rate |-> "none", wheel |-> "spinning"]}

\* Liveness: the vehicle is commanded into DETUMBLE, shoved and left alone.
LiveUplink == SetModes({"STANDBY", "DETUMBLE"}, 1) \cup SetModes({"DETUMBLE"}, 2)
              \cup {Cmd("NOOP", "ANY", 2)}
LiveEnvironment == Inputs({1}, AllReports, {"quiet", "drift", "fast"}, {"none"})
==============================================================================
