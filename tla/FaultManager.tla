----------------------------- MODULE FaultManager ----------------------------
(***************************************************************************)
(* fsw/src/fault_manager.cpp: the fault table, the debounce, the latch and *)
(* the two questions the executive asks of the latched set.  The latched   *)
(* set and the streak counters are arguments here; the executive keeps     *)
(* them.  The edge log is left out.                                        *)
(***************************************************************************)
EXTENDS Naturals, ModeManager

CONSTANTS
    Fault,      \* the faults of this instance
    Severity,   \* fault -> severity, the policy column of the fault table
    Debounce,   \* fault -> debounce_n, consecutive bad samples that latch it
    Inhibited   \* faults whose response a bench build inhibits at start

ASSUME FaultAssumption ==
    /\ "COMMAND_LINK_LOSS" \in Fault
    /\ Severity \in [Fault -> {"Warning", "Degraded", "Critical"}]
    /\ Debounce \in [Fault -> Nat \ {0}]
    /\ Inhibited \subseteq Fault

\* The table the vehicle ships with: <<severity, debounce_n>> per fault.
kFaultTable ==
    [COMMAND_LINK_LOSS  |-> <<"Critical", 1>>,
     ACCEL_GYRO_DROPOUT |-> <<"Degraded", 3>>,
     MAG_DROPOUT        |-> <<"Warning",  3>>,
     POWER_DROPOUT      |-> <<"Degraded", 3>>,
     UNDERVOLTAGE       |-> <<"Critical", 3>>,
     OVERVOLTAGE        |-> <<"Critical", 3>>,
     OVERCURRENT        |-> <<"Critical", 3>>,
     TEMP_DROPOUT       |-> <<"Warning",  3>>,
     UNDERTEMPERATURE   |-> <<"Warning",  3>>,
     OVERTEMPERATURE    |-> <<"Critical", 3>>,
     WHEEL_DROPOUT      |-> <<"Degraded", 3>>,
     CAMERA_DROPOUT     |-> <<"Warning",  3>>,
     WHEEL_SATURATED    |-> <<"Degraded", 10>>]

\* What a detector says of a fault in one cycle: "none" is a sensor that
\* offered no sample, which leaves the fault's streak alone.
Sample == {"bad", "good", "none"}

\* FaultManager::update, the streak half, for every fault at once (the updates
\* of one cycle touch different faults, so their order is immaterial).
CountStreaks(streak, sample) ==
    [f \in Fault |->
        CASE sample[f] = "bad"  -> IF streak[f] < Debounce[f]
                                     THEN streak[f] + 1 ELSE streak[f]
          [] sample[f] = "good" -> 0
          [] OTHER              -> streak[f]]

\* Mutant: a good sample un-latches.
LatchForgiving(active, counted, sample) ==
    {f \in active : sample[f] # "good"}
    \cup {f \in Fault : sample[f] = "bad" /\ counted[f] >= Debounce[f]}

\* FaultManager::update, the latch half: a bad sample at the threshold latches,
\* a good one un-latches nothing.
Latch(active, counted, sample) ==
    active \cup {f \in Fault : sample[f] = "bad" /\ counted[f] >= Debounce[f]}

\* FaultManager::response_active: latched, and its response not inhibited.
ResponseActive(active, f) == f \in active /\ f \notin Inhibited

\* FaultManager::should_enter_safe: some Critical response is active.
ShouldEnterSafe(active) ==
    \E f \in Fault : Severity[f] = "Critical" /\ ResponseActive(active, f)

==============================================================================
