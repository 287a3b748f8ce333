------------------------------ MODULE MCSensing ------------------------------
(***************************************************************************)
(* The sensors with debounces of two samples for three, a stale window of  *)
(* two cycles for five, a bias window of three readings for twenty, two    *)
(* gyro readings further apart than a quiet window admits, and a camera    *)
(* that cuts into a transfer in each of its ways.                          *)
(***************************************************************************)
EXTENDS Sensing

MCFault == {"COMMAND_LINK_LOSS", "ACCEL_GYRO_DROPOUT", "MAG_DROPOUT", "POWER_DROPOUT", "UNDERVOLTAGE", "TEMP_DROPOUT"}
MCSeverity == [f \in MCFault |-> kFaultTable[f][1]]
MCDebounce == [f \in MCFault |-> 2]
MCRates == {-20, 20}
MCCuts == {[at |-> 1, how |-> "start"], [at |-> 3, how |-> "end"], [at |-> 4, how |-> "middle"]}
==============================================================================
