------------------------------- MODULE MCVigil -------------------------------
(***************************************************************************)
(* The watchdog and the wheel node, one control cycle to a tick: every     *)
(* time divided by 250 ms and rounded, but the alignment and the window    *)
(* that allows for it, which are shortened together (5 s to 2 s, 8 s to    *)
(* 3 s).                                                                   *)
(***************************************************************************)
EXTENDS Vigil

MCDeadline == [t \in Task |-> CASE t = "health" -> 0
                                [] t \in {"uplink", "telemetry"} -> 4
                                [] OTHER -> 2]

MCPace == [t \in Task |-> CASE t = "telemetry" -> 3 [] OTHER -> 1]
==============================================================================
