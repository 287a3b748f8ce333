----------------------------- MODULE ModeManager -----------------------------
(***************************************************************************)
(* fsw/src/mode_manager.cpp: the operating modes, the table of legal       *)
(* transitions and the one operation that changes the mode.  The           *)
(* transition log (a 32-entry ring nothing reads back) is left out.        *)
(***************************************************************************)

Mode == {"BOOT", "STANDBY", "DETUMBLE", "POINTING", "DOWNLINK", "SAFE"}

\* What asked for a transition.  Only the three triggers the flight code uses.
Trigger == {"Nominal", "FaultEntry", "Command"}

kOperating == {"STANDBY", "DETUMBLE", "POINTING", "DOWNLINK", "SAFE"}

\* Mutant: DETUMBLE's row lost its SAFE bit.
kAutoAllowedUnsafe ==
    [m \in Mode |->
        IF m = "BOOT" THEN {"STANDBY", "DETUMBLE", "SAFE"}
        ELSE IF m = "SAFE" THEN {}
        ELSE IF m = "DETUMBLE" THEN kOperating \ {"SAFE"}
        ELSE kOperating]

\* The per-mode allow-list of autonomous transitions.
kAutoAllowed ==
    [m \in Mode |->
        IF m = "BOOT" THEN {"STANDBY", "DETUMBLE", "SAFE"}
        ELSE IF m = "SAFE" THEN {}
        ELSE kOperating]

\* Mutant: the climb out of SAFE forgets to check where to.
ModeTransitionLegalAnywhere(from, trigger, to) ==
    /\ to \in Mode
    /\ \/ from # to /\ to \in kAutoAllowed[from]
       \/ from = "SAFE" /\ trigger = "Command"

\* A table entry, or the one ground-commanded climb out of SAFE.  `to` may be
\* an argument no mode has: it is legal from nowhere.
ModeTransitionLegal(from, trigger, to) ==
    /\ to \in Mode
    /\ \/ from # to /\ to \in kAutoAllowed[from]
       \/ from = "SAFE" /\ trigger = "Command" /\ to = "STANDBY"

\* ModeManager::request: the mode after asking for `to`; a refused request
\* changes nothing.
Request(from, trigger, to) ==
    IF ModeTransitionLegal(from, trigger, to) THEN to ELSE from

==============================================================================
