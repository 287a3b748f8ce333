---------------------------- MODULE VehicleModes -----------------------------
(***************************************************************************)
(* What the flight software promises about its operating mode, whatever    *)
(* the debounce counters, timers and tables behind it do: the frame of the *)
(* mode graph (REQ-MODE-003, -005, -006), SAFE left by the ground alone,   *)
(* and a recovery that returns to the mode it interrupted (REQ-MODE-012).  *)
(* One step is one control cycle.                                          *)
(***************************************************************************)
EXTENDS ModeManager

VARIABLES
    mode,   \* the operating mode
    home,   \* where the vehicle goes when it is done detumbling; the mode
            \* itself when it is not detumbling
    order   \* the mode the ground ordered in the last step, or "none"; the
            \* ground may order anything, so every step leaves order' open

vars == <<mode, home, order>>

\* The modes a recovery may interrupt, and so the modes it may return to.
Interruptible == {"STANDBY", "DOWNLINK"}

Init == mode = "BOOT" /\ home = "BOOT" /\ order = "none"

Stay == UNCHANGED <<mode, home>>

Settle(m) == mode' = m /\ home' = m

\* BOOT is never re-entered and SAFE is always reachable.
Safe == mode # "SAFE" /\ Settle("SAFE")

\* The self-check passes, or a mode is given up for lack of a sensor or an
\* actuator; either way the vehicle idles.  SAFE is not left like this.
Idle == mode \notin {"SAFE", "STANDBY"} /\ Settle("STANDBY")

\* The ground takes over the plan, when it does order that mode.  A detumble it
\* asks for ends in STANDBY.
GroundMode(m) ==
    /\ order' = m
    /\ m # mode
    /\ mode = "SAFE" => m = "STANDBY"
    /\ mode = "BOOT" => m \in {"STANDBY", "DETUMBLE"}
    /\ mode' = m
    /\ home' = IF m = "DETUMBLE" THEN "STANDBY" ELSE m

\* The vehicle pulls itself out of a spin and remembers what it was doing, what it
\* had just fallen back to or been ordered to do.
Interrupt ==
    /\ mode \in Interruptible
    /\ mode' = "DETUMBLE"
    /\ home' \in Interruptible \cap {mode, "STANDBY", order'}

\* Done: back where it was.
Recover == mode = "DETUMBLE" /\ Settle(home)

Next ==
    \/ Stay
    \/ Safe
    \/ Idle
    \/ \E m \in {"STANDBY", "DETUMBLE", "POINTING", "DOWNLINK"} : GroundMode(m)
    \/ Interrupt
    \/ Recover

Spec == Init /\ [][Next]_vars
==============================================================================
