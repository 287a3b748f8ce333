------------------------------ MODULE WheelNode ------------------------------
(***************************************************************************)
(* esc/src/main.cpp: the reaction-wheel node, a computer of its own behind *)
(* a serial line.  It is silent while it aligns its motor; then it obeys   *)
(* the last command, reports, and coasts when commands stop.  A torque is  *)
(* 0 or 1: whether the wheel is driven.                                    *)
(***************************************************************************)
EXTENDS Naturals, Sequences

CONSTANTS
    AlignTicks,      \* what setup() takes: a second of delay and the alignment
    CommandTimeout,  \* COMMAND_TIMEOUT_MS
    StatusPeriod,    \* STATUS_PERIOD_MS
    RxDepth          \* bound: commands its serial buffer holds

ASSUME WheelNodeAssumption ==
    {AlignTicks, CommandTimeout, StatusPeriod, RxDepth} \subseteq Nat \ {0}

\* Power-up and every restart: nothing spins uncommanded.
EscStart == [alive |-> TRUE, aligning |-> AlignTicks, target |-> 0, since |-> 0, quiet |-> 0, rx |-> <<>>]

Running(esc) == esc.aligning = 0

\* Mutant: the buffer has no end.
DeliverAlways(esc, torque) == [esc EXCEPT !.rx = Append(@, torque)]

\* The line delivers a command; what a full buffer cannot take is lost, so a node that
\* aligns keeps the oldest.
Deliver(esc, torque) ==
    IF Len(esc.rx) < RxDepth THEN [esc EXCEPT !.rx = Append(@, torque)] ELSE esc

\* apply(), for every command waiting: the last one stands, and the clock starts again.
Applied(esc) ==
    IF esc.rx = <<>> THEN esc
    ELSE [esc EXCEPT !.target = esc.rx[Len(esc.rx)], !.since = 0, !.rx = <<>>]

\* Mutant: the node reports that it coasts and drives on.
DeadManReports(esc) == IF esc.since > CommandTimeout THEN [esc EXCEPT !.since = 0] ELSE esc

\* The dead-man: no command for too long.
DeadMan(esc) == IF esc.since > CommandTimeout THEN [esc EXCEPT !.target = 0] ELSE esc

\* A status goes out with every command, when the wheel is let go, and periodically.
Reports(esc) ==
    \/ esc.rx # <<>>
    \/ esc.target # DeadMan(Applied(esc)).target
    \/ esc.quiet > StatusPeriod

\* One pass of loop() as the vehicle's clock sees it, or a step of setup(), whose last
\* line starts the dead-man's clock.
EscLoop(esc) ==
    IF Running(esc)
    THEN [DeadMan(Applied(esc)) EXCEPT !.quiet = IF Reports(esc) THEN 0 ELSE @]
    ELSE [esc EXCEPT !.aligning = IF esc.alive THEN @ - 1 ELSE @, !.quiet = StatusPeriod + 1]

\* Time passes for its two clocks.
EscTick(esc) ==
    IF ~Running(esc) THEN esc
    ELSE [esc EXCEPT !.since = IF @ > CommandTimeout THEN @ ELSE @ + 1,
                     !.quiet = IF @ > StatusPeriod THEN @ ELSE @ + 1]
==============================================================================
