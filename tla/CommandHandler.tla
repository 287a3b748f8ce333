---------------------------- MODULE CommandHandler ---------------------------
(***************************************************************************)
(* fsw/src/comms/command_handler.cpp: validation of a ground command, the  *)
(* recognition of a retransmission and the command-loss timer.  The event  *)
(* log is left out.  The time since the last command is an argument, in    *)
(* ticks, and saturates one past the timeout: the code only ever asks      *)
(* whether it is past it.                                                  *)
(***************************************************************************)
EXTENDS FaultManager

CONSTANTS
    CommandTimeout,  \* kCommandTimeoutMs, in ticks; also kCommandDedupMs
    Uplink           \* the commands the ground may send, a set of Command

CommandId == {"NOOP", "SET_MODE", "CLEAR_FAULT", "CAPTURE_IMAGE", "SET_HEADING",
              "REQUEST_TELEMETRY", "PULSE_WHEEL"}

\* "UNKNOWN" is any id past the catalog, "BAD" any argument out of range, "ANY"
\* an argument the command does not check.
Command == [id  : CommandId \cup {"UNKNOWN"},
            arg : Mode \cup Fault \cup {"BAD", "ANY"},
            seq : Nat]

NoCommand == [id |-> "NONE", arg |-> "ANY", seq |-> 0]

ASSUME CommandAssumption ==
    /\ CommandTimeout \in Nat \ {0}
    /\ Uplink \subseteq Command

\* CmdReject.
Verdict == {"Ok", "UnknownId", "IllegalInMode", "BadArg"}

\* kCommandTable: the modes each command is legal in.
LegalModes(id) ==
    CASE id = "CAPTURE_IMAGE" -> {"STANDBY", "POINTING", "DOWNLINK"}
      [] id = "SET_HEADING"   -> {"POINTING"}
      [] id = "PULSE_WHEEL"   -> {"STANDBY"}
      [] OTHER                -> Mode

\* commandable_mode: BOOT is a mode the ground may not ask for.
CommandableMode(arg) == arg \in Mode \ {"BOOT"}

BadArgument(cmd) ==
    \/ cmd.id = "SET_MODE"      /\ ~CommandableMode(cmd.arg)
    \/ cmd.id = "CLEAR_FAULT"   /\ cmd.arg \notin Fault
    \/ cmd.id = "CAPTURE_IMAGE" /\ cmd.arg = "BAD"

\* Mutant: reachability of the commanded mode is left to the mode manager.
ValidateUnreachable(cmd, mode) ==
    IF cmd.id \notin CommandId THEN "UnknownId"
    ELSE IF mode \notin LegalModes(cmd.id) THEN "IllegalInMode"
    ELSE IF BadArgument(cmd) THEN "BadArg"
    ELSE "Ok"

\* The verdict of CommandHandler::handle on a command that is no repeat.
Validate(cmd, mode) ==
    IF cmd.id \notin CommandId THEN "UnknownId"
    ELSE IF mode \notin LegalModes(cmd.id) THEN "IllegalInMode"
    ELSE IF BadArgument(cmd) THEN "BadArg"
    ELSE IF cmd.id = "SET_MODE" /\ ~ModeTransitionLegal(mode, "Command", cmd.arg)
      THEN "IllegalInMode"
    ELSE "Ok"

\* The previous command's number and answer; "None" is have_last_seq_ = false.
Remembered == [seq : Nat, verdict : Verdict \cup {"None"}]

\* Mutant: the time since the last command is taken after it was stored.
IsDuplicateForever(cmd, prev, silence) ==
    /\ prev.verdict # "None"
    /\ cmd.seq = prev.seq

\* A repeat of the previous sequence number within the dedup window: `prev` is
\* the previous command's number and verdict, `silence` the time since it.
IsDuplicate(cmd, prev, silence) ==
    /\ prev.verdict # "None"
    /\ cmd.seq = prev.seq
    /\ silence <= CommandTimeout

\* CommandHandler::link_lost.
LinkLost(silence) == silence > CommandTimeout

\* Time passes; the counter stops one past the timeout.
Aged(silence, dt) ==
    IF silence + dt > CommandTimeout THEN CommandTimeout + 1 ELSE silence + dt

==============================================================================
