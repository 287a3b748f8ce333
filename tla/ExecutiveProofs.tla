--------------------------- MODULE ExecutiveProofs ---------------------------
(***************************************************************************)
(* Theorems about Executive for every fault table, command set, timeout,   *)
(* counter limit and environment its assumptions admit.                    *)
(***************************************************************************)
EXTENDS Executive, TLAPS

------------------------------------------------------------------------------
(* The operators the cycle is built from.                                  *)

\* A request yields a mode, and leaves a safed vehicle alone unless it is the
\* ground asking for STANDBY.
LEMMA RequestMode ==
    ASSUME NEW from \in Mode, NEW trigger, NEW to
    PROVE  /\ Request(from, trigger, to) \in Mode
           /\ Request(from, trigger, to) \in {from, to}
           /\ from = "SAFE" /\ ~(trigger = "Command" /\ to = "STANDBY")
                => Request(from, trigger, to) = "SAFE"
BY DEF Request, ModeTransitionLegal, kAutoAllowed, Mode

\* The table lets every operating mode safe, and lets the vehicle idle or detumble
\* from every mode but SAFE.
LEMMA RequestTaken ==
    ASSUME NEW from \in Mode \ {"SAFE"}, NEW trigger
    PROVE  /\ Request(from, trigger, "SAFE") = "SAFE"
           /\ Request(from, trigger, "STANDBY") = "STANDBY"
           /\ Request(from, trigger, "DETUMBLE") = "DETUMBLE"
BY DEF Request, ModeTransitionLegal, kAutoAllowed, kOperating, Mode

\* An accepted SET_MODE names an operating mode reachable from this one.
LEMMA AcceptedMode ==
    ASSUME NEW cmd, NEW m, Validate(cmd, m) = "Ok", cmd.id = "SET_MODE"
    PROVE  /\ cmd.arg \in Mode \ {"BOOT"}
           /\ ModeTransitionLegal(m, "Command", cmd.arg)
BY DEF Validate, BadArgument, CommandableMode, CommandId

\* Streaks stay within the fault table's thresholds.
LEMMA StreaksBounded ==
    ASSUME NEW str \in [Fault -> Nat], \A f \in Fault : str[f] <= Debounce[f],
           NEW sample
    PROVE  /\ CountStreaks(str, sample) \in [Fault -> Nat]
           /\ \A f \in Fault : CountStreaks(str, sample)[f] <= Debounce[f]
BY FaultAssumption DEF CountStreaks

\* The link timer saturates one past the timeout.
LEMMA AgedBounded ==
    ASSUME NEW s \in 0..(CommandTimeout + 1), NEW dt \in Nat \ {0}
    PROVE  Aged(s, dt) \in 0..(CommandTimeout + 1)
BY CommandAssumption DEF Aged
------------------------------------------------------------------------------
(* The skeleton of a cycle.                                                *)

\* What every cycle does to the mode, whatever its inputs: answer the latched
\* faults, obey an accepted SET_MODE unless this cycle safed, then take one of the
\* autonomous edges of DETUMBLE.
Skeleton(in, latched, obeys, pending, now) ==
    /\ active \subseteq latched
    /\ active' \subseteq latched
    /\ obeys => /\ ~Safing(latched)
                /\ in.cmd.arg \in Mode \ {"BOOT"}
                /\ ModeTransitionLegal(mode, "Command", in.cmd.arg)
                /\ Commanded(in.cmd.arg)'
    /\ now = IF obeys THEN Request(Responded(latched), "Command", in.cmd.arg)
             ELSE Responded(latched)
    /\ mode' = ModeAfter(now, in.rate, pending)
    /\ pending = (resumeValid /\ ~obeys)
    /\ lastMode' = now
    /\ pulse' > 0 => now = "STANDBY"
    /\ out'.torque = LawTorque(now, pulse', in.rate, in.wheel)
    /\ \A m : Commanded(m)' => m = in.cmd.arg /\ (obeys \/ Safing(latched))
    /\ enterCycles' = EnterCycles(now, in.rate)
    /\ resumeMode' = IF Interrupts(now, in.rate) THEN now ELSE resumeMode
    /\ resumeValid' = (Interrupts(now, in.rate) \/ (pending /\ ~DetumbleDone(now, in.rate)))

LEMMA CycleSkeleton ==
    ASSUME NEW in \in Input, Cycle(in), active \subseteq Fault
    PROVE  \E latched, obeys, pending, now :
              /\ latched \in SUBSET Fault
              /\ obeys \in BOOLEAN
              /\ pending \in BOOLEAN
              /\ Skeleton(in, latched, obeys, pending, now)
<1> DEFINE cmd     == in.cmd
           before  == Aged(silence, in.dt)
           dup     == Duplicate(cmd, before)
           answer  == Answer(cmd, dup)
           ran     == cmd # NoCommand /\ answer = "Ok" /\ ~dup
           quiet   == IF cmd = NoCommand THEN before ELSE 0
           sample  == Samples(in.report, quiet)
           counted == CountStreaks(streak, sample)
           latched == Latch(active, counted, sample)
           obeys   == ran /\ cmd.id = "SET_MODE" /\ ~Safing(latched)
           now     == IF obeys THEN Request(Responded(latched), "Command", cmd.arg)
                      ELSE Responded(latched)
           pending == resumeValid /\ ~obeys
<1>1. /\ latched \in SUBSET Fault
      /\ active \subseteq latched
  BY DEF Latch
<1>2. active' \subseteq latched
  BY DEF Cycle
<1>3. ASSUME obeys
      PROVE  /\ ~Safing(latched)
             /\ cmd.arg \in Mode \ {"BOOT"}
             /\ ModeTransitionLegal(mode, "Command", cmd.arg)
             /\ Commanded(cmd.arg)'
  <2>1. Validate(cmd, mode) = "Ok"
    BY <1>3 DEF Answer
  <2>2. out'.ran /\ out'.cmd = cmd
    BY <1>3 DEF Cycle
  <2> QED
    BY <1>3, <2>1, <2>2, AcceptedMode DEF Commanded
<1>4. /\ mode' = ModeAfter(now, in.rate, pending)
      /\ enterCycles' = EnterCycles(now, in.rate)
      /\ resumeMode' = IF Interrupts(now, in.rate) THEN now ELSE resumeMode
      /\ resumeValid' = (Interrupts(now, in.rate)
                          \/ (pending /\ ~DetumbleDone(now, in.rate)))
  BY DEF Cycle
<1>5. /\ lastMode' = now
      /\ pulse' > 0 => now = "STANDBY"
      /\ out'.torque = LawTorque(now, pulse', in.rate, in.wheel)
  BY DEF Cycle, PulseLeft
<1>6. \A m : Commanded(m)' => m = cmd.arg /\ (obeys \/ Safing(latched))
  <2>1. out'.ran = ran /\ out'.cmd = cmd
    BY DEF Cycle
  <2> QED
    BY <2>1 DEF Commanded
<1>7. Skeleton(in, latched, obeys, pending, now)
  <2> HIDE DEF latched, obeys, pending, now, ran, answer, dup
  <2>1. now = (IF obeys THEN Request(Responded(latched), "Command", cmd.arg)
               ELSE Responded(latched))
    BY DEF now
  <2>2. pending = (resumeValid /\ ~obeys)
    BY DEF pending
  <2> QED
    BY <1>1, <1>2, <1>3, <1>4, <1>5, <1>6, <2>1, <2>2 DEF Skeleton
<1>8. obeys \in BOOLEAN /\ pending \in BOOLEAN
  OBVIOUS
<1> QED
  BY <1>1, <1>7, <1>8

\* Answering the faults safes the vehicle when a Critical response is active,
\* leaves a safed vehicle safed, gives up a disqualified mode, and otherwise only
\* takes BOOT to STANDBY.
LEMMA Responding ==
    ASSUME mode \in Mode, NEW latched
    PROVE  /\ Responded(latched) \in Mode
           /\ ShouldEnterSafe(latched) => Responded(latched) = "SAFE"
           /\ mode = "SAFE" => Responded(latched) = "SAFE"
           /\ Responded(latched) \in {mode, "SAFE", "STANDBY"}
           /\ Disqualified(mode, latched) => Responded(latched) \in {"SAFE", "STANDBY"}
<1> DEFINE m1 == SafeEntry(latched)
           m2 == BootExit(m1, latched)
<1>1. /\ m1 \in Mode
      /\ ShouldEnterSafe(latched) => m1 = "SAFE"
      /\ m1 \in {mode, "SAFE"}
  BY RequestMode, RequestTaken DEF SafeEntry, Safing
<1>2. /\ m2 \in Mode
      /\ m1 # "BOOT" => m2 = m1
      /\ m2 \in {m1, "STANDBY"}
  BY <1>1, RequestMode DEF BootExit
<1>3. ~Disqualified("SAFE", latched) /\ ~Disqualified("BOOT", latched)
  BY DEF Disqualified, FallbackModes, Steering
<1>4. /\ Responded(latched) \in Mode
      /\ Responded(latched) \in {m2, "STANDBY"}
      /\ m2 = "SAFE" => Responded(latched) = "SAFE"
      /\ Disqualified(m2, latched) => Responded(latched) = "STANDBY"
  <2> HIDE DEF m2, m1
  <2>1. Responded(latched) = Retreat(m2, latched)
    BY DEF Responded, m2, m1
  <2> QED
    BY <1>2, <1>3, <2>1, RequestMode, RequestTaken DEF Retreat
<1> HIDE DEF m1, m2
<1> QED
  BY <1>1, <1>2, <1>3, <1>4 DEF Mode

\* The autonomous edges of DETUMBLE start in the mode the attitude law saw.
LEMMA AutonomousEdges ==
    ASSUME NEW now \in Mode, NEW rate, NEW pending \in BOOLEAN, resumeMode \in {"STANDBY", "DOWNLINK"}
    PROVE  /\ ModeAfter(now, rate, pending) \in Mode
           /\ DetumbleDone(now, rate) =>
                /\ now = "DETUMBLE"
                /\ ModeAfter(now, rate, pending) = IF pending THEN resumeMode ELSE "STANDBY"
           /\ Interrupts(now, rate) =>
                /\ now \in {"STANDBY", "DOWNLINK"}
                /\ enterCycles >= DetumbleEnterCycles
                /\ ModeAfter(now, rate, pending) = "DETUMBLE"
           /\ ~DetumbleDone(now, rate) /\ ~Interrupts(now, rate) =>
                ModeAfter(now, rate, pending) = now
<1>1. DetumbleDone(now, rate) => now = "DETUMBLE"
  BY DEF DetumbleDone, Nulled
<1>2. Interrupts(now, rate) => /\ now \in {"STANDBY", "DOWNLINK"}
                               /\ enterCycles >= DetumbleEnterCycles
  BY DEF Interrupts, Upset
<1>3. /\ Request("DETUMBLE", "Nominal", "STANDBY") = "STANDBY"
      /\ Request("DETUMBLE", "Nominal", "DOWNLINK") = "DOWNLINK"
      /\ Request("STANDBY", "Nominal", "DETUMBLE") = "DETUMBLE"
      /\ Request("DOWNLINK", "Nominal", "DETUMBLE") = "DETUMBLE"
  BY DEF Request, ModeTransitionLegal, kAutoAllowed, kOperating, Mode
<1> QED
  BY <1>1, <1>2, <1>3 DEF ModeAfter, Mode

------------------------------------------------------------------------------
(* Types.                                                                  *)

LEMMA TypeInit == Init => TypeOK
<1> SUFFICES ASSUME Init PROVE TypeOK
  OBVIOUS
<1>1. /\ streak \in [Fault -> Nat]
      /\ \A f \in Fault : streak[f] <= Debounce[f]
  BY FaultAssumption DEF Init
<1>2. out \in Output /\ prev \in Remembered
  BY DEF Init, Output, Torque, Remembered
<1>3. /\ silence \in 0..(CommandTimeout + 1)
      /\ bootCycles \in 0..BootCheckCycles
      /\ doneCycles \in 0..DetumbleDoneCycles
      /\ enterCycles \in 0..DetumbleEnterCycles
      /\ pulse \in 0..PulseTicks
  BY CommandAssumption, ExecutiveAssumption DEF Init
<1> QED
  BY <1>1, <1>2, <1>3 DEF Init, TypeOK, Mode

LEMMA TypeCycle ==
    ASSUME TypeOK, NEW in \in Input, Cycle(in)
    PROVE  TypeOK'
<1> USE FaultAssumption, CommandAssumption, ExecutiveAssumption
<1> DEFINE cmd     == in.cmd
           before  == Aged(silence, in.dt)
           dup     == Duplicate(cmd, before)
           answer  == Answer(cmd, dup)
           ran     == cmd # NoCommand /\ answer = "Ok" /\ ~dup
           quiet   == IF cmd = NoCommand THEN before ELSE 0
           sample  == Samples(in.report, quiet)
           counted == CountStreaks(streak, sample)
           latched == Latch(active, counted, sample)
<1>0. PICK l, obeys, pending, now :
           /\ l \in SUBSET Fault
           /\ obeys \in BOOLEAN
           /\ pending \in BOOLEAN
           /\ Skeleton(in, l, obeys, pending, now)
  BY CycleSkeleton DEF TypeOK
<1>1. now \in Mode
  BY <1>0, Responding, RequestMode DEF Skeleton, TypeOK
<1>2. mode' \in Mode
  BY <1>0, <1>1, AutonomousEdges DEF Skeleton, TypeOK
<1>3. active' \subseteq Fault
  BY <1>0 DEF Skeleton
<1>4. /\ streak' \in [Fault -> Nat]
      /\ \A f \in Fault : streak'[f] <= Debounce[f]
  BY StreaksBounded DEF Cycle, TypeOK
<1>5. answer \in Verdict \cup {"None"} /\ (cmd # NoCommand /\ ~dup => answer \in Verdict)
  BY DEF Answer, Validate, Verdict, TypeOK, Remembered
<1>6. prev' \in Remembered
  <2>1. CASE cmd = NoCommand \/ dup
    BY <2>1 DEF Cycle, TypeOK
  <2>2. CASE cmd # NoCommand /\ ~dup
    <3>1. cmd.seq \in Nat
      BY <2>2 DEF Input, Command
    <3> QED
      BY <2>2, <3>1, <1>5 DEF Cycle, Remembered
  <2> QED
    BY <2>1, <2>2
<1>7. silence' \in 0..(CommandTimeout + 1)
  BY AgedBounded DEF Cycle, TypeOK, Input
<1>8. bootCycles' \in 0..BootCheckCycles
  BY DEF Cycle, TypeOK
<1>9. doneCycles' \in 0..DetumbleDoneCycles
  <2>1. \A n, r : DoneCycles(n, r) \in 0..DetumbleDoneCycles
    BY DEF DoneCycles, DetumbleDone, TypeOK
  <2> QED
    BY <2>1 DEF Cycle
<1>10. enterCycles' \in 0..DetumbleEnterCycles
  BY <1>0 DEF Skeleton, EnterCycles, Interrupts, TypeOK
<1>11. resumeMode' \in {"STANDBY", "DOWNLINK"} /\ resumeValid' \in BOOLEAN
  BY <1>0, <1>1, AutonomousEdges DEF Skeleton, TypeOK
<1>12. lastMode' \in Mode
  <2>1. \A x \in Mode : Responded(latched) \in Mode
    BY Responding DEF TypeOK
  <2> QED
    BY <2>1, Responding, RequestMode DEF Cycle, TypeOK
<1>13. target' \in {"unset", "entry", "past", "ground"}
  BY DEF Cycle, Aim, TypeOK
<1>14. pulse' \in 0..PulseTicks
  <2>1. \A n, st : PulseLeft(n, st, in.dt) \in 0..PulseTicks
    BY DEF PulseLeft, TypeOK, Input
  <2> QED
    BY <2>1 DEF Cycle
<1>15. out' \in Output
  <2>1. \A n, l2, r, w : LawTorque(n, l2, r, w) \in Torque
    BY DEF LawTorque, Torque
  <2>2. cmd \in Uplink \cup {NoCommand}
    BY DEF Input
  <2> QED
    BY <1>5, <2>1, <2>2 DEF Cycle, Output
<1> QED
  BY <1>2, <1>3, <1>4, <1>6, <1>7, <1>8, <1>9, <1>10, <1>11, <1>12, <1>13, <1>14, <1>15
     DEF TypeOK

------------------------------------------------------------------------------
(* The inductive invariant: the types, and the upset count's place.        *)

\* CriticalMeansSafe and the refinement both ask that an autonomous detumble
\* cannot start in the cycle that climbs out of SAFE; it is the count being zero
\* there that makes it so.
IInv == TypeOK /\ UpsetCountedInPlace

LEMMA IInvInit == Init => IInv
BY TypeInit DEF Init, IInv, UpsetCountedInPlace

LEMMA IInvCycle ==
    ASSUME IInv, NEW in \in Input, Cycle(in)
    PROVE  IInv'
<1>1. TypeOK'
  BY TypeCycle DEF IInv
<1>2. PICK l, obeys, pending, now :
           /\ l \in SUBSET Fault
           /\ obeys \in BOOLEAN
           /\ pending \in BOOLEAN
           /\ Skeleton(in, l, obeys, pending, now)
  BY CycleSkeleton DEF IInv, TypeOK
<1>3. ASSUME enterCycles' > 0
      PROVE  mode' \in {"STANDBY", "DOWNLINK"}
  <2>1. Upset(now, in.rate) /\ ~Interrupts(now, in.rate)
    BY <1>2, <1>3 DEF Skeleton, EnterCycles
  <2>2. now \in {"STANDBY", "DOWNLINK"} /\ mode' = now
    BY <1>2, <2>1 DEF Skeleton, Upset, ModeAfter, DetumbleDone, Nulled
  <2> QED
    BY <2>2
<1> QED
  BY <1>1, <1>3 DEF IInv, UpsetCountedInPlace

\* Every step is a cycle with an admissible input, or changes nothing.
LEMMA IInvStep == IInv /\ [Next]_vars => IInv'
<1> SUFFICES ASSUME IInv, [Next]_vars PROVE IInv'
  OBVIOUS
<1>1. CASE Next
  BY <1>1, IInvCycle, ExecutiveAssumption DEF Next
<1>2. CASE UNCHANGED vars
  BY <1>2 DEF IInv, TypeOK, UpsetCountedInPlace, vars
<1> QED
  BY <1>1, <1>2

\* The inductive invariant holds in every reachable state.
THEOREM Inductive == Spec => []IInv
BY IInvInit, IInvStep, PTL DEF Spec

\* The executive's counters stay within their caps and its variables within
\* their types, whatever the environment offers.
THEOREM TypeCorrect == Spec => []TypeOK
<1>1. IInv => TypeOK
  BY DEF IInv
<1> QED
  BY <1>1, Inductive, PTL

\* An upset is counted only where an upset can interrupt.
THEOREM UpsetCounted == Spec => []UpsetCountedInPlace
<1>1. IInv => UpsetCountedInPlace
  BY DEF IInv
<1> QED
  BY <1>1, Inductive, PTL

------------------------------------------------------------------------------
(* What a cycle does to the mode.                                          *)

\* An obeyed SET_MODE is a change of mode that reaches the mode it names: the
\* retreat of the same cycle at most puts STANDBY in between.
LEMMA ObeyedReached ==
    ASSUME mode \in Mode, NEW latched, ~Safing(latched),
           NEW m \in Mode \ {"BOOT"}, ModeTransitionLegal(mode, "Command", m)
    PROVE  /\ Request(Responded(latched), "Command", m) = m
           /\ m # mode
           /\ mode = "SAFE" => m = "STANDBY"
           /\ mode = "BOOT" => m \in {"STANDBY", "DETUMBLE", "SAFE"}
<1>1. /\ m # mode
      /\ mode = "SAFE" => m = "STANDBY"
      /\ mode = "BOOT" => m \in {"STANDBY", "DETUMBLE", "SAFE"}
  BY DEF ModeTransitionLegal, kAutoAllowed, Mode
<1>2. Responded(latched) \in {mode, "STANDBY"}
  <2>1. SafeEntry(latched) = mode
    BY DEF SafeEntry
  <2>2. BootExit(mode, latched) \in {mode, "STANDBY"}
    BY RequestMode DEF BootExit
  <2>3. \A x \in Mode : Retreat(x, latched) \in {x, "STANDBY"}
    BY RequestMode DEF Retreat
  <2> QED
    BY <2>1, <2>2, <2>3 DEF Responded, Mode
<1>3. mode = "SAFE" => Responded(latched) = "SAFE"
  BY Responding
<1>4. Request("STANDBY", "Command", m) = m
  BY DEF Request, ModeTransitionLegal, kAutoAllowed, kOperating, Mode
<1>5. Request(mode, "Command", m) = m
  BY DEF Request
<1> QED
  BY <1>1, <1>2, <1>3, <1>4, <1>5

\* The four ways a cycle ends, by the mode the attitude law saw and by what the
\* autonomous edges made of it.
LEMMA CycleCases ==
    ASSUME IInv, NEW in \in Input, Cycle(in)
    PROVE  \E latched \in SUBSET Fault, obeys \in BOOLEAN, pending \in BOOLEAN, now \in Mode :
              /\ Skeleton(in, latched, obeys, pending, now)
              /\ IF obeys THEN now = in.cmd.arg ELSE now = Responded(latched)
              /\ \/ /\ DetumbleDone(now, in.rate)
                    /\ now = "DETUMBLE"
                    /\ mode' = IF pending THEN resumeMode ELSE "STANDBY"
                    /\ ~Interrupts(now, in.rate)
                 \/ /\ Interrupts(now, in.rate)
                    /\ now \in {"STANDBY", "DOWNLINK"}
                    /\ mode \in {"STANDBY", "DOWNLINK"}
                    /\ mode' = "DETUMBLE"
                    /\ ~DetumbleDone(now, in.rate)
                 \/ /\ mode' = now
                    /\ ~Interrupts(now, in.rate)
                    /\ ~DetumbleDone(now, in.rate)
<1>1. PICK l, obeys, pending, now :
           /\ l \in SUBSET Fault
           /\ obeys \in BOOLEAN
           /\ pending \in BOOLEAN
           /\ Skeleton(in, l, obeys, pending, now)
  BY CycleSkeleton DEF IInv, TypeOK
<1>2. mode \in Mode /\ resumeMode \in {"STANDBY", "DOWNLINK"}
  BY DEF IInv, TypeOK
<1>3. IF obeys THEN now = in.cmd.arg ELSE now = Responded(l)
  BY <1>1, <1>2, ObeyedReached DEF Skeleton
<1>4. now \in Mode
  BY <1>1, <1>2, <1>3, Responding DEF Skeleton
<1>5. mode' = ModeAfter(now, in.rate, pending)
  BY <1>1 DEF Skeleton
<1>6. Interrupts(now, in.rate) => mode \in {"STANDBY", "DOWNLINK"}
  <2>1. ASSUME Interrupts(now, in.rate) PROVE enterCycles > 0
    BY <2>1, <1>2, <1>4, AutonomousEdges, ExecutiveAssumption DEF IInv, TypeOK
  <2> QED
    BY <2>1 DEF IInv, UpsetCountedInPlace
<1>7. ~(Interrupts(now, in.rate) /\ DetumbleDone(now, in.rate))
  BY <1>2, <1>4, AutonomousEdges
<1> QED
  BY <1>1, <1>2, <1>3, <1>4, <1>5, <1>6, <1>7, AutonomousEdges

------------------------------------------------------------------------------
(* Safety.                                                                 *)

LEMMA SafingCycle ==
    ASSUME IInv, NEW in \in Input, Cycle(in)
    PROVE  CriticalMeansSafe'
<1> SUFFICES ASSUME ShouldEnterSafe(active')
             PROVE  mode' = "SAFE" \/ (mode' = "STANDBY" /\ Commanded("STANDBY")')
  BY DEF CriticalMeansSafe
<1>1. PICK l \in SUBSET Fault, obeys \in BOOLEAN, pending \in BOOLEAN, now \in Mode :
         /\ Skeleton(in, l, obeys, pending, now)
         /\ IF obeys THEN now = in.cmd.arg ELSE now = Responded(l)
         /\ \/ now = "DETUMBLE"
            \/ mode \in {"STANDBY", "DOWNLINK"}
            \/ mode' = now
  BY CycleCases
<1>2. ShouldEnterSafe(l)
  BY <1>1 DEF Skeleton, ShouldEnterSafe, ResponseActive
<1>3. Responded(l) = "SAFE"
  BY <1>2, Responding DEF IInv, TypeOK
<1>4. CASE ~obeys
  <2>1. now = "SAFE"
    BY <1>1, <1>3, <1>4
  <2>2. mode' = "SAFE"
    BY <1>1, <2>1 DEF Skeleton, ModeAfter, DetumbleDone, Nulled, Interrupts, Upset
  <2> QED
    BY <2>2
<1>5. CASE obeys
  <2>1. mode = "SAFE"
    BY <1>1, <1>2, <1>5 DEF Skeleton, Safing
  <2>2. now = "STANDBY" /\ Commanded("STANDBY")'
    BY <1>1, <1>5, <2>1, ObeyedReached DEF Skeleton, IInv, TypeOK
  <2> QED
    BY <1>1, <2>1, <2>2
<1> QED
  BY <1>4, <1>5

\* REQ-FAULT-002, -006: whenever a Critical response is active the vehicle is safed,
\* but for the cycle in which the ground itself climbs out.
THEOREM CriticalSafes == Spec => []CriticalMeansSafe
<1>1. Init => CriticalMeansSafe
  BY DEF Init, CriticalMeansSafe, ShouldEnterSafe, ResponseActive
<1>2. IInv /\ CriticalMeansSafe /\ [Next]_vars => CriticalMeansSafe'
  <2> SUFFICES ASSUME IInv, CriticalMeansSafe, [Next]_vars PROVE CriticalMeansSafe'
    OBVIOUS
  <2>1. CASE Next
    BY <2>1, SafingCycle, ExecutiveAssumption DEF Next
  <2>2. CASE UNCHANGED vars
    BY <2>2 DEF CriticalMeansSafe, Commanded, vars
  <2> QED
    BY <2>1, <2>2
<1> QED
  BY <1>1, <1>2, Inductive, PTL DEF Spec

\* REQ-MODE-006: only an executed, first-time SET_MODE STANDBY leaves SAFE.
THEOREM OnlyGroundLeavesSafe == Spec => SafeLeftByGround
<1> DEFINE Edge == mode = "SAFE" /\ mode' # "SAFE"
                     => mode' = "STANDBY" /\ Commanded("STANDBY")'
<1>1. ASSUME IInv, NEW in \in Input, Cycle(in), mode = "SAFE", mode' # "SAFE"
      PROVE  mode' = "STANDBY" /\ Commanded("STANDBY")'
  <2>1. PICK l \in SUBSET Fault, obeys \in BOOLEAN, pending \in BOOLEAN, now \in Mode :
           /\ Skeleton(in, l, obeys, pending, now)
           /\ IF obeys THEN now = in.cmd.arg ELSE now = Responded(l)
           /\ now = "DETUMBLE" \/ mode \in {"STANDBY", "DOWNLINK"} \/ mode' = now
    BY <1>1, CycleCases
  <2>2. Responded(l) = "SAFE"
    BY <1>1, Responding DEF IInv, TypeOK
  <2>3. obeys
    BY <1>1, <2>1, <2>2
  <2>4. in.cmd.arg = "STANDBY" /\ Commanded("STANDBY")'
    BY <1>1, <2>1, <2>3, ObeyedReached DEF Skeleton, IInv, TypeOK
  <2> QED
    BY <1>1, <2>1, <2>3, <2>4
<1>2. IInv /\ [Next]_vars => [Edge]_vars
  BY <1>1, ExecutiveAssumption DEF Next
<1> QED
  BY <1>2, Inductive, PTL DEF Spec, SafeLeftByGround

\* REQ-FAULT-001, -004, -010: a fault latches on the bad sample that completes its
\* debounce and is cleared by the ground alone.
THEOREM LatchesEarned == Spec => LatchEdges
<1> DEFINE Edge ==
      /\ \A f \in active' \ active : /\ streak[f] >= Debounce[f] - 1
                                     /\ streak'[f] = Debounce[f]
      /\ \A f \in active \ active' : /\ out'.ran
                                     /\ out'.cmd.id = "CLEAR_FAULT"
                                     /\ out'.cmd.arg = f
<1>1. ASSUME IInv, NEW in \in Input, Cycle(in)
      PROVE  Edge
  <2> DEFINE cmd     == in.cmd
             before  == Aged(silence, in.dt)
             dup     == Duplicate(cmd, before)
             answer  == Answer(cmd, dup)
             ran     == cmd # NoCommand /\ answer = "Ok" /\ ~dup
             quiet   == IF cmd = NoCommand THEN before ELSE 0
             sample  == Samples(in.report, quiet)
             counted == CountStreaks(streak, sample)
             latched == Latch(active, counted, sample)
  <2>1. /\ active' = latched \ (IF ran /\ cmd.id = "CLEAR_FAULT" THEN {cmd.arg} ELSE {})
        /\ streak' = counted
        /\ out'.ran = ran
        /\ out'.cmd = cmd
    BY <1>1 DEF Cycle
  <2>2. ASSUME NEW f \in active' \ active
        PROVE  streak[f] >= Debounce[f] - 1 /\ streak'[f] = Debounce[f]
    <3>1. f \in Fault /\ sample[f] = "bad" /\ counted[f] >= Debounce[f]
      BY <2>1, <2>2 DEF Latch
    <3>2. /\ streak[f] \in Nat /\ Debounce[f] \in Nat /\ streak[f] <= Debounce[f]
      BY <1>1, <3>1, FaultAssumption DEF IInv, TypeOK
    <3>3. counted[f] = IF streak[f] < Debounce[f] THEN streak[f] + 1 ELSE streak[f]
      BY <3>1 DEF CountStreaks
    <3> QED
      BY <2>1, <3>1, <3>2, <3>3
  <2>3. ASSUME NEW f \in active \ active'
        PROVE  out'.ran /\ out'.cmd.id = "CLEAR_FAULT" /\ out'.cmd.arg = f
    <3>1. f \in latched
      BY <2>3 DEF Latch
    <3> QED
      BY <2>1, <2>3, <3>1
  <2> QED
    BY <2>2, <2>3
<1>2. IInv /\ [Next]_vars => [Edge]_vars
  BY <1>1, ExecutiveAssumption DEF Next
<1> QED
  BY <1>2, Inductive, PTL DEF Spec, LatchEdges

\* REQ-FAULT-005: a mode a latched fault disqualifies is never held over a cycle.
THEOREM DisqualifiedGivenUp == Spec => DisqualifiedNotHeld
<1> DEFINE Edge == \A f \in Fault :
      ResponseActive(active', f) /\ mode' \in FallbackModes(f) => mode' # mode
<1>1. ASSUME IInv, NEW in \in Input, Cycle(in), NEW f \in Fault,
             ResponseActive(active', f), mode' \in FallbackModes(f), mode' = mode
      PROVE  FALSE
  <2>1. PICK l \in SUBSET Fault, obeys \in BOOLEAN, pending \in BOOLEAN, now \in Mode :
           /\ Skeleton(in, l, obeys, pending, now)
           /\ IF obeys THEN now = in.cmd.arg ELSE now = Responded(l)
           /\ \/ now = "DETUMBLE" /\ mode' = IF pending THEN resumeMode ELSE "STANDBY"
              \/ mode \in {"STANDBY", "DOWNLINK"} /\ mode' = "DETUMBLE"
              \/ mode' = now
    BY <1>1, CycleCases
  <2>2. Disqualified(mode, l)
    BY <1>1, <2>1 DEF Skeleton, Disqualified, ResponseActive
  <2>3. Responded(l) \in {"SAFE", "STANDBY"}
    BY <1>1, <2>2, Responding DEF IInv, TypeOK
  <2>4. mode \in Steering \cup {"DOWNLINK"}
    BY <1>1 DEF FallbackModes, Steering
  <2>5. obeys => now # mode /\ ~pending
    BY <1>1, <2>1, ObeyedReached DEF Skeleton, IInv, TypeOK
  <2>6. ~obeys => now \in {"SAFE", "STANDBY"}
    BY <2>1, <2>3
  <2>7. CASE now = "DETUMBLE" /\ mode' = IF pending THEN resumeMode ELSE "STANDBY"
    <3>1. pending
      BY <1>1, <2>4, <2>7 DEF Steering
    <3> QED
      BY <2>5, <2>6, <2>7, <3>1
  <2>8. CASE mode \in {"STANDBY", "DOWNLINK"} /\ mode' = "DETUMBLE"
    BY <1>1, <2>8
  <2>9. CASE mode' = now
    BY <1>1, <2>4, <2>5, <2>6, <2>9 DEF Steering
  <2> QED
    BY <2>1, <2>7, <2>8, <2>9
<1>2. IInv /\ [Next]_vars => [Edge]_vars
  BY <1>1, ExecutiveAssumption DEF Next
<1> QED
  BY <1>2, Inductive, PTL DEF Spec, DisqualifiedNotHeld

\* A vehicle that ends a cycle booting, safed or downlinking has left no torque on
\* the wheel, whatever it was doing when the cycle began.
THEOREM WheelIdle == Spec => []IdleWheelUnforced
<1>1. Init => IdleWheelUnforced
  BY DEF Init, IdleWheelUnforced
<1>2. ASSUME IInv, NEW in \in Input, Cycle(in), mode' \in {"BOOT", "SAFE", "DOWNLINK"}
      PROVE  out'.torque = "zero"
  <2>1. PICK l \in SUBSET Fault, obeys \in BOOLEAN, pending \in BOOLEAN, now \in Mode :
           /\ Skeleton(in, l, obeys, pending, now)
           /\ \/ DetumbleDone(now, in.rate)
              \/ mode' = "DETUMBLE"
              \/ mode' = now
    BY <1>2, CycleCases
  <2>2. pulse' \in Nat
    BY <1>2, TypeCycle, ExecutiveAssumption DEF IInv, TypeOK
  <2>3. now # "STANDBY" /\ (now = "DETUMBLE" => in.rate = "quiet") /\ now # "POINTING"
    BY <1>2, <2>1 DEF DetumbleDone, Nulled
  <2>4. pulse' = 0
    BY <2>1, <2>2, <2>3 DEF Skeleton
  <2> QED
    BY <2>1, <2>3, <2>4 DEF Skeleton, LawTorque
<1>3. IInv /\ IdleWheelUnforced /\ [Next]_vars => IdleWheelUnforced'
  BY <1>2, ExecutiveAssumption DEF Next, IdleWheelUnforced, vars
<1> QED
  BY <1>1, <1>3, Inductive, PTL DEF Spec

\* An actuator test pulse never outlives STANDBY.
THEOREM PulseStaysInStandby == Spec => []PulseBounded
<1>1. Init => PulseBounded
  BY TypeInit DEF Init, PulseBounded
<1>2. ASSUME IInv, NEW in \in Input, Cycle(in)
      PROVE  PulseBounded'
  <2>1. PICK l \in SUBSET Fault, obeys \in BOOLEAN, pending \in BOOLEAN, now \in Mode :
           /\ Skeleton(in, l, obeys, pending, now)
           /\ now = "DETUMBLE" \/ mode' = "DETUMBLE" \/ mode' = now
    BY <1>2, CycleCases
  <2> QED
    BY <1>2, <2>1, TypeCycle DEF Skeleton, PulseBounded, IInv
<1>3. IInv /\ PulseBounded /\ [Next]_vars => PulseBounded'
  <2>1. IInv /\ PulseBounded /\ UNCHANGED vars => PulseBounded'
    BY IInvStep DEF PulseBounded, IInv, vars
  <2> QED  BY <1>2, <2>1, ExecutiveAssumption DEF Next
<1> QED
  BY <1>1, <1>3, Inductive, PTL DEF Spec

\* While the attitude law sees POINTING the target belongs to this visit or to the ground.
BearingKnown == lastMode = "POINTING" => target \in {"entry", "ground"}

\* POINTING steers at the heading this visit began at or at a bearing the ground named,
\* whatever modes, visits and bearings came before.
THEOREM BearingWasChosen == Spec => []PointsAtChosenBearing
<1> DEFINE Inv == BearingKnown /\ PointsAtChosenBearing
<1>1. Init => Inv
  BY DEF Init, BearingKnown, PointsAtChosenBearing
<1>2. ASSUME Inv, NEW in \in Input, Cycle(in)
      PROVE  Inv'
  <2>1. PICK now, named, left :
          /\ lastMode' = now
          /\ target' = Aim(now, named)
          /\ out'.torque = LawTorque(now, left, in.rate, in.wheel)
    BY <1>2 DEF Cycle
  <2>2. BearingKnown'
    BY <1>2, <2>1 DEF Aim, BearingKnown
  <2>3. out'.torque = "point" => now = "POINTING"
    BY <2>1 DEF LawTorque
  <2> QED  BY <2>1, <2>2, <2>3 DEF BearingKnown, PointsAtChosenBearing
<1>3. Inv /\ [Next]_vars => Inv'
  <2> HIDE DEF Inv
  <2>1. Inv /\ Next => Inv'
    BY <1>2, ExecutiveAssumption DEF Next
  <2>2. Inv /\ UNCHANGED vars => Inv'
    BY DEF Inv, vars, BearingKnown, PointsAtChosenBearing
  <2> QED  BY <2>1, <2>2
<1>4. Inv => PointsAtChosenBearing
  OBVIOUS
<1> QED  BY <1>1, <1>3, <1>4, PTL DEF Spec

------------------------------------------------------------------------------
(* The self-check.                                                         *)

\* The faults that safe the vehicle.
Safes(f) == Severity[f] = "Critical" /\ f \notin Inhibited

\* While the vehicle boots nothing that safes it is latched, or was: the ground cannot
\* have cleared it, since the cycle that latched it ended the boot.
BootClean ==
    mode = "BOOT" => \A f \in Fault : Safes(f) => f \notin active /\ streak[f] < Debounce[f]

\* BOOT ends in SAFE, or every such fault has a sample to its credit; and unless the
\* ground ended it, the self-check has run its length.
LEMMA BootCycle ==
    ASSUME IInv, BootClean, mode = "BOOT", NEW in \in Input, Cycle(in)
    PROVE  \/ mode' = "SAFE"
           \/ /\ \A f \in Fault : Safes(f) => f \notin active' /\ streak'[f] < Debounce[f]
              /\ mode' # "BOOT" /\ ~out'.ran => bootCycles >= BootCheckCycles
<1> DEFINE cmd     == in.cmd
           before  == Aged(silence, in.dt)
           dup     == Duplicate(cmd, before)
           answer  == Answer(cmd, dup)
           ran     == cmd # NoCommand /\ answer = "Ok" /\ ~dup
           quiet   == IF cmd = NoCommand THEN before ELSE 0
           sample  == Samples(in.report, quiet)
           counted == CountStreaks(streak, sample)
           latched == Latch(active, counted, sample)
           obeys   == ran /\ cmd.id = "SET_MODE" /\ ~Safing(latched)
           now     == IF obeys THEN Request(Responded(latched), "Command", cmd.arg)
                      ELSE Responded(latched)
           pending == resumeValid /\ ~obeys
<1>1. mode' = ModeAfter(now, in.rate, pending) /\ out'.ran = ran /\ streak' = counted
  BY DEF Cycle
<1>2. active' \subseteq latched
  BY DEF Cycle
<1>3. CASE ShouldEnterSafe(latched)
  <2>1. ~obeys
    BY <1>3 DEF Safing
  <2>2. Responded(latched) = "SAFE"
    BY <1>3, Responding DEF IInv, TypeOK
  <2> HIDE DEF obeys, latched, pending
  <2>3. now = "SAFE"
    BY <2>1, <2>2
  <2> HIDE DEF now
  <2>4. mode' = "SAFE"
    BY <1>1, <2>3 DEF ModeAfter, DetumbleDone, Nulled, Interrupts, Upset
  <2> QED  BY <2>4
<1>4. CASE ~ShouldEnterSafe(latched)
  <2>1. ASSUME NEW f \in Fault, Safes(f)
        PROVE  f \notin active' /\ streak'[f] < Debounce[f]
    <3>1. f \notin latched
      BY <1>4, <2>1 DEF ShouldEnterSafe, ResponseActive, Safes
    <3>2. streak[f] \in Nat /\ Debounce[f] \in Nat \ {0} /\ streak[f] < Debounce[f]
      BY <2>1, FaultAssumption DEF IInv, TypeOK, BootClean
    <3>3. counted[f] = CASE sample[f] = "bad"  -> IF streak[f] < Debounce[f]
                                                  THEN streak[f] + 1 ELSE streak[f]
                         [] sample[f] = "good" -> 0
                         [] OTHER              -> streak[f]
      BY DEF CountStreaks
    <3>4. ~(sample[f] = "bad" /\ counted[f] >= Debounce[f])
      BY <3>1 DEF Latch
    <3> HIDE DEF sample, counted, latched
    <3>5. counted[f] < Debounce[f]
      BY <3>2, <3>3, <3>4
    <3> QED  BY <1>1, <1>2, <3>1, <3>5
  <2>2. ASSUME mode' # "BOOT", ~out'.ran, ~(bootCycles >= BootCheckCycles)
        PROVE  FALSE
    <3>1. ~obeys
      BY <1>1, <2>2
    <3>2. SafeEntry(latched) = "BOOT"
      BY <1>4 DEF SafeEntry, Safing
    <3>3. BootExit("BOOT", latched) = "BOOT"
      BY <2>2 DEF BootExit
    <3>4. ~Disqualified("BOOT", latched)
      BY DEF Disqualified, FallbackModes, Steering
    <3>5. Responded(latched) = "BOOT"
      BY <3>2, <3>3, <3>4 DEF Responded, Retreat
    <3> HIDE DEF obeys, latched, pending
    <3>6. now = "BOOT"
      BY <3>1, <3>5
    <3> HIDE DEF now
    <3>7. mode' = "BOOT"
      BY <1>1, <3>6 DEF ModeAfter, DetumbleDone, Nulled, Interrupts, Upset
    <3> QED  BY <2>2, <3>7
  <2> QED  BY <2>1, <2>2
<1> QED  BY <1>3, <1>4

\* No cycle enters BOOT.
LEMMA BootNotEntered ==
    ASSUME IInv, NEW in \in Input, Cycle(in), mode' = "BOOT"
    PROVE  mode = "BOOT"
<1>1. PICK l \in SUBSET Fault, obeys \in BOOLEAN, pending \in BOOLEAN, now \in Mode :
         /\ Skeleton(in, l, obeys, pending, now)
         /\ IF obeys THEN now = in.cmd.arg ELSE now = Responded(l)
         /\ \/ mode' = IF pending THEN resumeMode ELSE "STANDBY"
            \/ mode' = "DETUMBLE"
            \/ mode' = now
  BY CycleCases
<1>2. now = "BOOT"
  BY <1>1 DEF IInv, TypeOK
<1>3. ~obeys
  BY <1>1, <1>2 DEF Skeleton
<1> QED  BY <1>1, <1>2, <1>3, Responding DEF IInv, TypeOK

\* What the self-check has to outlast: executive.hpp has three cycles of it, the fault
\* table no Critical debounce above three.
CheckOutlasts == \A f \in Fault : Safes(f) => Debounce[f] <= BootCheckCycles + 1

\* REQ-MODE-010: the vehicle leaves BOOT on its own for an operating mode only if every
\* fault that would safe it has missed a bad sample since boot.
THEOREM BootCheckMeansIt == ASSUME CheckOutlasts PROVE Spec => BootCheckSound
<1> DEFINE Inv  == IInv /\ BootClean
           Edge == mode = "BOOT" /\ mode' \notin {"BOOT", "SAFE"} /\ ~out'.ran =>
                     \A f \in Fault \ Inhibited :
                        Severity[f] = "Critical" =>
                           streak'[f] < IF bootCycles + 1 < Debounce[f] THEN bootCycles + 1
                                        ELSE Debounce[f]
<1>1. Init => Inv
  <2>1. Init => BootClean
    BY FaultAssumption DEF Init, BootClean
  <2> QED  BY <2>1, IInvInit
<1>2. ASSUME Inv, NEW in \in Input, Cycle(in)
      PROVE  BootClean'
  <2> SUFFICES ASSUME mode' = "BOOT"
               PROVE  \A f \in Fault : Safes(f) => f \notin active' /\ streak'[f] < Debounce[f]
    BY DEF BootClean, Safes
  <2>1. mode = "BOOT"
    BY <1>2, BootNotEntered
  <2> QED  BY <1>2, <2>1, BootCycle
<1>3. ASSUME Inv, NEW in \in Input, Cycle(in)
      PROVE  Edge
  <2> SUFFICES ASSUME mode = "BOOT", mode' \notin {"BOOT", "SAFE"}, ~out'.ran,
                      NEW f \in Fault \ Inhibited, Severity[f] = "Critical"
               PROVE  streak'[f] < IF bootCycles + 1 < Debounce[f] THEN bootCycles + 1
                                   ELSE Debounce[f]
    OBVIOUS
  <2>1. Safes(f)
    BY DEF Safes
  <2>2. streak'[f] < Debounce[f] /\ bootCycles >= BootCheckCycles
    BY <1>3, <2>1, BootCycle
  <2>3. Debounce[f] <= BootCheckCycles + 1
    BY <2>1 DEF CheckOutlasts
  <2>4. bootCycles \in Nat /\ BootCheckCycles \in Nat /\ Debounce[f] \in Nat
    BY <1>3, ExecutiveAssumption, FaultAssumption DEF IInv, TypeOK
  <2> QED  BY <2>2, <2>3, <2>4
<1>4. Inv /\ [Next]_vars => Inv'
  <2>1. BootClean /\ UNCHANGED vars => BootClean'
    BY DEF vars, BootClean, Safes
  <2>2. Inv /\ Next => BootClean'
    BY <1>2, ExecutiveAssumption DEF Next
  <2> QED  BY <2>1, <2>2, IInvStep
<1>5. Inv /\ [Next]_vars => [Edge]_vars
  BY <1>3, ExecutiveAssumption DEF Next
<1> HIDE DEF Inv
<1> QED  BY <1>1, <1>4, <1>5, PTL DEF Spec, BootCheckSound

\* REQ-CMD-006: an executed SET_MODE takes effect, is overridden by a safing, or
\* waits for a detumble to end.
THEOREM CommandsObeyed == Spec => CommandObeyed
<1> DEFINE Obeyed(m) ==
      \/ mode' = m
      \/ mode # "SAFE" /\ mode' = "SAFE"
      \/ mode' = "DETUMBLE" /\ resumeValid' /\ resumeMode' = m
      \/ m = "DETUMBLE" /\ mode' = "STANDBY" /\ doneCycles = DetumbleDoneCycles
<1> DEFINE Edge == \A m \in Mode : Commanded(m)' => Obeyed(m)
<1>1. ASSUME IInv, NEW in \in Input, Cycle(in), NEW m \in Mode, Commanded(m)'
      PROVE  Obeyed(m)
  <2>1. PICK l \in SUBSET Fault, obeys \in BOOLEAN, pending \in BOOLEAN, now \in Mode :
           /\ Skeleton(in, l, obeys, pending, now)
           /\ IF obeys THEN now = in.cmd.arg ELSE now = Responded(l)
           /\ \/ /\ DetumbleDone(now, in.rate)
                 /\ now = "DETUMBLE"
                 /\ mode' = IF pending THEN resumeMode ELSE "STANDBY"
              \/ Interrupts(now, in.rate) /\ mode' = "DETUMBLE" /\ mode \in {"STANDBY", "DOWNLINK"}
              \/ mode' = now
    BY <1>1, CycleCases
  <2>2. m = in.cmd.arg /\ (obeys \/ Safing(l))
    BY <1>1, <2>1 DEF Skeleton
  <2>3. CASE obeys
    <3>1. now = m /\ ~pending
      BY <2>1, <2>2, <2>3 DEF Skeleton
    <3>2. DetumbleDone(now, in.rate) => doneCycles = DetumbleDoneCycles
      BY <1>1, ExecutiveAssumption DEF DetumbleDone, IInv, TypeOK
    <3>3. Interrupts(now, in.rate) => resumeValid' /\ resumeMode' = now
      BY <2>1 DEF Skeleton
    <3> QED
      BY <2>1, <3>1, <3>2, <3>3
  <2>4. CASE ~obeys
    <3>1. Safing(l) /\ Responded(l) = "SAFE"
      BY <1>1, <2>2, <2>4, Responding DEF Safing, IInv, TypeOK
    <3>2. mode' = "SAFE" /\ mode # "SAFE"
      BY <2>1, <2>4, <3>1 DEF Safing, Interrupts, Upset
    <3> QED
      BY <3>2
  <2> QED
    BY <2>3, <2>4
<1>2. IInv /\ [Next]_vars => [Edge]_vars
  BY <1>1, ExecutiveAssumption DEF Next
<1> QED
  BY <1>2, Inductive, PTL DEF Spec, CommandObeyed

------------------------------------------------------------------------------
(* The executive implements the mode contract of VehicleModes.             *)

LEMMA ContractInit == Init => Modes!Init
BY DEF Init, Modes!Init, Home, Order

LEMMA ContractCycle ==
    ASSUME IInv, NEW in \in Input, Cycle(in)
    PROVE  Modes!Next
<1>1. PICK l \in SUBSET Fault, obeys \in BOOLEAN, pending \in BOOLEAN, now \in Mode :
         /\ Skeleton(in, l, obeys, pending, now)
         /\ IF obeys THEN now = in.cmd.arg ELSE now = Responded(l)
         /\ \/ /\ DetumbleDone(now, in.rate)
               /\ now = "DETUMBLE"
               /\ mode' = IF pending THEN resumeMode ELSE "STANDBY"
               /\ ~Interrupts(now, in.rate)
            \/ /\ Interrupts(now, in.rate)
               /\ now \in {"STANDBY", "DOWNLINK"}
               /\ mode \in {"STANDBY", "DOWNLINK"}
               /\ mode' = "DETUMBLE"
               /\ ~DetumbleDone(now, in.rate)
            \/ /\ mode' = now
               /\ ~Interrupts(now, in.rate)
               /\ ~DetumbleDone(now, in.rate)
  BY CycleCases
<1>2. /\ pending = (resumeValid /\ ~obeys)
      /\ resumeMode' = IF Interrupts(now, in.rate) THEN now ELSE resumeMode
      /\ resumeValid' = (Interrupts(now, in.rate)
                          \/ (pending /\ ~DetumbleDone(now, in.rate)))
  BY <1>1 DEF Skeleton
<1>3. mode \in Mode /\ resumeMode \in {"STANDBY", "DOWNLINK"} /\ resumeValid \in BOOLEAN
  BY DEF IInv, TypeOK
<1>4. obeys => /\ now \in Mode \ {"BOOT"}
               /\ now # mode
               /\ mode = "SAFE" => now = "STANDBY"
               /\ mode = "BOOT" => now \in {"STANDBY", "DETUMBLE", "SAFE"}
  BY <1>1, <1>3, ObeyedReached DEF Skeleton
<1>5. ~obeys => /\ now \in {mode, "SAFE", "STANDBY"}
                /\ mode = "SAFE" => now = "SAFE"
  BY <1>1, <1>3, Responding
<1>6. obeys => Order' = now
  BY <1>1 DEF Skeleton, Commanded, Order
\* A finished detumble returns home, or ends one the ground has just ordered.
<1>7. CASE DetumbleDone(now, in.rate)
  <2>1. /\ now = "DETUMBLE"
        /\ mode' = IF pending THEN resumeMode ELSE "STANDBY"
        /\ Home' = mode'
    BY <1>1, <1>3, <1>7 DEF Home
  <2>2. CASE ~obeys
    <3>1. mode = "DETUMBLE" /\ mode' = Home
      BY <1>2, <1>5, <2>1, <2>2 DEF Home
    <3>2. Modes!Recover
      BY <2>1, <3>1 DEF Modes!Recover, Modes!Settle
    <3> QED
      BY <3>2 DEF Modes!Next
  <2>3. CASE obeys
    <3>1. mode \notin {"SAFE", "DETUMBLE"} /\ mode' = "STANDBY"
      BY <1>2, <1>4, <2>1, <2>3
    <3>2. CASE mode = "STANDBY"
      BY <2>1, <3>1, <3>2 DEF Home, Modes!Next, Modes!Stay
    <3>3. CASE mode # "STANDBY"
      BY <2>1, <3>1, <3>3 DEF Modes!Next, Modes!Idle, Modes!Settle
    <3> QED
      BY <3>2, <3>3
  <2> QED
    BY <2>2, <2>3
\* An upset interrupts what the vehicle was doing, or what it was just told to do.
<1>8. CASE Interrupts(now, in.rate)
  <2>1. /\ mode \in {"STANDBY", "DOWNLINK"}
        /\ mode' = "DETUMBLE"
        /\ Home' = now /\ now \in {"STANDBY", "DOWNLINK"}
    BY <1>1, <1>2, <1>8 DEF Home
  <2>2. now \in {mode, "STANDBY", Order'}
    BY <1>5, <1>6, <2>1
  <2> QED
    BY <2>1, <2>2 DEF Modes!Next, Modes!Interrupt, Modes!Interruptible
\* No autonomous edge: the mode the attitude law saw stands.
<1>9. CASE ~DetumbleDone(now, in.rate) /\ ~Interrupts(now, in.rate)
  <2>1. /\ mode' = now
        /\ resumeValid' = pending
        /\ resumeMode' = resumeMode
    BY <1>1, <1>2, <1>9
  <2>2. CASE obeys
    <3>1. Home' = IF now = "DETUMBLE" THEN "STANDBY" ELSE now
      BY <1>2, <2>1, <2>2 DEF Home
    <3>2. CASE now = "SAFE"
      BY <1>4, <2>1, <2>2, <3>1, <3>2 DEF Modes!Next, Modes!Safe, Modes!Settle
    <3>3. CASE now # "SAFE"
      <4>1. now \in {"STANDBY", "DETUMBLE", "POINTING", "DOWNLINK"}
        BY <1>4, <2>2, <3>3 DEF Mode
      <4>2. Modes!GroundMode(now)
        BY <1>4, <1>6, <2>1, <2>2, <3>1, <3>3 DEF Modes!GroundMode
      <4> QED
        BY <4>1, <4>2 DEF Modes!Next
    <3> QED
      BY <3>2, <3>3
  <2>3. CASE ~obeys /\ now = mode
    BY <1>2, <2>1, <2>3 DEF Home, Modes!Next, Modes!Stay
  <2>4. CASE ~obeys /\ now # mode
    <3>1. Home' = mode'
      BY <1>5, <2>1, <2>4 DEF Home
    <3>2. CASE now = "SAFE"
      BY <2>1, <2>4, <3>1, <3>2 DEF Modes!Next, Modes!Safe, Modes!Settle
    <3>3. CASE now = "STANDBY"
      BY <1>5, <2>1, <2>4, <3>1, <3>3 DEF Modes!Next, Modes!Idle, Modes!Settle
    <3> QED
      BY <1>5, <2>4, <3>2, <3>3
  <2> QED
    BY <2>2, <2>3, <2>4
<1> QED
  BY <1>7, <1>8, <1>9

\* REQ-MODE-003, -005, -006, -012: every behaviour of the executive is one of the
\* mode contract.
THEOREM ModesImplemented == Spec => ModesRefined
<1>1. IInv /\ [Next]_vars => [Modes!Next]_<<mode, Home, Order>>
  <2> SUFFICES ASSUME IInv, [Next]_vars PROVE [Modes!Next]_<<mode, Home, Order>>
    OBVIOUS
  <2>1. CASE Next
    BY <2>1, ContractCycle, ExecutiveAssumption DEF Next
  <2>2. CASE UNCHANGED vars
    BY <2>2 DEF Home, Order, vars
  <2> QED
    BY <2>1, <2>2
<1>2. Modes!vars = <<mode, Home, Order>>
  BY DEF Modes!vars
<1> QED
  BY <1>1, <1>2, ContractInit, Inductive, PTL DEF Spec, ModesRefined, Modes!Spec, Modes!vars
==============================================================================
