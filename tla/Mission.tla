------------------------------ MODULE Mission ------------------------------
(***************************************************************************)
(* The ground session's macros: tools/ground/session.py shoots a picture,  *)
(* surveys several bearings, recovers a safed vehicle and sweeps for the   *)
(* wheel's breakaway torque.  They advance on what the telemetry shows,    *)
(* and telemetry is late: heartbeats and attitude frames wait in `down`,   *)
(* commands are lost and retried, and a picture arrives over the other     *)
(* radio.  The vehicle is what the session can see of it.                  *)
(*                                                                         *)
(* Time runs in ticks of RETRY_AFTER_S; every other delay is scaled so     *)
(* that the order of the deadlines is the shipped one.                     *)
(***************************************************************************)
EXTENDS ModeManager, Integers, Sequences, SequencesExt

CONSTANTS
    LegCount,     \* the bearings of a survey
    Breakaway,    \* the torque that turns the platform
    SweepMax,     \* SWEEP_MAX_MNM, in steps of the sweep
    DownDepth,    \* bound: telemetry frames on their way at once
    MaxEvents,    \* bound: what the operator starts, a survey counting for its legs,
                  \* commands that suffer, and losses of the command link
    Starts        \* which macros the operator starts

ASSUME MissionAssumption ==
    /\ LegCount \in Nat /\ LegCount >= 2
    /\ {Breakaway, SweepMax, DownDepth} \subseteq Nat \ {0}
    /\ MaxEvents \in Nat
    /\ Starts \subseteq {"shoot", "aim", "survey", "recover", "sweep"}

VARIABLES
    ground,   \* GroundSession
    vehicle,
    down,     \* telemetry on its way, oldest first
    starts, missed, silences,
    seen      \* history: what the vehicle has done since a macro began to wait for it

vars == <<ground, vehicle, down, starts, missed, silences, seen>>

\* Ticks.  A command is sent RetryLimit times, one tick apart.
RetryAfter     == 1   \* RETRY_AFTER_S
RetryLimit     == 2   \* RETRY_LIMIT
StepTimeout    == 3   \* 10 s
AimTimeout     == 3   \* 25 s
ReceiveTimeout == 3   \* 120 s
SurveyDump     == 2   \* SURVEY_DUMP_S

\* Mutant: the picture is asked for before its command has been given up.
ShortSettle == 1

CaptureSettle == 2    \* 2.5 s

SweepSettle == 2      \* SWEEP_SETTLE_S

Handler == INSTANCE CommandHandler WITH
    Fault <- {"COMMAND_LINK_LOSS"}, Inhibited <- {}, CommandTimeout <- 1, Uplink <- {},
    Severity <- [f \in {"COMMAND_LINK_LOSS"} |-> "Critical"],
    Debounce <- [f \in {"COMMAND_LINK_LOSS"} |-> 1]

None == [step |-> "none"]

\* Bearings, in steps of a survey.  Entry is where target_ starts, and stands too for a
\* heading POINTING was entered on.
Entry     == 0
NoBearing == -1
Legs      == [i \in 1..LegCount |-> i - 1]

Cmd(id, arg) == [id |-> id, arg |-> arg]

SetMode(m) == Cmd("SET_MODE", m)

Init ==
    /\ ground = [mode |-> "", fault |-> FALSE,          \* the last heartbeat
                 inBand |-> FALSE, target |-> Entry,   \* the last attitude frame
                 peak |-> 0, pulse |-> 0,
                 saved |-> 0, lastSaved |-> 0,
                 seq |-> 0, outstanding |-> <<>>, tx |-> <<>>,
                 mission |-> None, recover |-> None, sweep |-> None, survey |-> None,
                 said |-> {}]
    /\ vehicle \in [mode : {"STANDBY", "SAFE"}, fault : BOOLEAN, target : {Entry},
                    named : {FALSE}, inBand : {FALSE}, peak : {1}, pulses : {0},
                    shot : {0}, undelivered : {FALSE}, seq : {0}]
    /\ vehicle.fault <=> vehicle.mode = "SAFE"
    /\ down = <<>>
    /\ starts = 0 /\ missed = {} /\ silences = 0
    /\ seen = {}

------------------------------------------------------------------------------
(* The macros, as functions of the session.                                *)

\* _mission_send: a command with the next number, sent now and kept for retries.
Send(g, cmd) ==
    LET frame == [seq |-> g.seq + 1, cmd |-> cmd]
    IN  [g EXCEPT !.seq = @ + 1,
                  !.tx = Append(@, frame),
                  !.outstanding = Append(@, [frame |-> frame, tries |-> 1, due |-> RetryAfter])]

Says(g, what) == [g EXCEPT !.said = @ \cup {what}]

\* _mission_fail, and the other ends of a mission.
EndMission(g, what) == [Says(g, what) EXCEPT !.mission = None]

Step(g, step, due) == [g EXCEPT !.mission.step = step, !.mission.due = due]

\* Mutant: the flag is believed without the vehicle's echo of the target.
AckedAlways(g) == TRUE

\* The vehicle echoes the bearing it was asked for.
Acked(g) == g.target = g.mission.bearing

\* _aim_or_shoot: name the bearing and forget the band flag, or go straight on.
AimOrShoot(g) ==
    IF g.mission.bearing # NoBearing
      THEN Step([Send(g, Cmd("SET_HEADING", g.mission.bearing)) EXCEPT !.inBand = FALSE],
                "aim", AimTimeout)
      ELSE Step(g, "shoot", 0)

\* Mutant: what was sent is taken for what happened.
ConfirmedOnceSent(g, mode) == TRUE

\* A step advances by what the heartbeat shows.
Confirmed(g, mode) == g.mode = mode

\* _mission_service: one step of the shoot macro.
MissionService(g) ==
    LET m   == g.mission
        out == m.due = 0
    IN  CASE m.step = "none" -> g
          [] m.step = "point" ->
                IF Confirmed(g, "POINTING") THEN AimOrShoot(g)
                ELSE Step(Send(g, SetMode("POINTING")), "point_wait", StepTimeout)
          [] m.step = "point_wait" ->
                IF Confirmed(g, "POINTING") THEN AimOrShoot(g)
                ELSE IF out THEN EndMission(g, "failed") ELSE g
          [] m.step = "aim" ->
                IF Acked(g) /\ g.inBand THEN Step(Says(g, "aimed"), "shoot", 0)
                ELSE IF out THEN Step(Says(g, "aim timed out"), "shoot", 0) ELSE g
          [] m.step = "shoot" ->
                Step(Send(g, Cmd("CAPTURE_IMAGE", m.tag)), "settle", CaptureSettle)
          [] m.step = "settle" ->
                IF out THEN Step(Send(g, SetMode("DOWNLINK")), "downlink_wait", StepTimeout)
                ELSE g
          [] m.step = "downlink_wait" ->
                IF Confirmed(g, "DOWNLINK") THEN Step(g, "receive", ReceiveTimeout)
                ELSE IF out THEN EndMission(g, "failed") ELSE g
          [] m.step = "receive" ->
                IF g.saved > m.savedBefore
                  THEN Step(Send(g, SetMode("STANDBY")), "park", StepTimeout)
                ELSE IF out THEN EndMission(g, "failed") ELSE g
          [] m.step = "park" ->
                IF Confirmed(g, "STANDBY") THEN EndMission(g, "complete")
                ELSE IF out THEN EndMission(g, "left in DOWNLINK") ELSE g

\* History: what a macro cannot be told apart from.  No older picture can still arrive;
\* nothing the vehicle says or has said already names this bearing, or this mode.
NoOldPicture == ~vehicle.undelivered

NoOldEcho(bearing) ==
    bearing \notin {Entry, vehicle.target, ground.target}
        \cup {f.target : f \in {x \in Range(down) : x.kind = "attitude"}}

NoOldMode(mode) ==
    mode \notin {vehicle.mode, ground.mode}
        \cup {f.mode : f \in {x \in Range(down) : x.kind = "heartbeat"}}

\* Mutant: a mission counts pictures from the beginning of the session.
NewMissionNoBaseline(g, bearing) ==
    [step |-> "point", due |-> 0, bearing |-> bearing, savedBefore |-> 0, tag |-> g.seq + 1,
     clear |-> NoOldPicture, novel |-> NoOldEcho(bearing), fresh |-> NoOldMode("DOWNLINK")]

\* The record mission_start and _survey_service open; the picture it asks for is known
\* by its tag.
NewMission(g, bearing) ==
    [step |-> "point", due |-> 0, bearing |-> bearing, savedBefore |-> g.saved,
     tag |-> g.seq + 1, clear |-> NoOldPicture, novel |-> NoOldEcho(bearing),
     fresh |-> NoOldMode("DOWNLINK")]

\* Mutant: a leg counts as landed whenever any picture was ever saved.
LandedEver(g) == g.saved > 0

\* The leg that ended saved a picture.
Landed(g) == g.saved > g.survey.savedAtLeg

\* _survey_service: open the next leg once the last one has landed a file and the
\* wheel has had its time to unwind.
SurveyService(g) ==
    LET s      == g.survey
        closed == IF s.legOpen
                    THEN [s EXCEPT !.legOpen = FALSE, !.files = Append(@, g.lastSaved),
                                   !.dump = SurveyDump]
                    ELSE s
        opened == [closed EXCEPT !.index = @ + 1, !.legOpen = TRUE, !.savedAtLeg = g.saved,
                                 !.clear = @ /\ NoOldPicture]
    IN  IF s = None \/ g.mission # None THEN g
        ELSE IF s.legOpen /\ ~Landed(g)
          THEN [Says(g, "survey stopped") EXCEPT !.survey = None]
        ELSE IF closed.dump > 0 THEN [g EXCEPT !.survey = closed]
        ELSE IF closed.index >= Len(Legs)
          THEN [Says(g, "survey complete") EXCEPT !.survey = None]
        ELSE MissionService(
               [g EXCEPT !.survey = opened, !.mission = NewMission(g, Legs[closed.index + 1])])

\* _recover_service: clear the fault, see it gone, ask for STANDBY, see it.
RecoverService(g) ==
    LET r == g.recover
    IN  CASE r.step = "none" -> g
          [] r.step = "clear" ->
                [Send(g, Cmd("CLEAR_FAULT", "COMMAND_LINK_LOSS")) EXCEPT
                    !.recover.step = "clear_wait", !.recover.due = StepTimeout]
          [] r.step = "clear_wait" ->
                IF ~g.fault
                  THEN [Send(g, SetMode("STANDBY")) EXCEPT
                           !.recover.step = "standby_wait", !.recover.due = StepTimeout]
                ELSE IF r.due = 0 THEN [Says(g, "recover failed") EXCEPT !.recover = None]
                ELSE g
          [] r.step = "standby_wait" ->
                IF Confirmed(g, "STANDBY") THEN [Says(g, "recovered") EXCEPT !.recover = None]
                ELSE IF r.due = 0 THEN [Says(g, "recover failed") EXCEPT !.recover = None]
                ELSE g

\* _sweep_service: fire, settle, read the vehicle's own peak, push harder.
SweepService(g) ==
    LET s == g.sweep
    IN  IF s = None \/ s.due > 0 THEN g
        ELSE IF s.step = "fire"
          THEN [Send([g EXCEPT !.peak = 0], Cmd("PULSE_WHEEL", s.torque)) EXCEPT
                   !.sweep.step = "settle", !.sweep.due = SweepSettle]
        ELSE IF g.peak > 0 THEN [Says(g, "breakaway") EXCEPT !.sweep = None]
        ELSE IF s.torque = SweepMax THEN [Says(g, "sweep exhausted") EXCEPT !.sweep = None]
        ELSE [g EXCEPT !.sweep = [step |-> "fire", torque |-> s.torque + 1, due |-> 0,
                                  pulse |-> vehicle.pulses]]

\* Mutant: a command that is never answered is never given up.
RetryForever(g) ==
    LET due == SelectSeq(g.outstanding, LAMBDA p : p.due = 0)
    IN  [g EXCEPT !.outstanding =
                     [i \in DOMAIN @ |-> IF @[i].due = 0
                        THEN [@[i] EXCEPT !.tries = @ + 1, !.due = RetryAfter] ELSE @[i]],
                  !.tx = @ \o [i \in DOMAIN due |-> due[i].frame]]

\* The retry loop of tick().
Retry(g) ==
    LET Due(p)   == p.due = 0
        Again(p) == IF Due(p) THEN [p EXCEPT !.tries = @ + 1, !.due = RetryAfter] ELSE p
        kept     == SelectSeq(g.outstanding, LAMBDA p : ~Due(p) \/ p.tries < RetryLimit)
        resent   == SelectSeq(kept, Due)
    IN  [g EXCEPT !.outstanding = [i \in DOMAIN kept |-> Again(kept[i])],
                  !.tx = @ \o [i \in DOMAIN resent |-> resent[i].frame]]

------------------------------------------------------------------------------
(* The session.                                                            *)

Less(n) == IF n = 0 THEN 0 ELSE n - 1

\* A tick later, every deadline is a tick closer.
Elapsed(g) ==
    [g EXCEPT !.outstanding = [i \in DOMAIN @ |-> [@[i] EXCEPT !.due = Less(@)]],
              !.mission = IF @ = None THEN None ELSE [@ EXCEPT !.due = Less(@)],
              !.recover = IF @ = None THEN None ELSE [@ EXCEPT !.due = Less(@)],
              !.sweep = IF @ = None THEN None ELSE [@ EXCEPT !.due = Less(@)],
              !.survey = IF @ = None THEN None ELSE [@ EXCEPT !.dump = Less(@)],
              !.said = {}]

\* History.  From when a macro begins to aim, to downlink, to recover or to push, what the
\* vehicle does meanwhile is remembered.
Witness(g, v) ==
    LET Waits(w, gs) ==
            CASE w = "aim"     -> gs.mission.step = "aim"
              [] w = "park"    -> gs.mission.step \in {"downlink_wait", "receive", "park"}
              [] w = "recover" -> gs.recover # None
              [] w = "slew"    -> gs.sweep.step = "settle"
        Now(w) ==
            CASE w = "aim"  -> v.inBand /\ v.target = g.mission.bearing
              [] w = "slew" -> v.peak > vehicle.peak /\ v.pulses = vehicle.pulses
              [] OTHER      -> v.mode = "STANDBY" /\ ~v.fault
    IN  {w \in {"aim", "park", "recover", "slew"} :
            Waits(w, g) /\ (Now(w) \/ (w \in seen /\ Waits(w, ground)))}

\* GroundSession.tick, once everything sent has reached the air.
Tick ==
    /\ ground.tx = <<>>
    /\ ground' = Retry(SurveyService(MissionService(RecoverService(
                    SweepService(Elapsed(ground))))))
    /\ seen' = Witness(ground', vehicle)
    /\ UNCHANGED <<vehicle, down, starts, missed, silences>>

\* The operator asks for a macro.
Asks(macro) ==
    /\ macro \in Starts
    /\ starts' = starts + (IF macro = "survey" THEN LegCount ELSE 1)
    /\ starts' + Cardinality(missed) + silences <= MaxEvents
    /\ UNCHANGED <<vehicle, down, missed, silences>>

Quiet == [ground EXCEPT !.said = {}]

\* mission_start; every start refuses what is running and takes the first step at once.
MissionStart(bearing) ==
    /\ Asks(IF bearing = NoBearing THEN "shoot" ELSE "aim")
    /\ ground.mission = None
    /\ ground' = MissionService([Quiet EXCEPT !.mission = NewMission(ground, bearing)])
    /\ seen' = Witness(ground', vehicle)

SurveyStart ==
    /\ Asks("survey")
    /\ ground.survey = None /\ ground.mission = None
    /\ ground' = SurveyService([Quiet EXCEPT !.survey =
                     [index |-> 0, files |-> <<>>, legOpen |-> FALSE, savedAtLeg |-> 0,
                      dump |-> 0, clear |-> TRUE]])
    /\ seen' = Witness(ground', vehicle)

RecoverStart ==
    /\ Asks("recover")
    /\ ground.recover = None
    /\ ground' = RecoverService([Quiet EXCEPT !.recover =
                     [step |-> "clear", due |-> 0, fresh |-> NoOldMode("STANDBY")]])
    /\ seen' = Witness(ground', vehicle)

SweepStart ==
    /\ Asks("sweep")
    /\ ground.sweep = None /\ ground.mode = "STANDBY"
    /\ ground' = SweepService([Quiet EXCEPT !.sweep =
                     [step |-> "fire", torque |-> 1, due |-> 0, pulse |-> vehicle.pulses]])
    /\ seen' = Witness(ground', vehicle)

\* _handle_frame for the frames the macros read.
Hear ==
    /\ down # <<>>
    /\ down' = Tail(down)
    /\ LET f == Head(down)
       IN  ground' = IF f.kind = "heartbeat"
                       THEN [ground EXCEPT !.mode = f.mode, !.fault = f.fault, !.said = {}]
                       ELSE [ground EXCEPT !.inBand = f.inBand, !.target = f.target,
                                           !.peak = f.peak, !.pulse = f.pulse, !.said = {}]
    /\ seen' = Witness(ground', vehicle)
    /\ UNCHANGED <<vehicle, starts, missed, silences>>

------------------------------------------------------------------------------
(* The vehicle.                                                            *)

\* Mutant: the peak of the last pulse stays.
PulsedOntoOld(v, torque) ==
    [v EXCEPT !.peak = IF torque >= Breakaway THEN 1 ELSE @, !.pulses = @ + 1]

\* A pulse starts with a blank peak; one that is strong enough turns the vehicle.
Pulsed(v, torque) ==
    [v EXCEPT !.peak = IF torque >= Breakaway THEN 1 ELSE 0, !.pulses = @ + 1]

\* What an accepted command does.  While the link fault is latched the executive safes
\* the vehicle again in the next cycle.  A bearing once named stands; a vehicle that was
\* never told one holds the heading it enters POINTING on.
Executed(v, cmd) ==
    CASE cmd.id = "SET_MODE" ->
            IF v.fault THEN v
            ELSE IF cmd.arg = "POINTING" /\ v.mode # "POINTING" /\ ~v.named
              THEN [v EXCEPT !.mode = cmd.arg, !.target = Entry, !.inBand = TRUE]
            ELSE [v EXCEPT !.mode = cmd.arg]
      [] cmd.id = "CLEAR_FAULT" -> [v EXCEPT !.fault = FALSE]
      [] cmd.id = "SET_HEADING" -> [v EXCEPT !.target = cmd.arg, !.named = TRUE,
                                            !.inBand = @ /\ v.target = cmd.arg]
      [] cmd.id = "CAPTURE_IMAGE" -> [v EXCEPT !.shot = cmd.arg, !.undelivered = TRUE]
      [] cmd.id = "PULSE_WHEEL" -> Pulsed(v, cmd.arg)

Accepts(v, cmd) ==
    LET arg == IF cmd.id \in {"SET_MODE", "CLEAR_FAULT"} THEN cmd.arg ELSE "ANY"
    IN  Handler!Validate([id |-> cmd.id, arg |-> arg, seq |-> 0], v.mode) = "Ok"

\* A command reaches the vehicle, which runs it unless it is the one it remembers, and
\* is answered.  A command that suffers may do so at every try.
Transmit(fate) ==
    /\ ground.tx # <<>>
    /\ missed' = IF fate = "answered" THEN missed ELSE missed \cup {Head(ground.tx).seq}
    /\ starts + Cardinality(missed') + silences <= MaxEvents
    /\ LET frame == Head(ground.tx)
           runs  == /\ fate # "lost"
                    /\ frame.seq # vehicle.seq
                    /\ Accepts(vehicle, frame.cmd)
       IN  /\ vehicle' = [(IF runs THEN Executed(vehicle, frame.cmd) ELSE vehicle)
                            EXCEPT !.seq = IF fate = "lost" THEN @ ELSE frame.seq]
           /\ ground' = [ground EXCEPT !.tx = Tail(@), !.said = {},
                            !.outstanding = SelectSeq(@, LAMBDA p :
                               fate # "answered" \/ p.frame.seq # frame.seq)]
    /\ seen' = Witness(ground', vehicle')
    /\ UNCHANGED <<down, starts, silences>>

\* The heading moves, steered or not: the band flag is published in every mode and follows
\* it, and a fast turn counts as the peak since the last pulse.
Slew(b, peak) ==
    /\ <<b, peak>> # <<vehicle.inBand, vehicle.peak>> /\ peak >= vehicle.peak
    /\ vehicle' = [vehicle EXCEPT !.inBand = b, !.peak = peak]
    /\ seen' = Witness(ground, vehicle')
    /\ UNCHANGED <<ground, down, starts, missed, silences>>

\* The vehicle has heard nothing for too long.
LinkLoss ==
    /\ starts + Cardinality(missed) + silences < MaxEvents
    /\ silences' = silences + 1
    /\ vehicle' = [vehicle EXCEPT !.mode = "SAFE", !.fault = TRUE]
    /\ seen' = Witness(ground, vehicle')
    /\ UNCHANGED <<ground, down, starts, missed>>

\* A heartbeat or an attitude frame goes out; one that is lost is one not sent.
Beacon ==
    /\ Len(down) < DownDepth
    /\ \E f \in {[kind |-> "heartbeat", mode |-> vehicle.mode, fault |-> vehicle.fault],
                 [kind |-> "attitude", target |-> vehicle.target, inBand |-> vehicle.inBand,
                  peak |-> vehicle.peak, pulse |-> vehicle.pulses]} :
          down' = Append(down, f)
    /\ UNCHANGED <<ground, vehicle, starts, missed, silences, seen>>

\* The last missing chunk of the camera's frame arrives and the image is saved.
ImageLands ==
    /\ vehicle.mode = "DOWNLINK" /\ vehicle.undelivered
    /\ vehicle' = [vehicle EXCEPT !.undelivered = FALSE]
    /\ ground' = [ground EXCEPT !.saved = @ + 1, !.lastSaved = vehicle.shot, !.said = {}]
    /\ UNCHANGED <<down, starts, missed, silences, seen>>

Next ==
    \/ Tick
    \/ \E bearing \in {NoBearing, 1} : MissionStart(bearing)
    \/ SurveyStart \/ RecoverStart \/ SweepStart
    \/ Hear
    \/ \E fate \in {"lost", "unanswered", "answered"} : Transmit(fate)
    \/ \E b \in BOOLEAN, peak \in 0..1 : Slew(b, peak)
    \/ LinkLoss \/ Beacon \/ ImageLands

Spec == Init /\ [][Next]_vars

------------------------------------------------------------------------------
Macro == {"mission", "recover", "sweep", "survey"}

Running(macro) == ground[macro] # None

\* What the session says as a macro ends, in the step that ends it.
Ends(macro, what) ==
    Running(macro) /\ ground'[macro] = None /\ what \cap ground'.said # {}

\* Every part of the session and of the vehicle keeps to its values, and nothing a macro
\* no longer waits for is still being retried under its number.
MissionTypeOK ==
    /\ ground.mode \in Mode \cup {""} /\ ground.fault \in BOOLEAN /\ ground.inBand \in BOOLEAN
    /\ {ground.target, vehicle.target} \subseteq Range(Legs)
    /\ Running("mission") => ground.mission.due \in 0..ReceiveTimeout
    /\ vehicle.mode \in Mode /\ vehicle.peak \in 0..1 /\ vehicle.seq \in 0..ground.seq
    /\ Len(down) <= DownDepth
    /\ \A i \in DOMAIN ground.outstanding : ground.outstanding[i].tries \in 1..RetryLimit
    /\ seen \subseteq {"aim", "park", "recover", "slew"}

\* _mission_service: when nothing the vehicle says or has said already names the bearing of
\* a leg, the leg reports itself aimed only if the vehicle, told that bearing, has come
\* within the band of it since: no frame about the old bearing passes for it, however late
\* (session.py:593).  Whether it was steered there or drifted past, safed or parked by
\* then, the echo and the flag do not tell.
Aimed ==
    [][ground.mission # None /\ ground.mission.novel
         => ("aimed" \in ground'.said => "aim" \in seen)]_ground

\* A picture is taken only while the macro that wants it waits for it: no retry of
\* CAPTURE_IMAGE survives into the downlink, where it would destroy the frame being sent
\* (session.py:620: the settle time and the retry limit keep to this order).
CapturedInItsStep ==
    [][vehicle'.shot # vehicle.shot
         => ground.mission.step = "settle" /\ vehicle'.shot = ground.mission.tag]_vars

\* _mission_service: if no older picture was still to come as it began, a mission that
\* completes names the picture it asked for.  If neither side took the vehicle to be in
\* DOWNLINK as it began, and no heartbeat under way says so, the vehicle it reports parked
\* has been parked since it was asked to downlink.
MissionHonest ==
    /\ Ends("mission", {"complete", "left in DOWNLINK"}) /\ ground.mission.clear
         => ground'.lastSaved = ground.mission.tag
    /\ Ends("mission", {"complete"}) /\ ground.mission.fresh => "park" \in seen

\* _survey_service: a survey that completes has a picture for every leg, and each was taken
\* after the one before if no older picture was still to come as a leg was opened.
SurveyHonest ==
    Ends("survey", {"survey complete"}) =>
        LET files == ground.survey.files
        IN  /\ Len(files) = Len(Legs)
            /\ ground.survey.clear => \A i \in 1..Len(Legs) - 1 : files[i] < files[i + 1]

\* _recover_service: if neither side took the vehicle to be in STANDBY as it began, and no
\* heartbeat under way says so, "recovered" means it has been in STANDBY without the fault
\* since.
RecoveryHonest ==
    Ends("recover", {"recovered"}) /\ ground.recover.fresh => "recover" \in seen

\* _sweep_service: if the attitude frame it judges by was sent after this step's pulse ran
\* (session.py:355 takes the last one, however old), and no other turn was faster
\* meanwhile, the breakaway it reports comes from a pulse that was strong enough.
SweepHonest ==
    Ends("sweep", {"breakaway"}) /\ ground.pulse > ground.sweep.pulse /\ "slew" \notin seen
        => ground.sweep.torque >= Breakaway

\* What a macro reports as it ends happened to the vehicle in this run of the macro, under
\* the condition each part names: telemetry that was already wrong as the macro began, or a
\* frame older than the command it is taken to answer, does mislead the session (README.md,
\* section 5), and nothing else does: no lost command, no late answer or retry, no loss of
\* the link, no other macro running beside it.
MacrosHonest ==
    /\ []MissionTypeOK
    /\ [][MissionHonest /\ SurveyHonest /\ RecoveryHonest /\ SweepHonest]_vars
==============================================================================
