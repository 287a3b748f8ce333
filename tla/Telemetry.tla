------------------------------ MODULE Telemetry ------------------------------
(***************************************************************************)
(* telemetry_task.cpp: the two buffers in front of the wires, the queue in *)
(* front of the radio and the poll gate, with the tasks that write them:   *)
(* the control cycle, the health report and the image downlink.  Frames    *)
(* are counted, not spelled: a buffer is its fill, a beacon its number.    *)
(***************************************************************************)
EXTENDS Integers

CONSTANTS
    Cap,         \* units a buffer holds (1024 bytes)
    Every,       \* control cycles to a heartbeat and to a dial (10)
    DialPhase,   \* where the dial falls among them
    WirePeriod   \* pieces the wire takes between two control cycles (9)

ASSUME TelemetryAssumption ==
    /\ Cap \in Nat /\ Every \in Nat \ {0} /\ DialPhase \in 0..(Every - 1) /\ WirePeriod \in Nat

kBeaconDepth == 3
Small == 1            \* a frame of housekeeping
ChunkSize == 2        \* a frame of payload, the largest there is
Numbers == 6          \* bound: beacons are numbered round; a multiple of the depth
None == "none"

VARIABLES
    console, downlink,  \* the fill of the two stream buffers
    beacon,             \* s_beacon, head, count; and the number of the next to be accepted
    aired,              \* history: the number the next beacon on the air must carry
    poll,               \* s_poll_id
    drops,              \* s_dropped # last; and history: a drop no line has told of
    cycle,              \* control cycles, round
    ticks,              \* pieces the wire took since the last control cycle, up to WirePeriod
    tele,               \* where the telemetry task is, and the number it transmits
    task,               \* where the two lower producers are, and the frame in hand
    due                 \* producers whose period has come

vars == <<console, downlink, beacon, aired, poll, drops, cycle, ticks, tele, task, due>>

\* What the producers write: functional, since one control cycle writes many frames.
Out == [console |-> console, downlink |-> downlink, beacon |-> beacon, poll |-> poll,
        drops |-> drops]

SetOut(o) ==
    /\ console' = o.console /\ downlink' = o.downlink /\ beacon' = o.beacon
    /\ poll' = o.poll /\ drops' = o.drops

Init ==
    /\ console = 0 /\ downlink = 0
    /\ beacon = [slots |-> [i \in 0..(kBeaconDepth - 1) |-> 0], head |-> 0, count |-> 0, next |-> 0]
    /\ aired = 0 /\ poll = None
    /\ drops = [unreported |-> FALSE, untold |-> FALSE]
    /\ cycle = 0 /\ ticks = WirePeriod
    /\ tele = [at |-> "console", number |-> 0]
    /\ task = [p \in {"health", "image"} |-> [at |-> "idle", id |-> None]]
    /\ due = {}

------------------------------------------------------------------------------
(* The entry points.  Each is one critical section under s_lock.           *)

Dropped(o) == [o EXCEPT !.drops = [unreported |-> TRUE, untold |-> TRUE]]

\* enqueue: all or nothing, and a message that does not fit is counted.
ToConsole(o, size) ==
    IF Cap - o.console >= size THEN [o EXCEPT !.console = @ + size] ELSE Dropped(o)

ToDownlink(o, size) ==
    IF Cap - o.downlink >= size THEN [o EXCEPT !.downlink = @ + size] ELSE Dropped(o)

\* Mutant: the frame goes where the count says, whatever the head.
SlotFromStart(b) == b.count

FreeSlot(b) == (b.head + b.count) % kBeaconDepth

\* Mutant: a full queue takes one more.
EvenWhenFull(o) ==
    [o EXCEPT !.beacon = [slots |-> [@.slots EXCEPT ![FreeSlot(o.beacon)] = o.beacon.next],
                          head |-> @.head, count |-> @.count + 1, next |-> @.next]]

\* telemetry_out_beacon: a full queue refuses the newest.
ToBeacon(o) ==
    IF o.beacon.count = kBeaconDepth THEN o
    ELSE [o EXCEPT !.beacon = [slots |-> [@.slots EXCEPT ![FreeSlot(o.beacon)] = o.beacon.next],
                               head |-> @.head, count |-> @.count + 1,
                               next |-> (@.next + 1) % Numbers]]

\* The gate of telemetry_out_downlink, once the compare has matched.
Answer(o) == ToBeacon([o EXCEPT !.poll = None])

\* send_telemetry, from the control task, which nobody preempts.
SendTelemetry(o, id, onBeacon) ==
    LET c == ToConsole(o, Small)
        g == IF c.poll = id THEN Answer(c) ELSE c
        d == ToDownlink(g, Small)
    IN  IF onBeacon THEN ToBeacon(d) ELSE d

------------------------------------------------------------------------------
(* The producers.                                                          *)

\* One control cycle: the answer to a command, what the command asks, the heartbeat and
\* the dial when they are due.  Commands poll a frame or do something else.
Cycle(command) ==
    LET o1 == IF command = None THEN Out ELSE SendTelemetry(Out, "ack", TRUE)
        o2 == IF command \in {None, "other"} THEN o1
              ELSE [o1 EXCEPT !.poll = command]
        o3 == IF cycle = 0 THEN SendTelemetry(o2, "heartbeat", TRUE) ELSE o2
    IN  SendTelemetry(o3, "attitude", cycle = DialPhase)

Pollable == {"health", "heartbeat"}

ControlCycle(command) ==
    /\ ticks = WirePeriod
    /\ SetOut(Cycle(command))
    /\ cycle' = (cycle + 1) % Every
    /\ due' = IF cycle = 0 THEN {"health", "image"} ELSE due
    /\ ticks' = 0
    /\ UNCHANGED <<aired, tele, task>>

\* The lower tasks may be preempted between any two of their calls: to the console,
\* through the gate and to the downlink, and then to the beacon for progress.
Offer(p, id, size) ==
    /\ SetOut(ToConsole(Out, size))
    /\ task' = [task EXCEPT ![p] = [at |-> IF poll = id THEN "clear" ELSE "push", id |-> id]]
    /\ UNCHANGED <<aired, cycle, ticks, tele>>

HealthReports ==
    /\ task["health"].at = "idle" /\ "health" \in due
    /\ due' = due \ {"health"}
    /\ Offer("health", "health", Small)

ReportProgress ==
    /\ task["image"].at = "idle" /\ "image" \in due
    /\ due' = due \ {"image"}
    /\ Offer("image", "progress", Small)

\* Mutant: the room on the console alone.
RoomOnConsole == Cap - console

\* telemetry_out_room: the smaller of the two.
Room == IF console > downlink THEN Cap - console ELSE Cap - downlink

\* The fill loop and the resend sweep see room, and read the chunk from the camera.
ChunkWanted ==
    /\ task["image"].at = "idle"
    /\ Room >= ChunkSize
    /\ task' = [task EXCEPT !["image"] = [at |-> "read", id |-> "chunk"]]
    /\ UNCHANGED <<console, downlink, beacon, aired, poll, drops, cycle, ticks, tele, due>>

EmitChunk ==
    /\ task["image"].at = "read"
    /\ UNCHANGED due
    /\ Offer("image", "chunk", ChunkSize)

\* The gate's compare has matched; only now is the poll cleared.
PollClear(p) ==
    /\ task[p].at = "clear"
    /\ SetOut(Answer(Out))
    /\ task' = [task EXCEPT ![p].at = "push"]
    /\ UNCHANGED <<aired, cycle, ticks, tele, due>>

PushDownlink(p) ==
    /\ task[p].at = "push"
    /\ SetOut(ToDownlink(Out, IF task[p].id = "chunk" THEN ChunkSize ELSE Small))
    /\ task' = [task EXCEPT ![p] = IF @.id = "progress" THEN [@ EXCEPT !.at = "beacon"]
                                   ELSE [at |-> "idle", id |-> None]]
    /\ UNCHANGED <<aired, cycle, ticks, tele, due>>

BeaconProgress ==
    /\ task["image"].at = "beacon"
    /\ SetOut(ToBeacon(Out))
    /\ task' = [task EXCEPT !["image"] = [at |-> "idle", id |-> None]]
    /\ UNCHANGED <<aired, cycle, ticks, tele, due>>

Producers ==
    \/ HealthReports \/ ReportProgress \/ ChunkWanted \/ EmitChunk \/ BeaconProgress
    \/ \E p \in DOMAIN task : PollClear(p) \/ PushDownlink(p)

------------------------------------------------------------------------------
(* The telemetry task.                                                     *)

Spend(n) == IF ticks + n > WirePeriod THEN WirePeriod ELSE ticks + n

\* drain(console): piece after piece until nothing is left; an empty buffer is waited
\* for, for half a control period.
DrainConsole ==
    /\ tele.at = "console"
    /\ IF console > 0
         THEN console' = console - 1 /\ ticks' = Spend(1) /\ UNCHANGED tele
         ELSE ticks' = Spend(WirePeriod \div 2) /\ tele' = [tele EXCEPT !.at = "downlink"]
              /\ UNCHANGED console
    /\ UNCHANGED <<downlink, beacon, aired, poll, drops, cycle, task, due>>

DrainDownlink ==
    /\ tele.at = "downlink"
    /\ IF downlink > 0
         THEN downlink' = downlink - 1 /\ ticks' = Spend(1) /\ UNCHANGED tele
         ELSE tele' = [tele EXCEPT !.at = "beacon"] /\ UNCHANGED <<downlink, ticks>>
    /\ UNCHANGED <<console, beacon, aired, poll, drops, cycle, task, due>>

\* service_beacon: the oldest leaves the queue, and is transmitted outside the lock.
ServiceBeacon ==
    /\ tele.at = "beacon"
    /\ IF beacon.count = 0 THEN tele' = [tele EXCEPT !.at = "report"] /\ UNCHANGED beacon
       ELSE /\ tele' = [at |-> "sending", number |-> beacon.slots[beacon.head]]
            /\ beacon' = [beacon EXCEPT !.head = (@ + 1) % kBeaconDepth, !.count = @ - 1]
    /\ UNCHANGED <<console, downlink, aired, poll, drops, cycle, ticks, task, due>>

\* rfm95_send returns, whatever the radio did: half a period of air time.
Sent ==
    /\ tele.at = "sending"
    /\ tele' = [at |-> "report", number |-> 0]
    /\ aired' = (aired + 1) % Numbers
    /\ ticks' = Spend(WirePeriod \div 2)
    /\ UNCHANGED <<console, downlink, beacon, poll, drops, cycle, task, due>>

\* Mutant: the count is remembered after the line has been offered.
LineThenCount ==
    IF ~drops.unreported THEN Out
    ELSE LET o == ToConsole(Out, Small)
         IN  [o EXCEPT !.drops = [unreported |-> FALSE,
                                  untold |-> o.console = console]]

\* report_drops: the count is remembered first, so a line that is itself dropped raises it
\* again and is told by the next.
DropLine ==
    LET o == [Out EXCEPT !.drops.unreported = FALSE]
    IN  IF ~drops.unreported THEN Out
        ELSE IF Cap - console >= Small
             THEN [ToConsole(o, Small) EXCEPT !.drops.untold = FALSE]
             ELSE ToConsole(o, Small)

ReportDrops ==
    /\ tele.at = "report"
    /\ SetOut(DropLine)
    /\ tele' = [tele EXCEPT !.at = "console"]
    /\ UNCHANGED <<aired, cycle, ticks, task, due>>

TelemetryTask == DrainConsole \/ DrainDownlink \/ ServiceBeacon \/ Sent \/ ReportDrops

Next ==
    \/ \E command \in {None, "other"} \cup Pollable : ControlCycle(command)
    \/ Producers
    \/ TelemetryTask

\* The telemetry task outranks the image's and runs whenever its wire or its radio does.
Spec == Init /\ [][Next]_vars /\ WF_vars(TelemetryTask)

------------------------------------------------------------------------------
\* Buffers within their size, beacons within the depth.
TelemetryTypeOK ==
    /\ console \in 0..Cap /\ downlink \in 0..Cap
    /\ beacon.count \in 0..kBeaconDepth /\ beacon.head \in 0..(kBeaconDepth - 1)
    /\ ticks \in 0..WirePeriod
    /\ \A p \in DOMAIN task : task[p].at \in {"idle", "read", "clear", "push", "beacon"}
    /\ tele.at \in {"console", "downlink", "beacon", "sending", "report"}

\* telemetry_task.cpp:192: what the queue accepted goes on the air, each frame once and in
\* the order it was accepted, while four tasks put frames in and one takes them out; the
\* queue and the buffers never hold more than fits.
BeaconsInOrder ==
    /\ TelemetryTypeOK
    /\ tele.at = "sending" => tele.number = aired

\* telemetry_task.cpp:120: no drop is silent.  Until a line has told of it, the count
\* differs from the one last told, and a line that is dropped itself changes nothing.
DropsRemembered == drops.untold => drops.unreported

\* A frame waiting for the radio leaves, however long the image that fills both wires:
\* the two buffers hold each other's producer back, so the task gets through its drains.
BeaconLeaves == beacon.count > 0 ~> tele.at = "sending"
==============================================================================
