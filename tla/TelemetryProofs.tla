---------------------------- MODULE TelemetryProofs ----------------------------
(***************************************************************************)
(* Theorems about Telemetry for buffers of any size and any periods.       *)
(***************************************************************************)
EXTENDS Telemetry, TLAPS

\* The number of the beacon that is at the head of the queue, or will be.
Front == IF tele.at = "sending" THEN (aired + 1) % Numbers ELSE aired

Queue == [slots : [0..2 -> 0..5], head : 0..2, count : 0..3, next : 0..5]
Drops == [unreported : BOOLEAN, untold : BOOLEAN]

\* The queue holds consecutive numbers from n on, and the next one accepted follows.
Consecutive(b, n) ==
    /\ b.next = (n + b.count) % Numbers
    /\ \A i \in 0..2 : i < b.count => b.slots[(b.head + i) % kBeaconDepth] = (n + i) % Numbers

\* What the entry points keep of the state they share, when the queue begins with n.
Sound(o, n) ==
    /\ o.console \in 0..Cap /\ o.downlink \in 0..Cap
    /\ o.beacon \in Queue /\ Consecutive(o.beacon, n)
    /\ o.drops \in Drops /\ (o.drops.untold = TRUE => o.drops.unreported = TRUE)

Polls == {None} \cup Pollable
Outputs == [console : 0..Cap, downlink : 0..Cap, beacon : Queue, poll : Polls, drops : Drops]

Producer == {"health", "image"}
Places == {"idle", "read", "clear", "push", "beacon"}

\* Where the tasks are.
Placed ==
    /\ ticks \in 0..WirePeriod
    /\ aired \in 0..5
    /\ tele \in [at : {"console", "downlink", "beacon", "sending", "report"}, number : 0..5]
    /\ task \in [Producer -> [at : Places, id : {"none", "health", "progress", "chunk"}]]

TelemetryInv ==
    /\ Placed
    /\ Out \in Outputs /\ Sound(Out, Front)
    /\ tele.at = "sending" => tele.number = aired

\* A message that does not fit is counted, and nothing else.
LEMMA DroppedSound ==
    ASSUME NEW o \in Outputs, NEW n \in 0..5, Sound(o, n)
    PROVE  Dropped(o) \in Outputs /\ Sound(Dropped(o), n)
BY DEF Sound, Dropped, Outputs, Drops

\* enqueue never takes more than the buffer has room for.
LEMMA ToConsoleSound ==
    ASSUME NEW o \in Outputs, NEW n \in 0..5, NEW size \in Nat, Sound(o, n)
    PROVE  ToConsole(o, size) \in Outputs /\ Sound(ToConsole(o, size), n)
<1>1. Cap \in Nat
  BY TelemetryAssumption
<1>2. CASE Cap - o.console >= size
  BY <1>1, <1>2 DEF Sound, ToConsole, Outputs
<1>3. CASE ~(Cap - o.console >= size)
  BY <1>3, DroppedSound DEF ToConsole
<1> QED
  BY <1>2, <1>3

\* The same for the other buffer.
LEMMA ToDownlinkSound ==
    ASSUME NEW o \in Outputs, NEW n \in 0..5, NEW size \in Nat, Sound(o, n)
    PROVE  ToDownlink(o, size) \in Outputs /\ Sound(ToDownlink(o, size), n)
<1>1. Cap \in Nat
  BY TelemetryAssumption
<1>2. CASE Cap - o.downlink >= size
  BY <1>1, <1>2 DEF Sound, ToDownlink, Outputs
<1>3. CASE ~(Cap - o.downlink >= size)
  BY <1>3, DroppedSound DEF ToDownlink
<1> QED
  BY <1>2, <1>3

\* A queue that takes one more holds consecutive numbers still.
LEMMA QueueGrows ==
    ASSUME NEW b \in Queue, NEW n \in 0..5, Consecutive(b, n), b.count # kBeaconDepth,
           NEW c, c = [slots |-> [b.slots EXCEPT ![FreeSlot(b)] = b.next],
                       head |-> b.head, count |-> b.count + 1, next |-> (b.next + 1) % Numbers]
    PROVE  c \in Queue /\ Consecutive(c, n)
<1>1. /\ b.head \in 0..2 /\ b.count \in 0..2 /\ b.next \in 0..5
      /\ b.slots \in [0..2 -> 0..5]
  BY DEF Queue, kBeaconDepth
<1>2. FreeSlot(b) \in 0..2 /\ FreeSlot(b) = (b.head + b.count) % 3
  BY <1>1 DEF FreeSlot, kBeaconDepth
<1>3. (b.next + 1) % Numbers \in 0..5 /\ b.count + 1 \in 0..3
  BY <1>1 DEF Numbers
<1>4. c \in Queue
  BY <1>1, <1>2, <1>3 DEF Queue
<1>5. c.next = (n + c.count) % Numbers
  BY <1>1 DEF Consecutive, Numbers
<1>6. ASSUME NEW i \in 0..2, i < c.count
      PROVE  c.slots[(c.head + i) % kBeaconDepth] = (n + i) % Numbers
  <2>1. CASE i = b.count
    BY <2>1, <1>1, <1>2 DEF Consecutive, kBeaconDepth, Numbers
  <2>2. CASE i < b.count
    <3>1. (b.head + i) % 3 # (b.head + b.count) % 3 /\ (b.head + i) % 3 \in 0..2
      BY <2>2, <1>1
    <3> QED
      BY <2>2, <3>1, <1>1, <1>2 DEF Consecutive, kBeaconDepth
  <2> QED
    BY <2>1, <2>2, <1>6, <1>1
<1> QED
  BY <1>4, <1>5, <1>6 DEF Consecutive

\* telemetry_out_beacon keeps the order of what is queued.
LEMMA ToBeaconSound ==
    ASSUME NEW o \in Outputs, NEW n \in 0..5, Sound(o, n)
    PROVE  ToBeacon(o) \in Outputs /\ Sound(ToBeacon(o), n)
<1>1. CASE o.beacon.count = kBeaconDepth
  BY <1>1 DEF ToBeacon
<1>2. CASE o.beacon.count # kBeaconDepth
  <2> DEFINE c == [slots |-> [o.beacon.slots EXCEPT ![FreeSlot(o.beacon)] = o.beacon.next],
                   head |-> o.beacon.head, count |-> o.beacon.count + 1,
                   next |-> (o.beacon.next + 1) % Numbers]
  <2>1. c \in Queue /\ Consecutive(c, n)
    BY <1>2, QueueGrows DEF Sound
  <2>2. ToBeacon(o) = [o EXCEPT !.beacon = c]
    BY <1>2 DEF ToBeacon
  <2> HIDE DEF c
  <2> QED
    BY <2>1, <2>2 DEF Sound, Outputs
<1> QED
  BY <1>1, <1>2

\* The gate's poll is cleared as the answer goes out.
LEMMA AnswerSound ==
    ASSUME NEW o \in Outputs, NEW n \in 0..5, Sound(o, n)
    PROVE  Answer(o) \in Outputs /\ Sound(Answer(o), n)
<1>1. [o EXCEPT !.poll = None] \in Outputs /\ Sound([o EXCEPT !.poll = None], n)
  BY DEF Outputs, Sound, Polls
<1> QED
  BY <1>1, ToBeaconSound DEF Answer

\* One frame of the control task, through the gate and to whichever wires want it.
LEMMA SendSound ==
    ASSUME NEW o \in Outputs, NEW n \in 0..5, Sound(o, n), NEW id, NEW onBeacon \in BOOLEAN
    PROVE  /\ SendTelemetry(o, id, onBeacon) \in Outputs
           /\ Sound(SendTelemetry(o, id, onBeacon), n)
<1> DEFINE c == ToConsole(o, Small)
           g == IF c.poll = id THEN Answer(c) ELSE c
           d == ToDownlink(g, Small)
<1>1. c \in Outputs /\ Sound(c, n)
  BY ToConsoleSound DEF Small
<1>2. g \in Outputs /\ Sound(g, n)
  BY <1>1, AnswerSound
<1> HIDE DEF g
<1>3. d \in Outputs /\ Sound(d, n)
  BY <1>2, ToDownlinkSound DEF Small
<1> HIDE DEF d
<1>4. ToBeacon(d) \in Outputs /\ Sound(ToBeacon(d), n)
  BY <1>3, ToBeaconSound
<1>5. SendTelemetry(o, id, onBeacon) = IF onBeacon THEN ToBeacon(d) ELSE d
  BY DEF SendTelemetry, d, g
<1> QED
  BY <1>3, <1>4, <1>5

\* A control cycle, whatever it was commanded.
LEMMA CycleSound ==
    ASSUME NEW n \in 0..5, Out \in Outputs, Sound(Out, n),
           NEW command \in {None, "other"} \cup Pollable
    PROVE  Cycle(command) \in Outputs /\ Sound(Cycle(command), n)
<1> DEFINE o1 == IF command = None THEN Out ELSE SendTelemetry(Out, "ack", TRUE)
           o2 == IF command \in {None, "other"} THEN o1 ELSE [o1 EXCEPT !.poll = command]
           o3 == IF cycle = 0 THEN SendTelemetry(o2, "heartbeat", TRUE) ELSE o2
           o4 == SendTelemetry(o3, "attitude", cycle = DialPhase)
<1>1. o1 \in Outputs /\ Sound(o1, n)
  BY SendSound
<1> HIDE DEF o1
<1>2. o2 \in Outputs /\ Sound(o2, n)
  <2>1. CASE command \in {None, "other"}
    BY <1>1, <2>1
  <2>2. CASE command \notin {None, "other"}
    <3>1. command \in Polls
      BY <2>2 DEF Polls
    <3> QED
      BY <1>1, <2>2, <3>1 DEF Outputs, Sound
  <2> QED
    BY <2>1, <2>2
<1> HIDE DEF o2
<1>3. o3 \in Outputs /\ Sound(o3, n)
  BY <1>2, SendSound
<1> HIDE DEF o3
<1>4. o4 \in Outputs /\ Sound(o4, n)
  BY <1>3, SendSound
<1>5. Cycle(command) = o4
  BY DEF Cycle, o3, o2, o1
<1> QED
  BY <1>4, <1>5

\* The line about drops: until it is on the console the drop is remembered.
LEMMA DropLineSound ==
    ASSUME NEW n \in 0..5, Out \in Outputs, Sound(Out, n)
    PROVE  DropLine \in Outputs /\ Sound(DropLine, n)
<1>1. Cap \in Nat
  BY TelemetryAssumption
<1>2. CASE drops.unreported = FALSE
  <2>1. DropLine = Out
    BY <1>2 DEF DropLine
  <2> QED
    BY <2>1
<1>3. CASE drops.unreported = TRUE
  <2> DEFINE o == [Out EXCEPT !.drops.unreported = FALSE]
  <2>1. o.console = console /\ o.downlink = downlink /\ o.beacon = beacon /\ o.poll = poll
    BY DEF Out
  <2>2. o.drops.unreported = FALSE /\ o.drops.untold = drops.untold
    BY DEF Out, Outputs, Drops
  <2>3. o \in Outputs
    BY DEF Outputs, Drops
  <2> HIDE DEF o
  <2>4. CASE Cap - console >= Small
    <3>1. DropLine = [ToConsole(o, Small) EXCEPT !.drops.untold = FALSE]
      BY <1>3, <2>4 DEF DropLine, o
    <3>2. ToConsole(o, Small) = [o EXCEPT !.console = o.console + Small]
      BY <2>1, <2>4 DEF ToConsole
    <3> DEFINE d == [o.drops EXCEPT !.untold = FALSE]
    <3>3. d \in Drops /\ d.untold = FALSE
      BY <2>3 DEF Outputs, Drops
    <3>4. /\ DropLine.console = console + Small /\ DropLine.downlink = downlink
          /\ DropLine.beacon = beacon /\ DropLine.poll = poll /\ DropLine.drops = d
      BY <3>1, <3>2, <2>1, <2>3 DEF Outputs
    <3>5. [o EXCEPT !.console = o.console + Small] \in Outputs
      BY <2>1, <2>3, <2>4, <1>1 DEF Outputs, Out, Small
    <3>6. DropLine \in Outputs
      BY <3>1, <3>2, <3>5, <3>3 DEF Outputs
    <3> HIDE DEF d
    <3> QED
      BY <3>3, <3>4, <3>6 DEF Outputs, Sound, Out
  <2>5. CASE ~(Cap - console >= Small)
    <3>1. ToConsole(o, Small) = Dropped(o)
      BY <2>5, <2>1 DEF ToConsole
    <3>2. DropLine = Dropped(o)
      BY <1>3, <2>5, <3>1 DEF DropLine, o
    <3>3. Dropped(o) \in Outputs /\ Dropped(o).drops.unreported = TRUE
      BY <2>3 DEF Outputs, Drops, Dropped
    <3>4. /\ Dropped(o).console = console /\ Dropped(o).downlink = downlink
          /\ Dropped(o).beacon = beacon
      BY <2>1, <2>3 DEF Outputs, Dropped
    <3>5. Dropped(o).drops \in Drops
      BY <3>3 DEF Outputs
    <3> QED
      BY <3>2, <3>3, <3>4, <3>5 DEF Sound, Out
  <2> QED
    BY <2>4, <2>5
<1>4. drops.unreported \in BOOLEAN
  BY DEF Out, Outputs, Drops
<1> QED
  BY <1>2, <1>3, <1>4

\* What an entry point returns is what the state becomes.
LEMMA SetOutSound ==
    ASSUME NEW o \in Outputs, NEW n \in 0..5, Sound(o, n), SetOut(o)
    PROVE  Out' \in Outputs /\ Sound(Out, n)'
BY DEF SetOut, Out, Sound, Outputs

\* The producers change what is shared through the entry points alone.
LEMMA OfferSound ==
    ASSUME TelemetryInv, NEW p \in Producer, NEW id \in {"health", "progress", "chunk"},
           NEW size \in Nat, Offer(p, id, size)
    PROVE  TelemetryInv'
<1>1. Front \in 0..5 /\ Front' = Front
  BY DEF TelemetryInv, Placed, Front, Offer, Numbers
<1>2. Out' \in Outputs /\ Sound(Out, Front)'
  BY <1>1, ToConsoleSound, SetOutSound DEF TelemetryInv, Offer
<1>3. Placed'
  BY DEF TelemetryInv, Placed, Offer, Producer, Places
<1> QED
  BY <1>2, <1>3 DEF TelemetryInv, Offer

\* Every step keeps the invariant.
LEMMA TelemetryStep == TelemetryInv /\ [Next]_vars => TelemetryInv'
<1> SUFFICES ASSUME TelemetryInv, [Next]_vars PROVE TelemetryInv'
  OBVIOUS
<1>0. /\ Front \in 0..5 /\ Placed /\ Out \in Outputs /\ Sound(Out, Front)
      /\ tele.at = "sending" => tele.number = aired
  BY DEF TelemetryInv, Placed, Front, Numbers
<1>c. Cap \in Nat /\ Every \in Nat \ {0} /\ WirePeriod \in Nat
  BY TelemetryAssumption
<1>s. ASSUME NEW n \in Nat PROVE Spend(n) \in 0..WirePeriod
  BY <1>0, <1>c DEF Spend, Placed
<1>h. WirePeriod \div 2 \in Nat
  BY <1>c
<1>1. ASSUME NEW command \in {None, "other"} \cup Pollable, ControlCycle(command)
      PROVE  TelemetryInv'
  <2>1. Out' \in Outputs /\ Sound(Out, Front)'
    <3>1. Front' = Front
      BY <1>1 DEF Front, ControlCycle
    <3> QED
      BY <1>0, <1>1, <3>1, CycleSound, SetOutSound DEF ControlCycle
  <2>2. Placed'
    BY <1>0, <1>1, <1>c DEF Placed, ControlCycle
  <2> QED
    BY <1>0, <1>1, <2>1, <2>2 DEF TelemetryInv, ControlCycle
<1>2. CASE HealthReports
  BY <1>2, OfferSound DEF HealthReports, Producer, Small
<1>3. CASE ReportProgress
  BY <1>3, OfferSound DEF ReportProgress, Producer, Small
<1>4. CASE EmitChunk
  BY <1>4, OfferSound DEF EmitChunk, Producer, ChunkSize
<1>5. CASE ChunkWanted
  <2>1. Placed'
    BY <1>0, <1>5 DEF Placed, ChunkWanted, Producer, Places
  <2>2. Out' = Out /\ Front' = Front
    BY <1>5 DEF Out, Front, ChunkWanted
  <2>3. Sound(Out, Front)' /\ Out' \in Outputs
    BY <1>0, <2>2 DEF Sound, Consecutive
  <2> QED
    BY <1>0, <1>5, <2>1, <2>3 DEF TelemetryInv, ChunkWanted
<1>6. ASSUME NEW p \in Producer, PollClear(p) PROVE TelemetryInv'
  <2>1. Placed'
    BY <1>0, <1>6 DEF Placed, PollClear, Producer, Places
  <2>2. Front' = Front
    BY <1>6 DEF Front, PollClear
  <2>3. Out' \in Outputs /\ Sound(Out, Front)'
    BY <1>0, <1>6, <2>2, AnswerSound, SetOutSound DEF PollClear
  <2> QED
    BY <1>0, <1>6, <2>1, <2>3 DEF TelemetryInv, PollClear
<1>7. ASSUME NEW p \in Producer, PushDownlink(p) PROVE TelemetryInv'
  <2>1. Placed'
    BY <1>0, <1>7 DEF Placed, PushDownlink, Producer, Places, None
  <2>2. Front' = Front
    BY <1>7 DEF Front, PushDownlink
  <2>3. (IF task[p].id = "chunk" THEN ChunkSize ELSE Small) \in Nat
    BY DEF ChunkSize, Small
  <2>4. Out' \in Outputs /\ Sound(Out, Front)'
    BY <1>0, <1>7, <2>2, <2>3, ToDownlinkSound, SetOutSound DEF PushDownlink
  <2> QED
    BY <1>0, <1>7, <2>1, <2>4 DEF TelemetryInv, PushDownlink
<1>8. CASE BeaconProgress
  <2>1. Placed'
    BY <1>0, <1>8 DEF Placed, BeaconProgress, Producer, Places, None
  <2>2. Front' = Front
    BY <1>8 DEF Front, BeaconProgress
  <2>3. Out' \in Outputs /\ Sound(Out, Front)'
    BY <1>0, <1>8, <2>2, ToBeaconSound, SetOutSound DEF BeaconProgress
  <2> QED
    BY <1>0, <1>8, <2>1, <2>3 DEF TelemetryInv, BeaconProgress
<1>9. CASE DrainConsole
  <2>1. Placed'
    BY <1>0, <1>9, <1>s, <1>h DEF Placed, DrainConsole
  <2>2. tele.at = "console" /\ tele'.at # "sending" /\ Front' = Front
    BY <1>0, <1>9 DEF Front, DrainConsole, Placed
  <2>3. /\ console' \in 0..Cap
        /\ UNCHANGED <<downlink, beacon, poll, drops>>
    BY <1>0, <1>9, <1>c DEF DrainConsole, Sound, Out
  <2>4. Out' \in Outputs /\ Sound(Out, Front)'
    BY <1>0, <2>2, <2>3 DEF Out, Outputs, Sound
  <2> QED
    BY <2>1, <2>2, <2>4 DEF TelemetryInv
<1>10. CASE DrainDownlink
  <2>1. Placed'
    BY <1>0, <1>10, <1>s DEF Placed, DrainDownlink
  <2>2. tele.at = "downlink" /\ tele'.at # "sending" /\ Front' = Front
    BY <1>0, <1>10 DEF Front, DrainDownlink, Placed
  <2>3. /\ downlink' \in 0..Cap
        /\ UNCHANGED <<console, beacon, poll, drops>>
    BY <1>0, <1>10, <1>c DEF DrainDownlink, Sound, Out
  <2>4. Out' \in Outputs /\ Sound(Out, Front)'
    BY <1>0, <2>2, <2>3 DEF Out, Outputs, Sound
  <2> QED
    BY <2>1, <2>2, <2>4 DEF TelemetryInv
<1>11. CASE ServiceBeacon
  <2>0. /\ beacon \in Queue /\ Consecutive(beacon, aired) /\ Front = aired
        /\ console \in 0..Cap /\ downlink \in 0..Cap /\ drops \in Drops /\ poll \in Polls
        /\ drops.untold = TRUE => drops.unreported = TRUE
    BY <1>0, <1>11 DEF Sound, Out, Outputs, Front, ServiceBeacon
  <2>1. CASE beacon.count = 0
    <3>1. tele'.at = "report" /\ Front' = Front /\ Out' = Out
      BY <1>0, <1>11, <2>0, <2>1 DEF ServiceBeacon, Front, Out, Placed
    <3>2. Placed'
      BY <1>0, <1>11, <2>1 DEF ServiceBeacon, Placed
    <3> QED
      BY <1>0, <3>1, <3>2 DEF TelemetryInv, Sound, Consecutive
  <2>2. CASE beacon.count # 0
    <3>1. /\ beacon.slots \in [0..2 -> 0..5] /\ beacon.head \in 0..2 /\ beacon.count \in 1..3
          /\ aired \in 0..5
      BY <1>0, <2>0, <2>2 DEF Queue, Placed
    <3>2. beacon.slots[beacon.head] = aired
      <4>1. 0 < beacon.count /\ (beacon.head + 0) % 3 = beacon.head /\ (aired + 0) % 6 = aired
        BY <3>1
      <4> QED
        BY <2>0, <4>1 DEF Consecutive, kBeaconDepth, Numbers
    <3>3. tele' = [at |-> "sending", number |-> aired] /\ aired' = aired
      BY <1>11, <2>2, <3>2 DEF ServiceBeacon
    <3>4. Placed'
      BY <1>0, <1>11, <3>3, <3>1 DEF ServiceBeacon, Placed
    <3>5. /\ beacon'.slots = beacon.slots /\ beacon'.head = (beacon.head + 1) % 3
          /\ beacon'.count = beacon.count - 1 /\ beacon'.next = beacon.next
          /\ beacon' \in Queue
      <4>1. beacon' = [slots |-> beacon.slots, head |-> (beacon.head + 1) % 3,
                       count |-> beacon.count - 1, next |-> beacon.next]
        BY <1>11, <2>0, <2>2 DEF ServiceBeacon, Queue, kBeaconDepth
      <4>2. (beacon.head + 1) % 3 \in 0..2 /\ beacon.count - 1 \in 0..3 /\ beacon.next \in 0..5
        BY <2>0, <3>1 DEF Queue
      <4> QED
        BY <4>1, <4>2, <3>1 DEF Queue
    <3>6. Front' = (aired + 1) % Numbers
      BY <3>3 DEF Front
    <3>7. ASSUME NEW i \in 0..2, i < beacon.count - 1
          PROVE  beacon.slots[(((beacon.head + 1) % 3) + i) % 3] = (((aired + 1) % 6) + i) % 6
      <4>1. i + 1 \in 0..2 /\ i + 1 < beacon.count
        BY <3>7, <3>1
      <4>2. beacon.slots[(beacon.head + (i + 1)) % 3] = (aired + (i + 1)) % 6
        BY <4>1, <2>0 DEF Consecutive, kBeaconDepth, Numbers
      <4> QED
        BY <4>2, <4>1, <3>1
    <3>8. beacon.next = (((aired + 1) % 6) + (beacon.count - 1)) % 6
      BY <2>0, <3>1 DEF Consecutive, Numbers
    <3>9. Consecutive(beacon, Front)'
      BY <3>5, <3>6, <3>7, <3>8 DEF Consecutive, kBeaconDepth, Numbers
    <3>10. Out' \in Outputs /\ Sound(Out, Front)'
      BY <1>11, <2>0, <3>5, <3>9 DEF ServiceBeacon, Out, Outputs, Sound
    <3> QED
      BY <3>3, <3>4, <3>10 DEF TelemetryInv
  <2> QED
    BY <2>1, <2>2
<1>12. CASE Sent
  <2>1. Front' = Front /\ Out' = Out /\ tele'.at = "report"
    BY <1>0, <1>12 DEF Sent, Front, Out
  <2>2. Placed'
    BY <1>0, <1>12, <1>s, <1>h DEF Sent, Placed, Numbers
  <2> QED
    BY <1>0, <2>1, <2>2 DEF TelemetryInv, Sound, Consecutive
<1>13. CASE ReportDrops
  <2>1. Front' = Front /\ tele'.at = "console"
    BY <1>0, <1>13 DEF ReportDrops, Front, Placed
  <2>2. Placed'
    BY <1>0, <1>13 DEF ReportDrops, Placed
  <2>3. Out' \in Outputs /\ Sound(Out, Front)'
    BY <1>0, <1>13, <2>1, DropLineSound, SetOutSound DEF ReportDrops
  <2> QED
    BY <2>1, <2>2, <2>3 DEF TelemetryInv
<1>14. CASE UNCHANGED vars
  <2>1. Out' = Out /\ Front' = Front /\ Placed'
    BY <1>0, <1>14 DEF vars, Out, Front, Placed
  <2> QED
    BY <1>0, <1>14, <2>1 DEF vars, TelemetryInv, Sound, Consecutive
<1> QED
  <2>1. DOMAIN task = Producer
    BY <1>0 DEF Placed
  <2> QED
    BY <1>1, <1>2, <1>3, <1>4, <1>5, <1>6, <1>7, <1>8, <1>9, <1>10, <1>11, <1>12, <1>13, <1>14, <2>1
       DEF Next, Producers, TelemetryTask

\* Both wires, the queue and the tasks start empty.
LEMMA TelemetryStart == Init => TelemetryInv
<1> SUFFICES ASSUME Init PROVE TelemetryInv
  OBVIOUS
<1>1. Cap \in Nat /\ WirePeriod \in Nat
  BY TelemetryAssumption
<1>2. Front = 0 /\ tele.at = "console"
  BY DEF Init, Front
<1>3. Placed
  BY <1>1 DEF Init, Placed, Places, Producer, None
<1>4. beacon \in Queue /\ Consecutive(beacon, 0)
  BY DEF Init, Queue, Consecutive, kBeaconDepth, Numbers
<1>5. drops \in Drops /\ drops.untold = FALSE /\ poll \in Polls
  BY DEF Init, Drops, Polls
<1>6. Out \in Outputs /\ Sound(Out, 0)
  BY <1>1, <1>4, <1>5 DEF Init, Out, Outputs, Sound
<1> QED
  BY <1>2, <1>3, <1>6 DEF TelemetryInv

\* telemetry_task.cpp:192: a frame is on the air once, in the order the queue took it, and
\* no buffer holds more than fits, in every reachable state.
THEOREM AiredInOrder == Spec => []BeaconsInOrder
<1>1. TelemetryInv => BeaconsInOrder
  BY DEF TelemetryInv, Placed, Out, Outputs, Queue, Places, Producer, BeaconsInOrder,
         TelemetryTypeOK, kBeaconDepth
<1> QED
  BY <1>1, TelemetryStart, TelemetryStep, PTL DEF Spec

\* telemetry_task.cpp:120: a drop that no line has told of is always remembered.
THEOREM NoSilentDrop == Spec => []DropsRemembered
<1>1. ASSUME TelemetryInv PROVE DropsRemembered
  <2>1. drops.untold \in BOOLEAN /\ drops.unreported \in BOOLEAN
    BY <1>1 DEF TelemetryInv, Out, Outputs, Drops
  <2>2. drops.untold = TRUE => drops.unreported = TRUE
    BY <1>1 DEF TelemetryInv, Sound, Out
  <2> QED
    BY <2>1, <2>2 DEF DropsRemembered
<1> QED
  BY <1>1, TelemetryStart, TelemetryStep, PTL DEF Spec
==============================================================================
