------------------------------ MODULE VigilProofs ------------------------------
(***************************************************************************)
(* Theorems about Vigil for every deadline, pace and period in the order   *)
(* TimesAssumption states, and any number of hangs, resets and restarts.   *)
(***************************************************************************)
EXTENDS Vigil, TLAPS

Stages == {"boot", "control", "health", "others", "wheel"}
Causes == {"POWER_ON", "BROWNOUT", "SOFTWARE", "WATCHDOG", "RESET_PIN", "told"}
Report == [since : 0..ReportPeriod, late : BOOLEAN, missed : BOOLEAN]
View == [quiet : Nat, acquired : BOOLEAN, streak : 0..WheelDebounce, latched : BOOLEAN]
Node == [alive : BOOLEAN, aligning : 0..AlignTicks, target : 0..1, since : 0..(CommandTimeout + 1),
         quiet : 0..(StatusPeriod + 1), rx : Seq(0..1)]

\* What the variables hold.
Typed ==
    /\ stage \in Stages /\ clock \in 0..BringUp
    /\ cause \in Causes
    /\ age \in [Task -> Nat] /\ checked \subseteq Task /\ hung \subseteq Task
    /\ health \in Report
    /\ dog \in 0..Iwdg
    /\ wheel \in View /\ status \in BOOLEAN
    /\ esc \in Node /\ Len(esc.rx) <= RxDepth
    /\ truth \in [reset : Causes, uncommanded : Nat]
    /\ spent \in [hangs : Nat, resets : Nat, restarts : Nat, lost : Nat]

------------------------------------------------------------------------------
(* The operators of the model.                                             *)

\* The constants one by one.
LEMMA Constants ==
    /\ AlignTicks \in Nat \ {0} /\ CommandTimeout \in Nat \ {0} /\ StatusPeriod \in Nat \ {0}
    /\ RxDepth \in Nat \ {0}
    /\ ReportPeriod \in Nat \ {0} /\ Iwdg \in Nat \ {0} /\ BringUp \in Nat \ {0}
    /\ WheelTimeout \in Nat \ {0} /\ WheelAcquire \in Nat \ {0} /\ WheelDebounce \in Nat \ {0}
    /\ MaxHangs \in Nat /\ MaxResets \in Nat /\ MaxEscRestarts \in Nat /\ MaxLost \in Nat
    /\ Deadline \in [Task -> Nat] /\ Pace \in [Task -> Nat]
<1>1. {AlignTicks, CommandTimeout, StatusPeriod, RxDepth} \subseteq Nat \ {0}
  BY WheelNodeAssumption
<1>2. /\ {ReportPeriod, Iwdg, BringUp, WheelTimeout, WheelAcquire, WheelDebounce} \subseteq Nat \ {0}
      /\ {MaxHangs, MaxResets, MaxEscRestarts, MaxLost} \subseteq Nat
      /\ Deadline \in [Task -> Nat] /\ Pace \in [Task -> Nat]
  BY VigilAssumption
<1> QED
  BY <1>1, <1>2

\* The node starts in order.
LEMMA StartIsNode == EscStart \in Node /\ Len(EscStart.rx) = 0 /\ EscStart.target = 0 /\ ~Running(EscStart)
BY Constants DEF EscStart, Node, Running

\* A command joins the buffer or is lost.
LEMMA DeliverIsNode ==
    ASSUME NEW e \in Node, Len(e.rx) <= RxDepth, NEW torque \in 0..1
    PROVE  /\ Deliver(e, torque) \in Node /\ Len(Deliver(e, torque).rx) <= RxDepth
           /\ Deliver(e, torque).alive = e.alive /\ Deliver(e, torque).aligning = e.aligning
           /\ Deliver(e, torque).target = e.target /\ Deliver(e, torque).since = e.since
           /\ Deliver(e, torque).quiet = e.quiet
<1>1. CASE Len(e.rx) < RxDepth
  <2>1. Append(e.rx, torque) \in Seq(0..1) /\ Len(Append(e.rx, torque)) = Len(e.rx) + 1
    BY DEF Node
  <2>2. Deliver(e, torque) = [e EXCEPT !.rx = Append(e.rx, torque)]
    BY <1>1 DEF Deliver
  <2>3. Len(e.rx) \in Nat /\ RxDepth \in Nat
    BY Constants DEF Node
  <2> DEFINE f == [e EXCEPT !.rx = Append(e.rx, torque)]
  <2>4. f \in Node
    BY <2>1 DEF Node
  <2>5. f.rx = Append(e.rx, torque) /\ Len(f.rx) <= RxDepth
    BY <1>1, <2>1, <2>3 DEF Node
  <2>6. /\ f.alive = e.alive /\ f.aligning = e.aligning /\ f.target = e.target
        /\ f.since = e.since /\ f.quiet = e.quiet
    BY DEF Node
  <2> QED
    BY <2>2, <2>4, <2>5, <2>6
<1>2. CASE ~(Len(e.rx) < RxDepth)
  BY <1>2 DEF Deliver
<1> QED
  BY <1>1, <1>2

\* One pass of a node that runs empties its buffer, obeys the last command, and lets go of
\* the wheel when none came for too long.
LEMMA PassOfRunning ==
    ASSUME NEW e \in Node, Running(e), NEW f, f = EscTick(EscLoop(e))
    PROVE  /\ f \in Node /\ f.rx = <<>> /\ f.aligning = 0 /\ f.alive = e.alive
           /\ e.rx # <<>> => f.since = 1
           /\ e.rx = <<>> /\ e.since <= CommandTimeout => f.target = e.target /\ f.since = e.since + 1
           /\ e.rx = <<>> /\ e.since > CommandTimeout => f.target = 0
           /\ Reports(e) => f.quiet = 1
           /\ ~Reports(e) => e.quiet <= StatusPeriod /\ f.quiet = e.quiet + 1
<1> DEFINE a == Applied(e)
           d == DeadMan(a)
           l == [d EXCEPT !.quiet = IF Reports(e) THEN 0 ELSE d.quiet]
<1>0. /\ AlignTicks \in Nat /\ CommandTimeout \in Nat \ {0} /\ StatusPeriod \in Nat \ {0}
      /\ e.since \in 0..(CommandTimeout + 1) /\ e.quiet \in 0..(StatusPeriod + 1)
      /\ e.aligning = 0 /\ e.rx \in Seq(0..1)
  BY Constants DEF Node, Running
<1> HIDE DEF a
<1>1. /\ a \in Node /\ a.rx = <<>> /\ a.aligning = 0 /\ a.alive = e.alive /\ a.quiet = e.quiet
      /\ e.rx # <<>> => a.since = 0
      /\ e.rx = <<>> => a = e
  <2>1. CASE e.rx = <<>>
    BY <1>0, <2>1 DEF Applied, a
  <2>2. CASE e.rx # <<>>
    <3> DEFINE last == e.rx[Len(e.rx)]
    <3>1. last \in 0..1 /\ 0 \in 0..(CommandTimeout + 1)
      BY <1>0, <2>2
    <3>2. <<>> \in Seq(0..1)
      OBVIOUS
    <3>3. a = [e EXCEPT !.target = last, !.since = 0, !.rx = <<>>]
      BY <2>2 DEF Applied, a
    <3> HIDE DEF last
    <3>4. a \in Node
      BY <3>1, <3>2, <3>3 DEF Node
    <3>5. a.rx = <<>> /\ a.since = 0
      BY <3>3 DEF Node
    <3>6. a.aligning = e.aligning /\ a.alive = e.alive /\ a.quiet = e.quiet
      BY <3>3 DEF Node
    <3> QED
      BY <1>0, <2>2, <3>4, <3>5, <3>6
  <2> QED
    BY <2>1, <2>2
<1>2. /\ d \in Node /\ d.rx = <<>> /\ d.aligning = 0 /\ d.alive = e.alive /\ d.quiet = e.quiet
      /\ d.since = a.since
      /\ a.since <= CommandTimeout => d.target = a.target
      /\ a.since > CommandTimeout => d.target = 0
  <2>1. CASE a.since > CommandTimeout
    <3>1. d = [a EXCEPT !.target = 0]
      BY <2>1 DEF DeadMan
    <3>2. d \in Node /\ d.target = 0
      BY <3>1, <1>1 DEF Node
    <3>3. /\ d.rx = a.rx /\ d.aligning = a.aligning /\ d.alive = a.alive /\ d.quiet = a.quiet
          /\ d.since = a.since
      BY <3>1, <1>1 DEF Node
    <3>4. a.since \in Nat
      BY <1>1, <1>0 DEF Node
    <3> QED
      BY <1>0, <1>1, <2>1, <3>2, <3>3, <3>4
  <2>2. CASE ~(a.since > CommandTimeout)
    BY <1>0, <1>1, <2>2 DEF DeadMan
  <2> QED
    BY <2>1, <2>2
<1> HIDE DEF d
<1>3. /\ l \in Node /\ l.rx = <<>> /\ l.aligning = 0 /\ l.alive = e.alive
      /\ l.since = d.since /\ l.target = d.target
      /\ Reports(e) => l.quiet = 0
      /\ ~Reports(e) => l.quiet = e.quiet
  <2> DEFINE q == IF Reports(e) THEN 0 ELSE d.quiet
  <2>1. q \in 0..(StatusPeriod + 1)
    BY <1>0, <1>2
  <2>2. q = IF Reports(e) THEN 0 ELSE e.quiet
    BY <1>2
  <2> HIDE DEF q
  <2>3. l = [d EXCEPT !.quiet = q]
    BY DEF q
  <2>4. l \in Node /\ l.quiet = q
    BY <1>2, <2>1, <2>3 DEF Node
  <2>5. l.rx = d.rx /\ l.aligning = d.aligning /\ l.alive = d.alive /\ l.since = d.since /\ l.target = d.target
    BY <1>2, <2>3 DEF Node
  <2> QED
    BY <1>2, <2>2, <2>4, <2>5
<1>4. EscLoop(e) = l
  BY DEF EscLoop, d, a
<1> HIDE DEF l
<1> DEFINE since == IF l.since > CommandTimeout THEN l.since ELSE l.since + 1
           quiet == IF l.quiet > StatusPeriod THEN l.quiet ELSE l.quiet + 1
<1>5. f = [l EXCEPT !.since = since, !.quiet = quiet]
  BY <1>3, <1>4 DEF EscTick, Running
<1>6. since \in 0..(CommandTimeout + 1) /\ quiet \in 0..(StatusPeriod + 1)
  BY <1>0, <1>3 DEF Node
<1>7. ~Reports(e) => e.quiet <= StatusPeriod
  BY <1>0 DEF Reports
<1>8. /\ e.rx # <<>> => since = 1
      /\ e.rx = <<>> /\ e.since <= CommandTimeout => since = e.since + 1
      /\ Reports(e) => quiet = 1
      /\ ~Reports(e) => quiet = e.quiet + 1
  BY <1>0, <1>1, <1>2, <1>3, <1>7
<1> HIDE DEF since, quiet
<1>9. f \in Node /\ f.since = since /\ f.quiet = quiet
  BY <1>3, <1>5, <1>6 DEF Node
<1>10. f.rx = l.rx /\ f.aligning = l.aligning /\ f.alive = l.alive /\ f.target = l.target
  BY <1>3, <1>5 DEF Node
<1>11. /\ e.rx = <<>> /\ e.since <= CommandTimeout => f.target = e.target
       /\ e.rx = <<>> /\ e.since > CommandTimeout => f.target = 0
  BY <1>1, <1>2, <1>3, <1>10
<1> QED
  BY <1>3, <1>7, <1>8, <1>9, <1>10, <1>11

\* One pass of a node that aligns, or is dead, changes what it waits for and no more; it
\* will report at once when it is aligned.
LEMMA PassOfAligning ==
    ASSUME NEW e \in Node, ~Running(e), e.target = 0, NEW f, f = EscTick(EscLoop(e))
    PROVE  /\ f \in Node /\ f.rx = e.rx /\ f.target = 0 /\ f.alive = e.alive
           /\ f.quiet = StatusPeriod + 1
           /\ f.aligning = IF e.alive = TRUE THEN e.aligning - 1 ELSE e.aligning
<1> DEFINE left == IF e.alive THEN e.aligning - 1 ELSE e.aligning
           l == [e EXCEPT !.aligning = left, !.quiet = StatusPeriod + 1]
<1>0. AlignTicks \in Nat /\ CommandTimeout \in Nat /\ StatusPeriod \in Nat
  BY Constants
<1>1. EscLoop(e) = l
  BY DEF EscLoop
<1>2. left \in 0..AlignTicks /\ left = IF e.alive = TRUE THEN e.aligning - 1 ELSE e.aligning
  <2>1. e.alive \in BOOLEAN /\ e.aligning \in 0..AlignTicks /\ e.aligning # 0
    BY DEF Node, Running
  <2>2. CASE e.alive = TRUE
    BY <1>0, <2>1, <2>2
  <2>3. CASE e.alive = FALSE
    BY <1>0, <2>1, <2>3
  <2> QED
    BY <2>1, <2>2, <2>3
<1> HIDE DEF left
<1> DEFINE quiet == StatusPeriod + 1
<1>q. quiet \in 0..(StatusPeriod + 1)
  BY <1>0
<1> HIDE DEF quiet
<1>l. l = [e EXCEPT !.aligning = left, !.quiet = quiet]
  BY DEF quiet
<1> HIDE DEF l
<1>3. l \in Node /\ l.aligning = left /\ l.quiet = quiet
  BY <1>2, <1>q, <1>l DEF Node
<1>4. l.rx = e.rx /\ l.target = e.target /\ l.alive = e.alive
  BY <1>l DEF Node
<1> USE DEF quiet
<1>5. CASE l.aligning = 0
  <2> DEFINE since == IF l.since > CommandTimeout THEN l.since ELSE l.since + 1
  <2> DEFINE later == IF l.quiet > StatusPeriod THEN l.quiet ELSE l.quiet + 1
  <2>1. f = [l EXCEPT !.since = since, !.quiet = later]
    BY <1>1, <1>5 DEF EscTick, Running
  <2>2. since \in 0..(CommandTimeout + 1) /\ later = StatusPeriod + 1
    BY <1>0, <1>3 DEF Node
  <2>3. later \in 0..(StatusPeriod + 1)
    BY <1>0, <2>2
  <2> HIDE DEF since, later
  <2>4. f \in Node /\ f.quiet = StatusPeriod + 1
    BY <1>3, <2>1, <2>2, <2>3 DEF Node
  <2>5. f.rx = l.rx /\ f.target = l.target /\ f.alive = l.alive /\ f.aligning = l.aligning
    BY <1>3, <2>1 DEF Node
  <2> QED
    BY <1>2, <1>3, <1>4, <2>4, <2>5
<1>6. CASE l.aligning # 0
  BY <1>1, <1>2, <1>3, <1>4, <1>6 DEF EscTick, Running
<1> QED
  BY <1>5, <1>6

\* The smaller of two numbers is one of them.
LEMMA LeastOf ==
    ASSUME NEW a \in Nat, NEW b \in Nat
    PROVE  Least(a, b) \in Nat /\ Least(a, b) <= a /\ Least(a, b) <= b /\ Least(a, b) \in {a, b}
BY DEF Least

\* evaluate_wheel measures the silence against the window of a link that has spoken or
\* has not, and latches after enough of it in a row.
LEMMA WheelJudged ==
    ASSUME NEW w \in View, NEW heard \in BOOLEAN, NEW v, v = EvaluateWheel(w, heard)
    PROVE  /\ v \in View
           /\ heard = TRUE => v.quiet = 0 /\ v.acquired = TRUE /\ v.streak = 0
           /\ heard = FALSE => v.quiet = w.quiet /\ (v.acquired = TRUE <=> w.acquired = TRUE)
           /\ heard = FALSE /\ w.quiet <= Window(w) => v.streak = 0
           /\ heard = FALSE /\ w.quiet > Window(w) => v.streak = Least(w.streak + 1, WheelDebounce)
           /\ v.latched = TRUE <=> w.latched = TRUE \/ v.streak = WheelDebounce
<1> DEFINE quiet == IF heard THEN 0 ELSE w.quiet
           acquired == w.acquired \/ heard
           seen == [w EXCEPT !.quiet = quiet, !.acquired = acquired]
           bad == seen.quiet > Window(seen)
           streak == IF bad THEN Least(w.streak + 1, WheelDebounce) ELSE 0
           latched == seen.latched \/ streak = WheelDebounce
<1>1. /\ v = [seen EXCEPT !.streak = streak, !.latched = latched]
  BY DEF EvaluateWheel
<1>2. /\ WheelTimeout \in Nat \ {0} /\ WheelAcquire \in Nat \ {0} /\ WheelDebounce \in Nat \ {0}
      /\ w.quiet \in Nat /\ w.streak \in 0..WheelDebounce
      /\ w.acquired \in BOOLEAN /\ w.latched \in BOOLEAN
  BY Constants DEF View
<1>3. quiet \in Nat /\ (heard = TRUE => quiet = 0) /\ (heard = FALSE => quiet = w.quiet)
  BY <1>2
<1>4. acquired \in BOOLEAN /\ (heard = TRUE => acquired = TRUE) /\ (heard = FALSE => acquired = w.acquired)
  BY <1>2
<1> HIDE DEF quiet, acquired
<1>5. seen \in View /\ seen.quiet = quiet
  BY <1>3, <1>4 DEF View
<1>6. seen.acquired = acquired
  BY <1>4 DEF View
<1>7. seen.latched = w.latched
  BY DEF View
<1> HIDE DEF seen
<1>8. Window(seen) \in Nat \ {0} /\ (heard = FALSE => Window(seen) = Window(w))
  BY <1>2, <1>4, <1>6 DEF Window
<1>9. /\ streak \in 0..WheelDebounce
      /\ heard = TRUE => streak = 0
      /\ heard = FALSE /\ w.quiet <= Window(w) => streak = 0
      /\ heard = FALSE /\ w.quiet > Window(w) => streak = Least(w.streak + 1, WheelDebounce)
  BY <1>2, <1>3, <1>5, <1>8 DEF Least
<1> HIDE DEF streak
<1>10. latched \in BOOLEAN /\ (latched = TRUE <=> w.latched = TRUE \/ streak = WheelDebounce)
  BY <1>2, <1>7
<1> HIDE DEF latched
<1>11. v \in View /\ v.streak = streak
  BY <1>1, <1>5, <1>9, <1>10 DEF View
<1>12. v.latched = latched
  BY <1>1, <1>5 DEF View
<1>13. v.acquired = seen.acquired
  BY <1>1, <1>5 DEF View
<1>14. v.quiet = seen.quiet
  BY <1>1, <1>5 DEF View
<1>15. v.acquired = TRUE <=> acquired = TRUE
  BY <1>6, <1>13
<1> QED
  BY <1>3, <1>4, <1>5, <1>9, <1>10, <1>11, <1>12, <1>14, <1>15

------------------------------------------------------------------------------
(* Type correctness.                                                       *)

\* What a reset leaves.
LEMMA ResetTyped ==
    ASSUME Typed, NEW kind \in DOMAIN FlagsOf, Reset(kind), esc' \in {esc, EscStart},
           spent' \in [hangs : Nat, resets : Nat, restarts : Nat, lost : Nat]
    PROVE  Typed'
<1>1. cause' \in Causes /\ kind \in Causes
  <2>1. kind \in Causes
    BY DEF FlagsOf, Causes
  <2>2. cause' = ResetCause(csr \cup FlagsOf[kind])
    BY DEF Reset
  <2> DEFINE flags == csr \cup FlagsOf[kind]
  <2> HIDE DEF flags
  <2>3. ResetCause(flags) \in Causes
    BY DEF ResetCause, Causes
  <2> QED
    BY <2>1, <2>2, <2>3 DEF flags
<1>2. esc' \in Node /\ Len(esc'.rx) <= RxDepth
  BY StartIsNode, Constants DEF Typed
<1>3. stage' \in Stages /\ clock' \in 0..BringUp /\ dog' \in 0..Iwdg
  BY Constants DEF Reset, Stages
<1>4. age' \in [Task -> Nat] /\ checked' \subseteq Task /\ hung' \subseteq Task
  BY DEF Reset
<1>5. health' \in Report
  BY Constants DEF Reset, Report
<1>6. wheel' \in View /\ status' \in BOOLEAN
  <2>1. NoWheel \in View
    BY Constants DEF NoWheel, View
  <2> QED
    BY <2>1 DEF Reset
<1>7. truth' \in [reset : Causes, uncommanded : Nat]
  BY <1>1 DEF Typed, Reset
<1> QED
  BY <1>1, <1>2, <1>3, <1>4, <1>5, <1>6, <1>7 DEF Typed

\* Everything starts at zero.
LEMMA VigilStart == Init => Typed
<1> SUFFICES ASSUME Init PROVE Typed
  OBVIOUS
<1>1. NoWheel \in View
  BY Constants DEF NoWheel, View
<1>2. ResetCause(FlagsOf["POWER_ON"]) = "POWER_ON"
  <2>1. FlagsOf["POWER_ON"] = {"POR", "BOR", "PIN"}
    BY DEF FlagsOf
  <2> DEFINE flags == {"POR", "BOR", "PIN"}
  <2>2. "IWDG" \notin flags /\ "SFT" \notin flags /\ "POR" \in flags
    OBVIOUS
  <2> HIDE DEF flags
  <2>3. ResetCause(flags) = "POWER_ON"
    BY <2>2 DEF ResetCause
  <2> QED
    BY <2>1, <2>3 DEF flags
<1>3. cause \in Causes /\ stage \in Stages /\ clock \in 0..BringUp /\ dog \in 0..Iwdg
  BY <1>2, Constants DEF Init, Causes, Stages
<1>4. age \in [Task -> Nat] /\ checked \subseteq Task /\ hung \subseteq Task
  BY DEF Init
<1>5. health \in Report
  BY Constants DEF Init, Report
<1>6. wheel \in View /\ status \in BOOLEAN
  BY <1>1 DEF Init
<1>7. esc \in Node /\ Len(esc.rx) <= RxDepth
  BY StartIsNode, Constants DEF Init
<1>8. truth \in [reset : Causes, uncommanded : Nat]
  BY DEF Init, Causes
<1>9. spent \in [hangs : Nat, resets : Nat, restarts : Nat, lost : Nat]
  BY DEF Init
<1> QED
  BY <1>3, <1>4, <1>5, <1>6, <1>7, <1>8, <1>9 DEF Typed

\* Check-ins touch the ages and the set of those that have checked in.
LEMMA CheckInTyped ==
    ASSUME Typed, NEW tasks \in SUBSET Task, CheckIn(tasks)
    PROVE  age' \in [Task -> Nat] /\ checked' \subseteq Task
BY DEF Typed, CheckIn

\* A report starts the count to the next one.
LEMMA JudgeTyped ==
    ASSUME Typed, NEW late \in BOOLEAN, Judge(late)
    PROVE  health' \in Report /\ dog' \in 0..Iwdg /\ stage' \in Stages
<1>1. health' \in Report
  BY Constants DEF Judge, Report
<1>2. dog' \in 0..Iwdg /\ stage' \in Stages
  BY Constants DEF Judge, Typed, Stages
<1> QED
  BY <1>1, <1>2

\* The wheel node's pass keeps every clock in range.
LEMMA WheelTyped ==
    ASSUME Typed, ~Running(esc) => esc.target = 0, NEW lost \in BOOLEAN, Wheel(lost)
    PROVE  Typed'
<1> DEFINE f == EscTick(EscLoop(esc))
<1>1. f \in Node /\ Len(f.rx) <= RxDepth
  <2>1. CASE Running(esc)
    <3>1. f \in Node /\ f.rx = <<>>
      BY <2>1, PassOfRunning DEF Typed
    <3> QED
      BY <3>1, Constants
  <2>2. CASE ~Running(esc)
    BY <2>2, PassOfAligning DEF Typed
  <2> QED
    BY <2>1, <2>2
<1>2. esc' = f
  BY DEF Wheel
<1> HIDE DEF f
<1>3. stage' \in Stages
  BY DEF Wheel, Stages
<1>4. clock' \in 0..BringUp
  <2>1. clock' = Least(clock + 1, BringUp)
    BY DEF Wheel
  <2> QED
    BY <2>1, Constants DEF Typed, Least
<1>5. dog' \in 0..Iwdg
  <2>1. dog < Iwdg /\ dog' = IF stage = "boot" THEN 0 ELSE dog + 1
    BY DEF Wheel
  <2> QED
    BY <2>1, Constants DEF Typed
<1>6. age' \in [Task -> Nat]
  <2>1. ASSUME NEW t \in Task PROVE Least(age[t] + 1, Deadline[t] + Iwdg + 2) \in Nat
    BY Constants DEF Typed, Least
  <2> QED
    BY <2>1 DEF Wheel, Typed
<1>7. health' \in Report
  <2>1. Least(health.since + 1, ReportPeriod) \in 0..ReportPeriod
    BY Constants DEF Typed, Report, Least
  <2>2. health' = health \/ health' = [health EXCEPT !.since = Least(health.since + 1, ReportPeriod)]
    BY DEF Wheel
  <2> QED
    BY <2>1, <2>2 DEF Typed, Report
<1>8. wheel' \in View
  <2>1. Least(wheel.quiet + 1, WheelAcquire + WheelDebounce + 1) \in Nat
    BY Constants DEF Typed, View, Least
  <2>2. wheel' = [wheel EXCEPT !.quiet = Least(wheel.quiet + 1, WheelAcquire + WheelDebounce + 1)]
    BY DEF Wheel
  <2> QED
    BY <2>1, <2>2 DEF Typed, View
<1>9. status' \in BOOLEAN
  BY DEF Wheel
<1>10. truth' \in [reset : Causes, uncommanded : Nat]
  <2> DEFINE n == IF Running(esc) THEN Least(truth.uncommanded + 1, CommandTimeout + 2) ELSE 0
  <2>1. n \in Nat
    BY Constants DEF Typed, Least
  <2>2. truth' = [truth EXCEPT !.uncommanded = n]
    BY DEF Wheel
  <2> HIDE DEF n
  <2> QED
    BY <2>1, <2>2 DEF Typed
<1>11. spent' \in [hangs : Nat, resets : Nat, restarts : Nat, lost : Nat]
  <2> DEFINE n == spent.lost + (IF lost THEN 1 ELSE 0)
  <2>1. n \in Nat
    BY DEF Typed
  <2>2. spent' = [spent EXCEPT !.lost = n]
    BY DEF Wheel
  <2> HIDE DEF n
  <2> QED
    BY <2>1, <2>2 DEF Typed
<1>12. cause' \in Causes /\ checked' \subseteq Task /\ hung' \subseteq Task
  BY DEF Wheel, Typed
<1> QED
  BY <1>1, <1>2, <1>3, <1>4, <1>5, <1>6, <1>7, <1>8, <1>9, <1>10, <1>11, <1>12 DEF Typed

\* Every step keeps to the types.
LEMMA TypedStep ==
    ASSUME Typed, ~Running(esc) => esc.target = 0, [Next]_vars
    PROVE  Typed'
<1>1. CASE WatchdogBites
  <2>1. "WATCHDOG" \in DOMAIN FlagsOf
    BY DEF FlagsOf
  <2> QED
    BY <1>1, <2>1, ResetTyped DEF WatchdogBites, Typed
<1>2. CASE StartScheduler
  <2>1. esc' \in Node /\ Len(esc'.rx) <= RxDepth
    BY <1>2, DeliverIsNode DEF StartScheduler, Typed
  <2>2. stage' \in Stages /\ dog' \in 0..Iwdg
    BY <1>2, Constants DEF StartScheduler, Stages
  <2>3. truth' \in [reset : Causes, uncommanded : Nat]
    BY <1>2 DEF StartScheduler, Typed
  <2> QED
    BY <1>2, <2>1, <2>2, <2>3 DEF StartScheduler, Typed
<1>3. CASE HealthSleeps
  BY <1>3 DEF HealthSleeps, Typed, Stages
<1>4. CASE HealthReports
  <2>1. {"health"} \in SUBSET Task
    BY DEF Task
  <2> QED
    BY <1>4, <2>1, CheckInTyped, JudgeTyped DEF HealthReports, Typed
<1>5. CASE HealthPreempted
  <2>1. {"health"} \in SUBSET Task
    BY DEF Task
  <2>2. health' \in Report /\ stage' \in Stages
    BY <1>5 DEF HealthPreempted, Typed, Report, Stages
  <2> QED
    BY <1>5, <2>1, <2>2, CheckInTyped DEF HealthPreempted, Typed
<1>6. CASE HealthResumes
  BY <1>6, JudgeTyped DEF HealthResumes, Typed
<1>7. ASSUME NEW torque \in 0..1, Control(torque) PROVE Typed'
  <2>1. CASE Runs("control")
    <3>1. {"control"} \in SUBSET Task
      BY DEF Task, Judged
    <3>2. CheckIn({"control"}) /\ wheel' = EvaluateWheel(wheel, status) /\ esc' = Deliver(esc, torque)
      BY <1>7, <2>1 DEF Control
    <3>3. age' \in [Task -> Nat] /\ checked' \subseteq Task
      BY <3>1, <3>2, CheckInTyped
    <3>4. wheel' \in View
      BY <3>2, WheelJudged DEF Typed
    <3>5. esc' \in Node /\ Len(esc'.rx) <= RxDepth
      BY <3>2, DeliverIsNode DEF Typed
    <3>6. truth' = [truth EXCEPT !.uncommanded = 0, !.reset = "told"]
      BY <1>7, <2>1 DEF Control
    <3>7. truth' \in [reset : Causes, uncommanded : Nat]
      BY <3>6 DEF Typed, Causes
    <3>8. status' \in BOOLEAN /\ cause' \in Causes /\ stage' \in Stages
      BY <1>7, <2>1 DEF Control, Causes, Stages
    <3>9. UNCHANGED <<clock, csr, hung, health, dog, spent>>
      BY <1>7 DEF Control
    <3> QED
      BY <3>3, <3>4, <3>5, <3>7, <3>8, <3>9 DEF Typed
  <2>2. CASE ~Runs("control")
    BY <1>7, <2>2 DEF Control, Typed, Stages
  <2> QED
    BY <2>1, <2>2
<1>8. ASSUME NEW tasks \in SUBSET (Judged \ {"control"}), Others(tasks) PROVE Typed'
  <2>1. tasks \in SUBSET Task
    BY DEF Task
  <2> QED
    BY <1>8, <2>1, CheckInTyped DEF Others, Typed, Stages
<1>9. ASSUME NEW lost \in BOOLEAN, Wheel(lost) PROVE Typed'
  BY <1>9, WheelTyped
<1>10. ASSUME NEW kind \in DOMAIN FlagsOf \ {"WATCHDOG"}, OtherReset(kind) PROVE Typed'
  <2>1. spent' \in [hangs : Nat, resets : Nat, restarts : Nat, lost : Nat]
    BY <1>10 DEF OtherReset, Typed
  <2> QED
    BY <1>10, <2>1, ResetTyped DEF OtherReset
<1>11. ASSUME NEW tasks \in SUBSET Task, Hang(tasks) PROVE Typed'
  BY <1>11 DEF Hang, Typed
<1>12. ASSUME NEW alive \in BOOLEAN, EscRestarts(alive) PROVE Typed'
  <2> DEFINE f == [EscStart EXCEPT !.alive = alive]
  <2>1. f \in Node
    BY StartIsNode DEF Node
  <2>2. Len(f.rx) <= RxDepth
    BY Constants DEF EscStart
  <2> HIDE DEF f
  <2>3. esc' = f
    BY <1>12 DEF EscRestarts, f
  <2>4. spent' \in [hangs : Nat, resets : Nat, restarts : Nat, lost : Nat]
    BY <1>12 DEF EscRestarts, Typed
  <2> QED
    BY <1>12, <2>1, <2>2, <2>3, <2>4 DEF EscRestarts, Typed
<1>13. CASE UNCHANGED vars
  BY <1>13 DEF vars, Typed
<1> QED
  <2>1. ASSUME NEW t \in Task PROVE {t} \in SUBSET Task
    OBVIOUS
  <2>2. Task \in SUBSET Task
    OBVIOUS
  <2> QED
    BY <1>1, <1>2, <1>3, <1>4, <1>5, <1>6, <1>7, <1>8, <1>9, <1>10, <1>11, <1>12, <1>13, <2>1, <2>2
       DEF Next

------------------------------------------------------------------------------
(* The wheel nobody commands.                                              *)

\* A wheel is driven for as long as its clock allows, and the clock is not behind: a
\* command waiting in the buffer is fresh, and one obeyed is not older than the clock.
Uncommanded ==
    /\ ~Running(esc) => esc.target = 0
    /\ Running(esc) /\ esc.rx # <<>> => truth.uncommanded = 0
    /\ Running(esc) /\ esc.rx = <<>> /\ esc.target # 0 => truth.uncommanded <= esc.since

\* Nothing is uncommanded before the first tick.
LEMMA UncommandedStart == Init => Uncommanded
BY StartIsNode DEF Init, Uncommanded

\* A pass of the node that runs obeys what waits, or brings the clock closer to its end.
LEMMA UncommandedWheel ==
    ASSUME Typed, Uncommanded, NEW lost \in BOOLEAN, Wheel(lost)
    PROVE  Uncommanded'
<1>1. esc' = EscTick(EscLoop(esc))
  BY DEF Wheel
<1> DEFINE n == IF Running(esc) THEN Least(truth.uncommanded + 1, CommandTimeout + 2) ELSE 0
<1>2. truth'.uncommanded = n /\ truth.uncommanded \in Nat
  <2>1. truth' = [truth EXCEPT !.uncommanded = n]
    BY DEF Wheel
  <2> HIDE DEF n
  <2> QED
    BY <2>1 DEF Typed
<1>3. CASE Running(esc)
  <2>1. /\ esc'.rx = <<>> /\ esc'.aligning = 0
        /\ esc.rx # <<>> => esc'.since = 1
        /\ esc.rx = <<>> /\ esc.since <= CommandTimeout => esc'.target = esc.target /\ esc'.since = esc.since + 1
        /\ esc.rx = <<>> /\ esc.since > CommandTimeout => esc'.target = 0
    BY <1>1, <1>3, PassOfRunning DEF Typed
  <2>2. n \in Nat /\ n <= truth.uncommanded + 1
    BY <1>2, <1>3, Constants DEF Least
  <2>3. esc.since \in Nat /\ CommandTimeout \in Nat
    BY Constants DEF Typed, Node
  <2> HIDE DEF n
  <2>4. CASE esc.rx # <<>>
    BY <1>2, <1>3, <2>1, <2>2, <2>4 DEF Uncommanded, Running
  <2>5. CASE esc.rx = <<>>
    BY <1>2, <1>3, <2>1, <2>2, <2>3, <2>5 DEF Uncommanded, Running
  <2> QED
    BY <2>4, <2>5
<1>4. CASE ~Running(esc)
  <2>1. esc'.target = 0
    BY <1>1, <1>4, PassOfAligning DEF Typed, Uncommanded
  <2>2. n = 0
    BY <1>4
  <2> QED
    BY <1>2, <2>1, <2>2 DEF Uncommanded
<1> QED
  BY <1>3, <1>4

\* Every step: a command that is delivered stops the count, and a restart lets go.
LEMMA UncommandedStep == Typed /\ Uncommanded /\ [Next]_vars => Uncommanded'
<1> SUFFICES ASSUME Typed, Uncommanded, [Next]_vars PROVE Uncommanded'
  OBVIOUS
<1>1. ASSUME UNCHANGED esc, truth'.uncommanded = truth.uncommanded PROVE Uncommanded'
  BY <1>1 DEF Uncommanded, Running
<1>2. ASSUME NEW kind, Reset(kind), UNCHANGED esc PROVE Uncommanded'
  <2>1. truth'.uncommanded = truth.uncommanded
    BY <1>2 DEF Reset, Typed
  <2> QED
    BY <1>1, <1>2, <2>1
<1>3. ASSUME NEW torque \in 0..1, esc' = Deliver(esc, torque), truth'.uncommanded = 0 PROVE Uncommanded'
  <2>1. esc'.aligning = esc.aligning /\ esc'.target = esc.target /\ esc'.since \in Nat
    BY <1>3, DeliverIsNode, Constants DEF Typed, Node
  <2> QED
    BY <1>3, <2>1 DEF Uncommanded, Running
<1>4. ASSUME NEW alive, esc' = [EscStart EXCEPT !.alive = alive] PROVE Uncommanded'
  BY <1>4, Constants DEF Uncommanded, Running, EscStart
<1>5. CASE WatchdogBites
  BY <1>2, <1>5 DEF WatchdogBites
<1>6. CASE StartScheduler
  <2>1. truth'.uncommanded = 0
    BY <1>6 DEF StartScheduler, Typed
  <2> QED
    BY <1>3, <1>6, <2>1 DEF StartScheduler
<1>7. CASE HealthSleeps \/ HealthReports \/ HealthPreempted \/ HealthResumes
  BY <1>1, <1>7 DEF HealthSleeps, HealthReports, HealthPreempted, HealthResumes
<1>8. ASSUME NEW torque \in 0..1, Control(torque) PROVE Uncommanded'
  <2>1. CASE Runs("control")
    <3>1. truth' = [truth EXCEPT !.uncommanded = 0, !.reset = "told"] /\ esc' = Deliver(esc, torque)
      BY <1>8, <2>1 DEF Control
    <3>2. truth'.uncommanded = 0
      BY <3>1 DEF Typed
    <3> QED
      BY <1>3, <3>1, <3>2
  <2>2. CASE ~Runs("control")
    BY <1>1, <1>8, <2>2 DEF Control
  <2> QED
    BY <2>1, <2>2
<1>9. ASSUME NEW tasks, Others(tasks) PROVE Uncommanded'
  BY <1>1, <1>9 DEF Others
<1>10. ASSUME NEW lost \in BOOLEAN, Wheel(lost) PROVE Uncommanded'
  BY <1>10, UncommandedWheel
<1>11. ASSUME NEW kind, OtherReset(kind) PROVE Uncommanded'
  <2>1. CASE kind = "POWER_ON"
    BY <1>11, <2>1, StartIsNode DEF OtherReset, Uncommanded
  <2>2. CASE kind # "POWER_ON"
    BY <1>2, <1>11, <2>2 DEF OtherReset
  <2> QED
    BY <2>1, <2>2
<1>12. ASSUME NEW tasks, Hang(tasks) PROVE Uncommanded'
  BY <1>1, <1>12 DEF Hang
<1>13. ASSUME NEW alive, EscRestarts(alive) PROVE Uncommanded'
  BY <1>4, <1>13 DEF EscRestarts
<1>14. CASE UNCHANGED vars
  BY <1>1, <1>14 DEF vars
<1> QED
  BY <1>5, <1>6, <1>7, <1>8, <1>9, <1>10, <1>11, <1>12, <1>13, <1>14 DEF Next

\* What every other invariant of the vigil rests on.
LEMMA VigilBase == Spec => [](Typed /\ Uncommanded)
<1>1. Typed /\ Uncommanded /\ [Next]_vars => (Typed /\ Uncommanded)'
  BY TypedStep, UncommandedStep DEF Uncommanded
<1> QED
  BY <1>1, VigilStart, UncommandedStart, PTL DEF Spec

\* esc/src/main.cpp:141: a wheel nobody has commanded for longer than the dead-man's time
\* is not driven, whatever hung, restarted or waits in a buffer.
THEOREM WheelLetGo == Spec => []WheelCoasts
<1>1. ASSUME Typed, Uncommanded PROVE WheelCoasts
  <2>1. VigilTypeOK
    BY <1>1 DEF Typed, Uncommanded, VigilTypeOK, Stages, Report, View
  <2>2. esc.since \in 0..(CommandTimeout + 1) /\ CommandTimeout \in Nat /\ truth.uncommanded \in Nat
    BY <1>1, Constants DEF Typed, Node
  <2> QED
    BY <1>1, <2>1, <2>2 DEF WheelCoasts, Uncommanded
<1> QED
  BY <1>1, VigilBase, PTL

------------------------------------------------------------------------------
(* The reason for a reset.                                                 *)

\* The flags are read and cleared before anything else, so a reset finds only its own.
CauseRead == csr = {} /\ CauseTold

\* Each reset's flags name it.
LEMMA FlagsTell ==
    ASSUME NEW kind \in DOMAIN FlagsOf
    PROVE  ResetCause(FlagsOf[kind]) = kind
<1>1. kind \in {"POWER_ON", "BROWNOUT", "SOFTWARE", "WATCHDOG", "RESET_PIN"}
  BY DEF FlagsOf
<1>2. /\ FlagsOf["POWER_ON"] = {"POR", "BOR", "PIN"} /\ FlagsOf["BROWNOUT"] = {"BOR", "PIN"}
      /\ FlagsOf["SOFTWARE"] = {"SFT", "PIN"} /\ FlagsOf["WATCHDOG"] = {"IWDG", "PIN"}
      /\ FlagsOf["RESET_PIN"] = {"PIN"}
  BY DEF FlagsOf
<1>3. ResetCause({"POR", "BOR", "PIN"}) = "POWER_ON"
  BY DEF ResetCause
<1>4. ResetCause({"BOR", "PIN"}) = "BROWNOUT"
  BY DEF ResetCause
<1>5. ResetCause({"SFT", "PIN"}) = "SOFTWARE"
  BY DEF ResetCause
<1>6. ResetCause({"IWDG", "PIN"}) = "WATCHDOG"
  BY DEF ResetCause
<1>7. ResetCause({"PIN"}) = "RESET_PIN"
  BY DEF ResetCause
<1> QED
  BY <1>1, <1>2, <1>3, <1>4, <1>5, <1>6, <1>7

\* Every step: a reset reads its own cause, and the control task tells it.
LEMMA CauseStep == Typed /\ CauseRead /\ [Next]_vars => CauseRead'
<1> SUFFICES ASSUME Typed, CauseRead, [Next]_vars PROVE CauseRead'
  OBVIOUS
<1>1. ASSUME UNCHANGED <<csr, cause>>, truth'.reset = truth.reset PROVE CauseRead'
  BY <1>1 DEF CauseRead, CauseTold
<1>2. ASSUME NEW kind \in DOMAIN FlagsOf, Reset(kind) PROVE CauseRead'
  <2>1. csr \cup FlagsOf[kind] = FlagsOf[kind]
    BY DEF CauseRead
  <2>2. csr' = {} /\ cause' = ResetCause(csr \cup FlagsOf[kind]) /\ truth' = [truth EXCEPT !.reset = kind]
    BY <1>2 DEF Reset, FlagsLeft
  <2>3. truth'.reset = kind
    BY <2>2 DEF Typed
  <2> QED
    BY <2>1, <2>2, <2>3, FlagsTell DEF CauseRead, CauseTold
<1>3. CASE WatchdogBites
  <2>1. "WATCHDOG" \in DOMAIN FlagsOf
    BY DEF FlagsOf
  <2> QED
    BY <1>2, <1>3, <2>1 DEF WatchdogBites
<1>4. CASE StartScheduler
  BY <1>1, <1>4 DEF StartScheduler, Typed
<1>5. CASE HealthSleeps \/ HealthReports \/ HealthPreempted \/ HealthResumes
  BY <1>1, <1>5 DEF HealthSleeps, HealthReports, HealthPreempted, HealthResumes
<1>6. ASSUME NEW torque, Control(torque) PROVE CauseRead'
  <2>1. CASE Runs("control")
    <3>1. truth' = [truth EXCEPT !.uncommanded = 0, !.reset = "told"] /\ cause' = "told" /\ csr' = csr
      BY <1>6, <2>1 DEF Control
    <3> QED
      BY <3>1 DEF Typed, CauseRead, CauseTold
  <2>2. CASE ~Runs("control")
    BY <1>1, <1>6, <2>2 DEF Control
  <2> QED
    BY <2>1, <2>2
<1>7. ASSUME NEW tasks, Others(tasks) \/ Hang(tasks) PROVE CauseRead'
  BY <1>1, <1>7 DEF Others, Hang
<1>8. ASSUME NEW lost, Wheel(lost) PROVE CauseRead'
  <2> DEFINE n == IF Running(esc) THEN Least(truth.uncommanded + 1, CommandTimeout + 2) ELSE 0
  <2>1. truth' = [truth EXCEPT !.uncommanded = n] /\ UNCHANGED <<csr, cause>>
    BY <1>8 DEF Wheel
  <2> HIDE DEF n
  <2> QED
    BY <1>1, <2>1 DEF Typed
<1>9. ASSUME NEW kind \in DOMAIN FlagsOf, OtherReset(kind) PROVE CauseRead'
  BY <1>2, <1>9 DEF OtherReset
<1>10. ASSUME NEW alive, EscRestarts(alive) PROVE CauseRead'
  BY <1>1, <1>10 DEF EscRestarts
<1>11. CASE UNCHANGED vars
  BY <1>1, <1>11 DEF vars
<1> QED
  BY <1>3, <1>4, <1>5, <1>6, <1>7, <1>8, <1>9, <1>10, <1>11 DEF Next

\* REQ-WDG-002: the cause a boot reports is what reset it, however many resets of
\* whichever kinds came before.
THEOREM CauseIsTold == Spec => []CauseTold
<1>1. Init => CauseRead
  <2>1. "POWER_ON" \in DOMAIN FlagsOf
    BY DEF FlagsOf
  <2> QED
    BY <2>1, FlagsTell DEF Init, CauseRead, CauseTold, FlagsLeft
<1>2. CauseRead => CauseTold
  BY DEF CauseRead
<1> QED
  BY <1>1, <1>2, CauseStep, VigilBase, PTL DEF Spec

------------------------------------------------------------------------------
(* The task that stopped.                                                  *)

\* A pet is evidence that every judged task was inside its deadline, one tick at most
\* before: what has passed since is on the watchdog's clock.
Overdue ==
    /\ stage = "boot" => \A t \in Task : age[t] = 0
    /\ \A t \in Judged : age[t] <= Deadline[t] + 1 + dog
    /\ age["health"] <= 1 + dog
    /\ health.late = TRUE /\ Runs("health") =>
         /\ health.since = ReportPeriod
         /\ \/ stage = "wheel" /\ age["health"] = 0
            \/ stage \in {"control", "health"} /\ age["health"] <= 1

\* A report that pets has seen every judged task inside its deadline.
LEMMA PetIsEvidence ==
    ASSUME Typed, NEW late \in BOOLEAN, Alive(late), NEW t \in Judged
    PROVE  age[t] <= Deadline[t] + 1
<1>1. Pace[t] \in Nat /\ Deadline[t] \in Nat /\ Pace[t] < Deadline[t] /\ t \in Task /\ age[t] \in Nat
  BY VigilAssumption DEF Task, Typed
<1>2. ~TooOld(t, late)
  BY <1>1 DEF Alive, IsJudged
<1> QED
  BY <1>1, <1>2 DEF TooOld

\* A check-in starts its own task's clock again and leaves the others.
LEMMA CheckInAges ==
    ASSUME Typed, NEW tasks, CheckIn(tasks), NEW t \in Task
    PROVE  age'[t] = 0 \/ age'[t] = age[t]
BY DEF CheckIn

\* Every step keeps what the watchdog's clock stands for.
LEMMA OverdueStep == Typed /\ Overdue /\ [Next]_vars => Overdue'
<1> SUFFICES ASSUME Typed, Overdue, [Next]_vars PROVE Overdue'
  OBVIOUS
<1>c. /\ Deadline \in [Task -> Nat] /\ Iwdg \in Nat /\ ReportPeriod \in Nat \ {0}
      /\ dog \in Nat /\ age \in [Task -> Nat] /\ health \in Report
      /\ Judged \subseteq Task /\ "health" \in Task /\ "health" \notin Judged
  BY Constants DEF Typed, Task, Judged
<1>1. ASSUME NEW kind, Reset(kind) PROVE Overdue'
  BY <1>1, <1>c DEF Reset, Overdue
<1>2. CASE WatchdogBites
  BY <1>1, <1>2 DEF WatchdogBites
<1>3. CASE StartScheduler
  BY <1>3, <1>c DEF StartScheduler, Overdue, Runs, Report
<1>4. CASE HealthSleeps
  <2>1. ~(health.late = TRUE /\ Runs("health"))
    BY <1>4, <1>c DEF HealthSleeps, HealthDue, Overdue
  <2> QED
    BY <1>4, <2>1 DEF HealthSleeps, Overdue, Runs
<1>5. CASE HealthReports
  <2>1. CheckIn({"health"}) /\ Judge(FALSE) /\ hung' = hung
    BY <1>5 DEF HealthReports
  <2>2. age'["health"] = 0 /\ \A t \in Judged : age'[t] = age[t]
    BY <1>c, <2>1 DEF CheckIn
  <2>3. health'.late = FALSE /\ stage' = "others"
    BY <2>1 DEF Judge
  <2>4. dog' = dog \/ (dog' = 0 /\ \A t \in Judged : age[t] <= Deadline[t] + 1)
    BY <2>1, PetIsEvidence DEF Judge
  <2> QED
    BY <1>c, <2>2, <2>3, <2>4 DEF Overdue
<1>6. CASE HealthPreempted
  <2>1. CheckIn({"health"}) /\ hung' = hung /\ dog' = dog /\ stage' = "wheel" /\ HealthDue
    BY <1>6 DEF HealthPreempted
  <2>2. age'["health"] = 0 /\ \A t \in Judged : age'[t] = age[t]
    BY <1>c, <2>1 DEF CheckIn
  <2>3. health'.since = ReportPeriod
    BY <1>6, <1>c, <2>1 DEF HealthPreempted, HealthDue, Report
  <2> QED
    BY <1>c, <2>1, <2>2, <2>3 DEF Overdue
<1>7. CASE HealthResumes
  <2>1. Judge(TRUE) /\ UNCHANGED <<age, hung>> /\ health.late = TRUE /\ Runs("health")
    BY <1>7, <1>c DEF HealthResumes, HealthDue, Report
  <2>2. health'.late = FALSE /\ stage' = "others"
    BY <2>1 DEF Judge
  <2>3. dog' = dog \/ (dog' = 0 /\ \A t \in Judged : age[t] <= Deadline[t] + 1)
    BY <2>1, PetIsEvidence DEF Judge
  <2>4. age["health"] <= 1
    BY <1>c, <2>1 DEF Overdue
  <2> QED
    BY <1>c, <2>1, <2>2, <2>3, <2>4 DEF Overdue
<1>8. ASSUME NEW torque, Control(torque) PROVE Overdue'
  <2>1. \A t \in Task : age'[t] = 0 \/ age'[t] = age[t]
    BY <1>8, CheckInAges DEF Control
  <2>2. age'["health"] = age["health"]
    BY <1>8, <1>c DEF Control, CheckIn
  <2>3. stage = "control" /\ stage' = "health" /\ UNCHANGED <<dog, health, hung>>
    BY <1>8 DEF Control
  <2> QED
    BY <1>c, <2>1, <2>2, <2>3 DEF Overdue, Runs
<1>9. ASSUME NEW tasks, Others(tasks) PROVE Overdue'
  <2>1. \A t \in Task : age'[t] = 0 \/ age'[t] = age[t]
    BY <1>9, CheckInAges DEF Others
  <2>2. stage = "others" /\ stage' = "wheel" /\ UNCHANGED <<dog, health, hung>>
    BY <1>9 DEF Others
  <2>3. ~(health.late = TRUE /\ Runs("health"))
    BY <2>2 DEF Overdue
  <2> QED
    BY <1>c, <2>1, <2>2, <2>3 DEF Overdue, Runs
<1>10. ASSUME NEW lost, Wheel(lost) PROVE Overdue'
  <2>1. CASE stage = "boot"
    <3>1. stage' = "boot" /\ UNCHANGED <<age, health, hung>> /\ dog' = 0
      BY <1>10, <2>1 DEF Wheel
    <3> QED
      BY <1>c, <2>1, <3>1 DEF Overdue, Runs
  <2>2. CASE stage # "boot"
    <3>1. /\ stage = "wheel" /\ stage' = "control" /\ hung' = hung /\ dog' = dog + 1
          /\ age' = [t \in Task |-> Least(age[t] + 1, Deadline[t] + Iwdg + 2)]
          /\ health' = [health EXCEPT !.since = Least(health.since + 1, ReportPeriod)]
      BY <1>10, <2>2 DEF Wheel
    <3>2. ASSUME NEW t \in Task PROVE age'[t] \in Nat /\ age'[t] <= age[t] + 1
      BY <1>c, <3>1 DEF Least
    <3>3. /\ health'.late = TRUE <=> health.late = TRUE
          /\ health.since = ReportPeriod => health'.since = ReportPeriod
      BY <1>c, <3>1 DEF Report, Least
    <3>4. \A t \in Judged : age'[t] <= Deadline[t] + 1 + dog'
      <4> SUFFICES ASSUME NEW t \in Judged PROVE age'[t] <= Deadline[t] + 1 + dog'
        OBVIOUS
      <4>1. t \in Task /\ age[t] <= Deadline[t] + 1 + dog
        BY <1>c DEF Overdue
      <4> QED
        BY <1>c, <3>1, <3>2, <4>1
    <3>5. age'["health"] <= 1 + dog'
      BY <1>c, <3>1, <3>2 DEF Overdue
    <3>6. health.late = TRUE /\ Runs("health") => health.since = ReportPeriod /\ age'["health"] <= 1
      BY <1>c, <3>1, <3>2 DEF Overdue
    <3> QED
      BY <3>1, <3>3, <3>4, <3>5, <3>6 DEF Overdue, Runs
  <2> QED
    BY <2>1, <2>2
<1>11. ASSUME NEW kind, OtherReset(kind) PROVE Overdue'
  BY <1>1, <1>11 DEF OtherReset
<1>12. ASSUME NEW tasks, Hang(tasks) PROVE Overdue'
  BY <1>12 DEF Hang, Overdue, Runs
<1>13. ASSUME NEW alive, EscRestarts(alive) PROVE Overdue'
  BY <1>13 DEF EscRestarts, Overdue, Runs
<1>14. CASE UNCHANGED vars
  BY <1>14 DEF vars, Overdue, Runs
<1> QED
  BY <1>2, <1>3, <1>4, <1>5, <1>6, <1>7, <1>8, <1>9, <1>10, <1>11, <1>12, <1>13, <1>14 DEF Next

\* health_task.cpp:117: whichever tasks hang, and at whatever point of a report, no task
\* is silent for longer than its deadline and one period of the watchdog.
THEOREM HangIsNoticed == Spec => []HungTaskBites
<1>1. Init => Overdue
  BY Constants DEF Init, Overdue, Task, Judged
<1>2. ASSUME Typed, Overdue PROVE HungTaskBites
  <2> SUFFICES ASSUME NEW t \in Task
               PROVE  age[t] <= (IF t = "health" THEN 0 ELSE Deadline[t]) + Iwdg + 1
    BY DEF HungTaskBites
  <2>1. age[t] \in Nat /\ Deadline[t] \in Nat /\ dog \in 0..Iwdg /\ Iwdg \in Nat
    BY <1>2, Constants DEF Typed
  <2>2. CASE t = "health"
    BY <1>2, <2>1, <2>2 DEF Overdue
  <2>3. CASE t # "health"
    <3>1. t \in Judged
      BY <2>3 DEF Task
    <3> QED
      BY <1>2, <2>1, <2>3, <3>1 DEF Overdue
  <2> QED
    BY <2>2, <2>3
<1> QED
  BY <1>1, <1>2, OverdueStep, VigilBase, PTL DEF Spec

------------------------------------------------------------------------------
(* The healthy vehicle.                                                    *)

\* The oldest a task is when it is asked to check in.
Slack(t) == IF Pace[t] = 0 THEN 1 ELSE Pace[t]

Paced == Judged \ {"control"}

\* How old the tasks that pace themselves are, by where the tick is: a report that was
\* preempted costs them a turn.
InPace ==
    \A t \in Paced :
        /\ age[t] <= Slack(t) + 1
        /\ health.late = FALSE /\ stage \in {"control", "health"} => age[t] <= Slack(t)
        /\ stage = "wheel" => age[t] <= Slack(t) /\ (health.late = FALSE => age[t] < Slack(t))
        /\ t \notin checked => age[t] >= health.since

\* The control task checks in before anybody is judged.
ControlFirst ==
    /\ stage # "control" => "control" \in checked
    /\ stage \in {"health", "others"} => age["control"] = 0

\* A report is spoilt at most every other time, so two of them at most pass before a pet.
Petted ==
    /\ health.late = TRUE => /\ health.since = ReportPeriod /\ stage \in {"wheel", "control", "health"}
                             /\ health.missed = FALSE
                             /\ dog <= ReportPeriod + (IF stage = "wheel" THEN 0 ELSE 1)
    /\ health.late = FALSE /\ health.missed = FALSE => dog <= health.since
    /\ health.missed = TRUE => dog <= ReportPeriod + health.since
    /\ stage \in {"others", "wheel"} /\ health.late = FALSE => health.since < ReportPeriod

Healthy ==
    /\ stage = "boot" => /\ dog = 0 /\ hung = {} /\ checked = {} /\ health.since = 0
                         /\ health.late = FALSE /\ health.missed = FALSE
                         /\ \A t \in Task : age[t] = 0
    /\ stage # "boot" /\ hung = {} => InPace /\ ControlFirst /\ Petted

\* The constants that say how the periods are ordered.
LEMMA PeriodsOrdered ==
    /\ ReportPeriod \in Nat /\ ReportPeriod > 1 /\ Iwdg \in Nat /\ 2 * ReportPeriod < Iwdg
    /\ \A t \in Judged : /\ Deadline[t] \in Nat /\ Pace[t] \in Nat
                          /\ Pace[t] < Deadline[t] /\ Pace[t] < ReportPeriod
                          /\ Slack(t) \in Nat /\ Slack(t) >= 1 /\ Slack(t) <= Deadline[t]
                          /\ Slack(t) < ReportPeriod /\ Pace[t] <= Slack(t)
<1>1. ASSUME NEW t \in Judged PROVE Deadline[t] \in Nat /\ Pace[t] \in Nat /\ Pace[t] < Deadline[t] /\ Pace[t] < ReportPeriod
  BY VigilAssumption, TimesAssumption DEF Task
<1>2. ReportPeriod \in Nat /\ ReportPeriod > 1 /\ Iwdg \in Nat /\ 2 * ReportPeriod < Iwdg
  BY Constants, TimesAssumption
<1> QED
  BY <1>1, <1>2 DEF Slack

\* A report that nothing spoilt pets the watchdog of a healthy vehicle.
LEMMA ReportPets ==
    ASSUME Typed, hung = {}, stage = "health", InPace, ControlFirst, Petted,
           health.late = FALSE, health.since = ReportPeriod, HealthReports
    PROVE  dog' = 0
<1>1. ASSUME NEW t \in Judged PROVE ~TooOld(t, FALSE)
  <2>1. CASE t = "control"
    BY <2>1, PeriodsOrdered DEF ControlFirst, TooOld, Judged
  <2>2. CASE t # "control"
    <3>1. t \in Paced /\ age[t] \in Nat
      BY <2>2 DEF Paced, Typed, Task
    <3>2. age[t] <= Slack(t) /\ (t \notin checked => age[t] >= ReportPeriod)
      BY <3>1 DEF InPace
    <3> QED
      BY <3>1, <3>2, PeriodsOrdered DEF TooOld
  <2> QED
    BY <2>1, <2>2
<1>2. ~IsJudged("health")
  BY VigilAssumption DEF IsJudged
<1>3. Alive(FALSE)
  BY <1>1, <1>2 DEF Alive, Task
<1> QED
  BY <1>3 DEF HealthReports, Judge

\* Every step of a healthy vehicle keeps its tasks in pace and its watchdog petted.
LEMMA HealthyStep == Typed /\ Healthy /\ [Next]_vars => Healthy'
<1> SUFFICES ASSUME Typed, Healthy, [Next]_vars PROVE Healthy'
  OBVIOUS
<1>c. /\ dog \in Nat /\ health \in Report /\ health.since \in 0..ReportPeriod
      /\ health.late \in BOOLEAN /\ health.missed \in BOOLEAN
      /\ age \in [Task -> Nat] /\ Judged \subseteq Task /\ Paced \subseteq Judged
      /\ "control" \in Judged /\ "control" \notin Paced /\ "health" \notin Judged /\ "health" \in Task
  BY Constants DEF Typed, Task, Judged, Paced, Report
<1>h. ReportPeriod \in Nat /\ ReportPeriod > 1 /\ Iwdg \in Nat /\ 2 * ReportPeriod < Iwdg
  BY PeriodsOrdered
<1>1. ASSUME NEW kind, Reset(kind) PROVE Healthy'
  BY <1>1, <1>c DEF Reset, Healthy
<1>2. CASE WatchdogBites
  BY <1>1, <1>2 DEF WatchdogBites
<1>3. CASE StartScheduler
  <2>1. /\ stage' = "control" /\ dog' = 0 /\ health'.since = 0 /\ health'.late = FALSE /\ health'.missed = FALSE
        /\ \A t \in Task : age'[t] = 0
    BY <1>3 DEF StartScheduler, Healthy
  <2>2. InPace'
    BY <1>c, <2>1, PeriodsOrdered DEF InPace
  <2>3. ControlFirst' /\ Petted'
    BY <1>h, <2>1 DEF ControlFirst, Petted
  <2> QED
    BY <2>1, <2>2, <2>3 DEF Healthy
<1>4. CASE HealthSleeps
  <2> SUFFICES ASSUME hung = {} PROVE Healthy'
    BY <1>4 DEF HealthSleeps, Healthy
  <2>1. /\ stage = "health" /\ stage' = "others" /\ UNCHANGED <<age, checked, hung, health, dog>>
        /\ health.since # ReportPeriod
    BY <1>4 DEF HealthSleeps, HealthDue, Runs
  <2>2. InPace /\ ControlFirst /\ Petted /\ health.late = FALSE
    BY <2>1, <1>c DEF Healthy, Petted
  <2>3. InPace' /\ ControlFirst' /\ Petted'
    BY <1>c, <1>h, <2>1, <2>2 DEF InPace, ControlFirst, Petted
  <2> QED
    BY <2>1, <2>3 DEF Healthy
<1>5. CASE HealthReports
  <2> SUFFICES ASSUME hung = {} PROVE Healthy'
    BY <1>5 DEF HealthReports, Judge, Healthy
  <2>1. /\ stage = "health" /\ stage' = "others" /\ hung' = hung /\ checked' = checked \cup {"health"}
        /\ health.since = ReportPeriod /\ health.late = FALSE
        /\ \A t \in Judged : age'[t] = age[t]
        /\ health'.since = 0 /\ health'.late = FALSE /\ health'.missed = FALSE
    BY <1>5, <1>c DEF HealthReports, HealthDue, Judge, CheckIn
  <2>2. InPace /\ ControlFirst /\ Petted
    BY <2>1 DEF Healthy
  <2>3. dog' = 0
    BY <1>5, <2>1, <2>2, ReportPets
  <2>4. InPace'
    BY <1>c, <2>1, <2>2 DEF InPace
  <2>5. ControlFirst' /\ Petted'
    BY <1>c, <1>h, <2>1, <2>2, <2>3 DEF ControlFirst, Petted
  <2> QED
    BY <2>1, <2>4, <2>5 DEF Healthy
<1>6. CASE HealthPreempted
  <2> SUFFICES ASSUME hung = {} PROVE Healthy'
    BY <1>6 DEF HealthPreempted, Healthy
  <2>1. /\ stage = "health" /\ stage' = "wheel" /\ hung' = hung /\ checked' = checked \cup {"health"}
        /\ health.since = ReportPeriod /\ health.late = FALSE /\ health.missed = FALSE
        /\ \A t \in Judged : age'[t] = age[t]
        /\ dog' = dog
    BY <1>6, <1>c DEF HealthPreempted, HealthDue, CheckIn
  <2>2. health'.since = ReportPeriod /\ health'.late = TRUE /\ health'.missed = FALSE
    BY <1>6, <1>c, <2>1 DEF HealthPreempted, Report
  <2>3. InPace /\ ControlFirst /\ Petted
    BY <2>1 DEF Healthy
  <2>4. InPace'
    BY <1>c, <2>1, <2>2, <2>3, PeriodsOrdered DEF InPace
  <2>5. ControlFirst' /\ Petted'
    BY <1>c, <1>h, <2>1, <2>2, <2>3 DEF ControlFirst, Petted
  <2> QED
    BY <2>1, <2>4, <2>5 DEF Healthy
<1>7. CASE HealthResumes
  <2> SUFFICES ASSUME hung = {} PROVE Healthy'
    BY <1>7 DEF HealthResumes, Judge, Healthy
  <2>1. /\ stage = "health" /\ stage' = "others" /\ UNCHANGED <<age, checked, hung>>
        /\ health.since = ReportPeriod /\ health.late = TRUE
        /\ health'.since = 1 /\ health'.late = FALSE /\ health'.missed = TRUE
        /\ dog' \in {0, dog}
    BY <1>7, <1>c DEF HealthResumes, HealthDue, Judge
  <2>2. InPace /\ ControlFirst /\ Petted
    BY <2>1 DEF Healthy
  <2>3. InPace'
    BY <1>c, <1>h, <2>1, <2>2 DEF InPace
  <2>4. ControlFirst' /\ Petted'
    BY <1>c, <1>h, <2>1, <2>2 DEF ControlFirst, Petted
  <2> QED
    BY <2>1, <2>3, <2>4 DEF Healthy
<1>8. ASSUME NEW torque, Control(torque) PROVE Healthy'
  <2> SUFFICES ASSUME hung = {} PROVE Healthy'
    BY <1>8 DEF Control, Healthy
  <2>1. /\ stage = "control" /\ stage' = "health" /\ UNCHANGED <<hung, health, dog>>
        /\ checked' = checked \cup {"control"} /\ age'["control"] = 0
        /\ \A t \in Paced : age'[t] = age[t]
    BY <1>8, <1>c DEF Control, CheckIn, Runs
  <2>2. InPace /\ ControlFirst /\ Petted
    BY <2>1 DEF Healthy
  <2>3. InPace'
    BY <1>c, <2>1, <2>2 DEF InPace
  <2>4. ControlFirst' /\ Petted'
    BY <1>c, <2>1, <2>2 DEF ControlFirst, Petted
  <2> QED
    BY <2>1, <2>3, <2>4 DEF Healthy
<1>9. ASSUME NEW tasks, Others(tasks) PROVE Healthy'
  <2> SUFFICES ASSUME hung = {} PROVE Healthy'
    BY <1>9 DEF Others, Healthy
  <2>1. /\ stage = "others" /\ stage' = "wheel" /\ UNCHANGED <<hung, health, dog>>
        /\ checked' = checked \cup tasks
        /\ \A t \in Task : age'[t] = IF t \in tasks THEN 0 ELSE age[t]
        /\ \A t \in Paced : age[t] >= Pace[t] => t \in tasks
    BY <1>9, <1>c DEF Others, CheckIn, Runs, Paced
  <2>2. InPace /\ ControlFirst /\ Petted /\ health.late = FALSE
    BY <2>1, <1>c DEF Healthy, Petted
  <2>3. InPace'
    <3> SUFFICES ASSUME NEW t \in Paced
                 PROVE  /\ age'[t] < Slack(t)
                        /\ t \notin checked' => age'[t] >= health'.since
      BY <1>c, <2>1, <2>2, PeriodsOrdered DEF InPace
    <3>1. age[t] \in Nat /\ t \in Judged /\ t \in Task
      BY <1>c
    <3> QED
      BY <1>c, <2>1, <2>2, <3>1, PeriodsOrdered DEF InPace
  <2>4. ControlFirst' /\ Petted'
    BY <1>c, <2>1, <2>2 DEF ControlFirst, Petted
  <2> QED
    BY <2>1, <2>3, <2>4 DEF Healthy
<1>10. ASSUME NEW lost, Wheel(lost) PROVE Healthy'
  <2>1. CASE stage = "boot"
    <3>1. stage' = "boot" /\ UNCHANGED <<age, health, hung, checked>> /\ dog' = 0
      BY <1>10, <2>1 DEF Wheel
    <3> QED
      BY <2>1, <3>1 DEF Healthy
  <2>2. CASE stage # "boot"
    <3>1. /\ stage = "wheel" /\ stage' = "control" /\ UNCHANGED <<hung, checked>> /\ dog' = dog + 1
          /\ age' = [t \in Task |-> Least(age[t] + 1, Deadline[t] + Iwdg + 2)]
          /\ health' = [health EXCEPT !.since = Least(health.since + 1, ReportPeriod)]
      BY <1>10, <2>2 DEF Wheel
    <3> SUFFICES ASSUME hung = {} PROVE Healthy'
      BY <3>1 DEF Healthy
    <3>2. InPace /\ ControlFirst /\ Petted
      BY <2>2 DEF Healthy
    <3>3. /\ health'.late = health.late /\ health'.missed = health.missed
          /\ health'.since = IF health.since < ReportPeriod THEN health.since + 1 ELSE ReportPeriod
      BY <1>c, <1>h, <3>1 DEF Report, Least
    <3>4. ASSUME NEW t \in Paced
          PROVE  /\ age'[t] \in Nat /\ age'[t] <= age[t] + 1
                 /\ age[t] >= health.since => age'[t] >= health'.since
      <4>1. Deadline[t] \in Nat /\ age[t] \in Nat /\ t \in Task
        BY <1>c, PeriodsOrdered
      <4>2. age'[t] = Least(age[t] + 1, Deadline[t] + Iwdg + 2)
        BY <3>1, <4>1
      <4> QED
        BY <1>c, <1>h, <3>3, <4>1, <4>2 DEF Least
    <3>5. InPace'
      <4> SUFFICES ASSUME NEW t \in Paced
                   PROVE  /\ age'[t] <= Slack(t) + 1
                          /\ health'.late = FALSE => age'[t] <= Slack(t)
                          /\ t \notin checked' => age'[t] >= health'.since
        BY <3>1 DEF InPace
      <4>1. age[t] \in Nat /\ Slack(t) \in Nat
        BY <1>c, PeriodsOrdered
      <4>2. age[t] <= Slack(t) /\ (health.late = FALSE => age[t] < Slack(t)) /\ (t \notin checked => age[t] >= health.since)
        BY <3>1, <3>2 DEF InPace
      <4> QED
        BY <3>1, <3>3, <3>4, <4>1, <4>2
    <3>6. ControlFirst' /\ Petted'
      BY <1>c, <1>h, <3>1, <3>2, <3>3 DEF ControlFirst, Petted
    <3> QED
      BY <3>1, <3>5, <3>6 DEF Healthy
  <2> QED
    BY <2>1, <2>2
<1>11. ASSUME NEW kind, OtherReset(kind) PROVE Healthy'
  BY <1>1, <1>11 DEF OtherReset
<1>12. ASSUME NEW tasks \in SUBSET Task, tasks # {}, Hang(tasks) PROVE Healthy'
  BY <1>12 DEF Hang, Healthy
<1>13. ASSUME NEW alive, EscRestarts(alive) PROVE Healthy'
  BY <1>13 DEF EscRestarts, Healthy, InPace, ControlFirst, Petted
<1>14. CASE UNCHANGED vars
  BY <1>14 DEF vars, Healthy, InPace, ControlFirst, Petted
<1> QED
  <2>1. Task # {} /\ \A t \in Task : {t} # {} /\ {t} \in SUBSET Task
    BY <1>c
  <2> QED
    BY <1>2, <1>3, <1>4, <1>5, <1>6, <1>7, <1>8, <1>9, <1>10, <1>11, <1>12, <1>13, <1>14, <2>1 DEF Next

\* health_task.cpp:101: the watchdog never resets a vehicle whose tasks all keep their
\* pace, not before the first report and not when reports are spoilt.
THEOREM HealthyIsLeftAlone == Spec => []HealthyNotBitten
<1>1. Init => Healthy
  BY DEF Init, Healthy
<1>2. ASSUME Typed, Healthy PROVE HealthyNotBitten
  BY <1>2, PeriodsOrdered DEF Typed, Report, Healthy, Petted, HealthyNotBitten
<1> QED
  BY <1>1, <1>2, HealthyStep, VigilBase, PTL DEF Spec

------------------------------------------------------------------------------
(* The silent wheel node.                                                  *)

\* A silence longer than either window is on the streak, or latched already.
Noticed ==
    /\ wheel.streak = WheelDebounce => wheel.latched = TRUE
    /\ stage = "boot" => wheel.quiet <= clock
    /\ stage # "boot" /\ Runs("control") /\ wheel.latched = FALSE =>
         wheel.quiet <= WheelAcquire + wheel.streak + (IF stage = "control" THEN 1 ELSE 0)

\* Either window is within the long one.
LEMMA WindowBounds ==
    ASSUME NEW w \in View
    PROVE  /\ Window(w) \in Nat /\ Window(w) <= WheelAcquire
           /\ w.acquired = TRUE => Window(w) = WheelTimeout
           /\ w.acquired = FALSE => Window(w) = WheelAcquire
<1>1. w.acquired \in BOOLEAN
  BY DEF View
<1> QED
  BY <1>1, Constants, TimesAssumption DEF Window

\* Every step: a silence that grows by a tick is judged before the next.
LEMMA NoticedStep == Typed /\ Noticed /\ [Next]_vars => Noticed'
<1> SUFFICES ASSUME Typed, Noticed, [Next]_vars PROVE Noticed'
  OBVIOUS
<1>c. /\ WheelAcquire \in Nat /\ WheelDebounce \in Nat \ {0} /\ BringUp \in Nat /\ BringUp < WheelAcquire
      /\ wheel \in View /\ wheel.quiet \in Nat /\ wheel.streak \in 0..WheelDebounce
      /\ wheel.latched \in BOOLEAN /\ status \in BOOLEAN /\ clock \in 0..BringUp
  BY Constants, TimesAssumption DEF Typed, View
<1>1. ASSUME UNCHANGED wheel, stage # "boot", stage' # "boot", stage # "control", stage' # "control",
             Runs("control")' => Runs("control")
      PROVE  Noticed'
  BY <1>1 DEF Noticed
<1>2. ASSUME NEW kind, Reset(kind) PROVE Noticed'
  <2>1. wheel' = NoWheel /\ stage' = "boot" /\ clock' = 0
    BY <1>2 DEF Reset
  <2> QED
    BY <1>c, <2>1 DEF Noticed, NoWheel
<1>3. CASE WatchdogBites
  BY <1>2, <1>3 DEF WatchdogBites
<1>4. CASE StartScheduler
  <2>1. wheel' = wheel /\ stage = "boot" /\ stage' = "control"
    BY <1>4 DEF StartScheduler
  <2> QED
    BY <1>c, <2>1 DEF Noticed
<1>5. CASE HealthSleeps \/ HealthReports \/ HealthPreempted \/ HealthResumes
  BY <1>1, <1>5 DEF HealthSleeps, HealthReports, HealthPreempted, HealthResumes, Judge, Runs
<1>6. ASSUME NEW torque, Control(torque) PROVE Noticed'
  <2>1. stage = "control" /\ stage' = "health" /\ hung' = hung
    BY <1>6 DEF Control
  <2>2. CASE Runs("control")
    <3>1. wheel' = EvaluateWheel(wheel, status)
      BY <1>6, <2>2 DEF Control
    <3>2. /\ wheel' \in View
          /\ status = TRUE => wheel'.quiet = 0 /\ wheel'.streak = 0
          /\ status = FALSE => wheel'.quiet = wheel.quiet
          /\ status = FALSE /\ wheel.quiet <= Window(wheel) => wheel'.streak = 0
          /\ status = FALSE /\ wheel.quiet > Window(wheel) => wheel'.streak = Least(wheel.streak + 1, WheelDebounce)
          /\ wheel'.latched = TRUE <=> wheel.latched = TRUE \/ wheel'.streak = WheelDebounce
      BY <1>c, <3>1, WheelJudged
    <3>3. Window(wheel) \in Nat /\ Window(wheel) <= WheelAcquire
      BY <1>c, WindowBounds
    <3>4. wheel'.streak \in 0..WheelDebounce /\ wheel'.quiet \in Nat
      BY <3>2 DEF View
    <3>5. wheel.latched = FALSE /\ wheel'.streak # WheelDebounce => wheel'.quiet <= WheelAcquire + wheel'.streak
      BY <1>c, <2>1, <2>2, <3>2, <3>3, <3>4 DEF Noticed, Least
    <3>6. wheel'.streak = WheelDebounce => wheel'.latched = TRUE
      BY <3>2
    <3>7. wheel'.latched = FALSE => wheel.latched = FALSE /\ wheel'.streak # WheelDebounce
      BY <1>c, <3>2
    <3>8. wheel'.latched = FALSE => wheel'.quiet <= WheelAcquire + wheel'.streak + 0
      BY <1>c, <3>4, <3>5, <3>7
    <3> QED
      BY <2>1, <3>6, <3>8 DEF Noticed
  <2>3. CASE ~Runs("control")
    BY <1>6, <2>1, <2>3 DEF Control, Noticed, Runs
  <2> QED
    BY <2>2, <2>3
<1>7. ASSUME NEW tasks, Others(tasks) PROVE Noticed'
  BY <1>1, <1>7 DEF Others, Runs
<1>8. ASSUME NEW lost, Wheel(lost) PROVE Noticed'
  <2>1. /\ wheel' = [wheel EXCEPT !.quiet = Least(wheel.quiet + 1, WheelAcquire + WheelDebounce + 1)]
        /\ clock' = Least(clock + 1, BringUp) /\ hung' = hung
        /\ stage \in {"wheel", "boot"} /\ (stage = "boot" => clock < BringUp)
        /\ stage' = IF stage = "boot" THEN "boot" ELSE "control"
    BY <1>8 DEF Wheel
  <2>2. /\ wheel'.streak = wheel.streak /\ (wheel'.latched = TRUE <=> wheel.latched = TRUE)
        /\ (wheel'.latched = FALSE <=> wheel.latched = FALSE)
    BY <1>c, <2>1 DEF View
  <2>3. wheel'.quiet \in Nat /\ wheel'.quiet <= wheel.quiet + 1
    BY <1>c, <2>1 DEF View, Least
  <2>4. CASE stage = "boot"
    <3>1. stage' = "boot" /\ clock' = clock + 1
      BY <1>c, <2>1, <2>4 DEF Least
    <3> QED
      BY <1>c, <2>2, <2>3, <2>4, <3>1 DEF Noticed
  <2>5. CASE stage = "wheel"
    <3>1. stage' = "control" /\ stage # "boot" /\ stage # "control"
      BY <2>1, <2>5
    <3> QED
      BY <1>c, <2>1, <2>2, <2>3, <3>1 DEF Noticed, Runs
  <2> QED
    BY <2>1, <2>4, <2>5
<1>9. ASSUME NEW kind, OtherReset(kind) PROVE Noticed'
  BY <1>2, <1>9 DEF OtherReset
<1>10. ASSUME NEW tasks, Hang(tasks) PROVE Noticed'
  BY <1>10 DEF Hang, Noticed, Runs
<1>11. ASSUME NEW alive, EscRestarts(alive) PROVE Noticed'
  BY <1>11 DEF EscRestarts, Noticed, Runs
<1>12. CASE UNCHANGED vars
  BY <1>12 DEF vars, Noticed, Runs
<1> QED
  BY <1>3, <1>4, <1>5, <1>6, <1>7, <1>8, <1>9, <1>10, <1>11, <1>12 DEF Next

\* The longest a node that reports leaves between two reports.
Gap == StatusPeriod + 1

\* What a link that has not spoken yet is allowed beside it.
Grace == IF wheel.acquired = TRUE THEN 0 ELSE AlignTicks

\* A node that came up with the vehicle and was never restarted is heard: the silence is
\* the alignment it began with, the reports that were lost and the time since the last.
Heard ==
    spent.restarts = 0 =>
        /\ wheel.latched = FALSE /\ esc.alive = TRUE /\ spent.lost <= MaxLost
        /\ ~Running(esc) => /\ wheel.acquired = FALSE /\ status = FALSE
                            /\ wheel.quiet <= AlignTicks - esc.aligning
        /\ Running(esc) /\ status = FALSE /\ Runs("control")
             => wheel.quiet <= Grace + esc.quiet + spent.lost * Gap

\* A silence within what Heard allows is inside the window it is judged by.
LEMMA HeardInWindow ==
    ASSUME Typed, Heard, spent.restarts = 0, status = FALSE, Runs("control")
    PROVE  wheel.quiet <= Window(wheel)
<1>1. /\ Gap \in Nat /\ MaxLost \in Nat /\ spent.lost \in 0..MaxLost /\ AlignTicks \in Nat
      /\ esc.quiet \in 0..Gap /\ esc.aligning \in Nat /\ wheel \in View /\ wheel.quiet \in Nat
      /\ wheel.acquired \in BOOLEAN /\ WheelTimeout \in Nat /\ WheelAcquire \in Nat
  BY Constants DEF Typed, Heard, Gap, Node, View
<1>2. spent.lost * Gap <= MaxLost * Gap /\ spent.lost * Gap \in Nat /\ MaxLost * Gap \in Nat
  BY <1>1
<1>3. (MaxLost + 1) * Gap = MaxLost * Gap + Gap
  BY <1>1
<1>4. MaxLost * Gap + Gap <= WheelTimeout /\ AlignTicks + MaxLost * Gap + Gap <= WheelAcquire
  <2>1. (MaxLost + 1) * Gap <= WheelTimeout /\ AlignTicks + (MaxLost + 1) * Gap <= WheelAcquire
    BY TimesAssumption DEF Gap
  <2> QED
    BY <1>1, <1>2, <1>3, <2>1
<1> DEFINE missed == spent.lost * Gap
           most == MaxLost * Gap
<1>5. missed \in Nat /\ most \in Nat /\ missed <= most
  BY <1>2
<1>6. most + Gap <= WheelTimeout /\ AlignTicks + most + Gap <= WheelAcquire
  BY <1>4
<1>7. CASE ~Running(esc)
  <2>1. wheel.acquired = FALSE /\ wheel.quiet <= AlignTicks - esc.aligning
    BY <1>7 DEF Heard
  <2>2. Window(wheel) = WheelAcquire
    BY <1>1, <2>1, WindowBounds
  <2> HIDE DEF missed, most
  <2> QED
    BY <1>1, <1>5, <1>6, <2>1, <2>2
<1>8. CASE Running(esc)
  <2>1. wheel.quiet <= Grace + esc.quiet + missed
    BY <1>8 DEF Heard
  <2> HIDE DEF missed, most
  <2>2. CASE wheel.acquired = TRUE
    <3>1. Grace = 0 /\ Window(wheel) = WheelTimeout
      BY <1>1, <2>2, WindowBounds DEF Grace
    <3> QED
      BY <1>1, <1>5, <1>6, <2>1, <3>1
  <2>3. CASE wheel.acquired = FALSE
    <3>1. Grace = AlignTicks /\ Window(wheel) = WheelAcquire
      BY <1>1, <2>3, WindowBounds DEF Grace
    <3> QED
      BY <1>1, <1>5, <1>6, <2>1, <3>1
  <2> QED
    BY <1>1, <2>2, <2>3
<1> QED
  BY <1>7, <1>8

\* A pass of the node: what it does not say, or says in vain, is accounted for.
LEMMA HeardWheel ==
    ASSUME Typed, Uncommanded, Heard, NEW lost \in BOOLEAN, Wheel(lost)
    PROVE  Heard'
<1> SUFFICES ASSUME spent.restarts = 0 PROVE Heard'
  BY DEF Wheel, Heard, Typed
<1> DEFINE speaks == Running(esc) /\ Reports(esc)
<1>c. /\ Gap \in Nat /\ StatusPeriod \in Nat /\ MaxLost \in Nat /\ spent.lost \in Nat /\ AlignTicks \in Nat
      /\ esc \in Node /\ esc.quiet \in 0..Gap /\ esc.aligning \in 0..AlignTicks
      /\ wheel \in View /\ wheel.quiet \in Nat
      /\ wheel.acquired \in BOOLEAN /\ wheel.latched \in BOOLEAN /\ status \in BOOLEAN
  BY Constants DEF Typed, Gap, Node, View
<1>1. /\ esc' = EscTick(EscLoop(esc)) /\ hung' = hung
      /\ lost => speaks /\ spent.lost < MaxLost
      /\ spent' = [spent EXCEPT !.lost = @ + (IF lost THEN 1 ELSE 0)]
      /\ status' = (status \/ (speaks /\ ~lost))
      /\ wheel' = [wheel EXCEPT !.quiet = Least(wheel.quiet + 1, WheelAcquire + WheelDebounce + 1)]
  BY DEF Wheel
<1>2. /\ wheel'.latched = wheel.latched /\ wheel'.acquired = wheel.acquired
  BY <1>c, <1>1 DEF View
<1>3. wheel'.quiet \in Nat /\ wheel'.quiet <= wheel.quiet + 1
  BY <1>c, <1>1, Constants DEF View, Least
<1>4. /\ spent'.restarts = spent.restarts /\ spent'.lost \in Nat /\ spent'.lost <= MaxLost
      /\ lost = TRUE => spent'.lost = spent.lost + 1
      /\ lost = FALSE => spent'.lost = spent.lost
  BY <1>c, <1>1 DEF Typed, Heard
<1>5. /\ wheel'.latched = FALSE /\ esc.alive = TRUE
  BY <1>2 DEF Heard
<1>6. Grace' = Grace
  BY <1>2 DEF Grace
<1>7. CASE ~Running(esc)
  <2>1. /\ esc'.alive = TRUE /\ esc'.quiet = Gap /\ esc'.aligning = esc.aligning - 1
    BY <1>1, <1>5, <1>7, PassOfAligning DEF Typed, Uncommanded, Gap
  <2>2. /\ wheel.acquired = FALSE /\ status = FALSE /\ wheel.quiet <= AlignTicks - esc.aligning
    BY <1>7 DEF Heard
  <2>3. status' = FALSE /\ lost = FALSE
    BY <1>1, <1>7, <2>2
  <2>4. wheel'.acquired = FALSE /\ wheel'.quiet <= AlignTicks - esc'.aligning
    BY <1>c, <1>2, <1>3, <2>1, <2>2
  <2>5. Running(esc') => wheel'.quiet <= Grace' + esc'.quiet + spent'.lost * Gap
    <3>1. Grace' = AlignTicks
      BY <2>4 DEF Grace
    <3>2. spent'.lost * Gap \in Nat
      BY <1>c, <1>4
    <3> QED
      BY <1>c, <1>3, <2>1, <2>4, <3>1, <3>2 DEF Running
  <2> QED
    BY <1>4, <1>5, <2>1, <2>3, <2>4, <2>5 DEF Heard
<1>8. CASE Running(esc)
  <2>1. /\ esc'.alive = TRUE /\ esc'.aligning = 0
        /\ Reports(esc) => esc'.quiet = 1
        /\ ~Reports(esc) => esc'.quiet = esc.quiet + 1
    BY <1>1, <1>5, <1>8, PassOfRunning DEF Typed
  <2>2. ASSUME status' = FALSE, Runs("control")'
        PROVE  wheel'.quiet <= Grace' + esc'.quiet + spent'.lost * Gap
    <3>1. status = FALSE /\ Runs("control") /\ (Reports(esc) => lost = TRUE)
      BY <1>1, <1>8, <1>c, <2>2 DEF Runs
    <3>2. wheel.quiet <= Grace + esc.quiet + spent.lost * Gap
      BY <1>8, <3>1 DEF Heard
    <3>3. spent.lost * Gap \in Nat /\ (spent.lost + 1) * Gap = spent.lost * Gap + Gap /\ Grace \in Nat
      BY <1>c DEF Grace
    <3>4. CASE Reports(esc)
      BY <1>c, <1>3, <1>4, <1>6, <2>1, <3>1, <3>2, <3>3, <3>4
    <3>5. CASE ~Reports(esc)
      <4>1. lost = FALSE
        BY <1>1, <3>5
      <4> QED
        BY <1>c, <1>3, <1>4, <1>6, <2>1, <3>2, <3>3, <3>5, <4>1
    <3> QED
      BY <3>4, <3>5
  <2> QED
    BY <1>4, <1>5, <2>1, <2>2 DEF Heard, Running
<1> QED
  BY <1>7, <1>8

\* Every step: the vehicle's resets start the silence over, a judgement finds it inside
\* its window, and only the node's own restart ends the promise.
LEMMA HeardStep == Typed /\ Uncommanded /\ Heard /\ [Next]_vars => Heard'
<1> SUFFICES ASSUME Typed, Uncommanded, Heard, [Next]_vars PROVE Heard'
  OBVIOUS
<1>c. /\ WheelDebounce \in Nat \ {0} /\ AlignTicks \in Nat /\ Gap \in Nat /\ spent \in [hangs : Nat, resets : Nat, restarts : Nat, lost : Nat]
      /\ esc \in Node /\ esc.quiet \in Nat /\ esc.aligning \in 0..AlignTicks /\ Len(esc.rx) <= RxDepth
      /\ wheel \in View /\ wheel.quiet \in Nat /\ wheel.acquired \in BOOLEAN
      /\ wheel.latched \in BOOLEAN /\ status \in BOOLEAN
  <2>1. WheelDebounce \in Nat \ {0} /\ AlignTicks \in Nat /\ Gap \in Nat
    BY Constants DEF Gap
  <2>2. spent \in [hangs : Nat, resets : Nat, restarts : Nat, lost : Nat] /\ status \in BOOLEAN /\ Len(esc.rx) <= RxDepth
    BY DEF Typed
  <2>3. esc \in Node /\ esc.quiet \in Nat /\ esc.aligning \in 0..AlignTicks
    BY Constants DEF Typed, Node
  <2>4. wheel \in View /\ wheel.quiet \in Nat /\ wheel.acquired \in BOOLEAN /\ wheel.latched \in BOOLEAN
    BY DEF Typed, View
  <2> QED
    BY <2>1, <2>2, <2>3, <2>4
<1>1. ASSUME UNCHANGED <<wheel, status>>, spent'.restarts = spent.restarts, spent'.lost = spent.lost,
             esc'.alive = esc.alive, esc'.aligning = esc.aligning, esc'.quiet = esc.quiet,
             Runs("control")' => Runs("control")
      PROVE  Heard'
  BY <1>1 DEF Heard, Grace, Running
<1>2. ASSUME NEW kind, Reset(kind), spent'.restarts = spent.restarts, spent'.lost = spent.lost,
             esc' \in Node, spent.restarts = 0 => esc'.alive = TRUE
      PROVE  Heard'
  <2>1. /\ wheel'.quiet = 0 /\ wheel'.acquired = FALSE /\ wheel'.latched = FALSE
        /\ status' = FALSE
    BY <1>2 DEF Reset, NoWheel
  <2>2. Grace' = AlignTicks
    BY <2>1 DEF Grace
  <2>3. esc'.quiet \in Nat /\ esc'.aligning \in 0..AlignTicks /\ spent.lost * Gap \in Nat
    BY <1>c, <1>2, Constants DEF Node
  <2>4. 0 <= AlignTicks - esc'.aligning
    BY <1>c, <2>3
  <2>5. 0 <= AlignTicks + esc'.quiet + spent.lost * Gap
    <3> DEFINE missed == spent.lost * Gap
    <3>1. missed \in Nat
      BY <2>3
    <3> HIDE DEF missed
    <3>2. 0 <= AlignTicks + esc'.quiet + missed
      BY <1>c, <2>3, <3>1
    <3> QED
      BY <3>2 DEF missed
  <2> QED
    BY <1>2, <2>1, <2>2, <2>4, <2>5 DEF Heard
<1>3. CASE WatchdogBites
  <2>1. "WATCHDOG" \in DOMAIN FlagsOf
    BY DEF FlagsOf
  <2> QED
    BY <1>c, <1>2, <1>3 DEF WatchdogBites, Heard
<1>4. CASE StartScheduler
  <2>1. /\ esc' = Deliver(esc, 0)
        /\ UNCHANGED <<wheel, status, spent, hung>>
    BY <1>4 DEF StartScheduler
  <2>2. /\ esc'.alive = esc.alive /\ esc'.aligning = esc.aligning /\ esc'.quiet = esc.quiet
    BY <1>c, <2>1, DeliverIsNode
  <2> QED
    BY <1>1, <2>1, <2>2 DEF Runs
<1>5. CASE HealthSleeps \/ HealthReports \/ HealthPreempted \/ HealthResumes
  BY <1>1, <1>5 DEF HealthSleeps, HealthReports, HealthPreempted, HealthResumes, Judge, Runs
<1>6. ASSUME NEW torque \in 0..1, Control(torque) PROVE Heard'
  <2>1. spent' = spent /\ hung' = hung
    BY <1>6 DEF Control
  <2>2. CASE Runs("control")
    <3>1. wheel' = EvaluateWheel(wheel, status) /\ status' = FALSE /\ esc' = Deliver(esc, torque)
      BY <1>6, <2>2 DEF Control
    <3>2. /\ wheel' \in View
          /\ status = TRUE => wheel'.quiet = 0 /\ wheel'.acquired = TRUE /\ wheel'.streak = 0
          /\ status = FALSE => wheel'.quiet = wheel.quiet /\ (wheel'.acquired = TRUE <=> wheel.acquired = TRUE)
          /\ status = FALSE /\ wheel.quiet <= Window(wheel) => wheel'.streak = 0
          /\ wheel'.latched = TRUE <=> wheel.latched = TRUE \/ wheel'.streak = WheelDebounce
      BY <1>c, <3>1, WheelJudged
    <3>3. /\ esc'.alive = esc.alive /\ esc'.aligning = esc.aligning /\ esc'.quiet = esc.quiet
      BY <1>c, <3>1, DeliverIsNode
    <3> SUFFICES ASSUME spent.restarts = 0 PROVE Heard'
      BY <2>1 DEF Heard
    <3>4. /\ wheel.latched = FALSE /\ esc.alive = TRUE /\ spent.lost <= MaxLost
      BY DEF Heard
    <3>5. status = FALSE => wheel.quiet <= Window(wheel)
      BY <2>2, HeardInWindow
    <3>6. wheel'.streak = 0
      BY <1>c, <3>2, <3>5
    <3>7. wheel'.latched = FALSE
      BY <1>c, <3>2, <3>4, <3>6 DEF View
    <3>8. CASE status = TRUE
      <4>1. Running(esc)
        BY <3>8 DEF Heard
      <4>2. Running(esc)' /\ wheel'.quiet = 0 /\ Grace' = 0
        BY <3>2, <3>3, <3>8, <4>1 DEF Running, Grace
      <4> DEFINE missed == spent.lost * Gap
      <4>3. missed \in Nat
        BY <1>c
      <4>4. 0 <= 0 + esc.quiet + missed
        <5> HIDE DEF missed
        <5> QED
          BY <1>c, <4>3
      <4> QED
        BY <2>1, <3>3, <3>4, <3>7, <4>2, <4>4 DEF Heard
    <3>9. CASE status = FALSE
      <4>1. Grace' = Grace /\ wheel'.quiet = wheel.quiet /\ (wheel.acquired = FALSE => wheel'.acquired = FALSE)
        BY <1>c, <3>2, <3>9 DEF Grace, View
      <4> QED
        BY <2>1, <2>2, <3>1, <3>3, <3>4, <3>7, <3>9, <4>1 DEF Heard, Running
    <3> QED
      BY <1>c, <3>8, <3>9
  <2>3. CASE ~Runs("control")
    BY <1>1, <1>6, <2>1, <2>3 DEF Control, Runs
  <2> QED
    BY <2>2, <2>3
<1>7. ASSUME NEW tasks, Others(tasks) PROVE Heard'
  BY <1>1, <1>7 DEF Others, Runs
<1>8. ASSUME NEW lost \in BOOLEAN, Wheel(lost) PROVE Heard'
  BY <1>8, HeardWheel
<1>9. ASSUME NEW kind \in DOMAIN FlagsOf \ {"WATCHDOG"}, OtherReset(kind) PROVE Heard'
  <2>1. Reset(kind) /\ esc' = (IF kind = "POWER_ON" THEN EscStart ELSE esc)
    BY <1>9 DEF OtherReset
  <2>2. spent'.restarts = spent.restarts /\ spent'.lost = spent.lost
    BY <1>c, <1>9 DEF OtherReset
  <2>3. EscStart.alive = TRUE
    BY DEF EscStart
  <2>4. esc' \in Node /\ (spent.restarts = 0 => esc'.alive = TRUE)
    BY <1>c, <2>1, <2>3, StartIsNode DEF Heard
  <2> QED
    BY <1>2, <2>1, <2>2, <2>4
<1>10. ASSUME NEW tasks, Hang(tasks) PROVE Heard'
  <2>1. spent'.restarts = spent.restarts /\ spent'.lost = spent.lost
    BY <1>c, <1>10 DEF Hang
  <2> QED
    BY <1>1, <1>10, <2>1 DEF Hang, Runs
<1>11. ASSUME NEW alive, EscRestarts(alive) PROVE Heard'
  <2>1. spent'.restarts = spent.restarts + 1
    BY <1>c, <1>11 DEF EscRestarts
  <2> QED
    BY <1>c, <2>1 DEF Heard
<1>12. CASE UNCHANGED vars
  BY <1>1, <1>12 DEF vars, Runs
<1> QED
  BY <1>3, <1>4, <1>5, <1>6, <1>7, <1>8, <1>9, <1>10, <1>11, <1>12 DEF Next

\* sensor_monitor.cpp:31, :138: a node that came up with the vehicle and stays up is never
\* taken for a dead link; one that is gone is noticed, before its first frame or after it.
THEOREM DropoutIsSound == Spec => []WheelDropoutSound
<1>1. Init => Noticed /\ Heard
  <2> SUFFICES ASSUME Init PROVE Noticed /\ Heard
    OBVIOUS
  <2>1. /\ stage = "boot" /\ clock = 0 /\ wheel.quiet = 0 /\ wheel.acquired = FALSE /\ wheel.streak = 0
        /\ wheel.latched = FALSE /\ status = FALSE
    BY DEF Init, NoWheel
  <2>2. /\ esc.alive = TRUE /\ esc.aligning = AlignTicks /\ spent.lost = 0
    BY DEF Init, EscStart
  <2>3. ~Running(esc) /\ MaxLost \in Nat /\ AlignTicks \in Nat /\ WheelDebounce # 0
    BY <2>2, Constants DEF Running
  <2> QED
    BY <2>1, <2>2, <2>3 DEF Noticed, Heard
<1>2. ASSUME Typed, Noticed, Heard PROVE WheelDropoutSound
  <2>1. /\ WheelAcquire \in Nat /\ WheelDebounce \in Nat \ {0} /\ wheel.quiet \in Nat
        /\ wheel.streak \in 0..WheelDebounce /\ wheel.latched \in BOOLEAN
    BY <1>2, Constants DEF Typed, View
  <2>2. spent.restarts = 0 => ~wheel.latched
    BY <1>2 DEF Heard
  <2>3. ASSUME stage # "boot", Runs("control"), wheel.quiet > WheelAcquire + WheelDebounce, wheel.latched = FALSE
        PROVE  FALSE
    <3>1. wheel.streak <= WheelDebounce - 1
      BY <1>2, <2>1, <2>3 DEF Noticed
    <3>2. wheel.quiet <= WheelAcquire + wheel.streak + 1
      BY <1>2, <2>1, <2>3 DEF Noticed
    <3> QED
      BY <2>1, <2>3, <3>1, <3>2
  <2> QED
    BY <2>1, <2>2, <2>3 DEF WheelDropoutSound
<1> QED
  BY <1>1, <1>2, NoticedStep, HeardStep, VigilBase, PTL DEF Spec
==============================================================================
