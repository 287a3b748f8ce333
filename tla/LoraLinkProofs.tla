--------------------------- MODULE LoraLinkProofs ---------------------------
(***************************************************************************)
(* Theorems about LoraLink for any number of frames, losses, transmissions *)
(* never reported done and resets.                                         *)
(***************************************************************************)
EXTENDS LoraLink, TLAPS

\* The number of the last frame an end has begun to transmit.
Last(e) == IF e = "vehicle" THEN sent["vehicle"] ELSE sent["ground"] - usb

\* What a chip holds.
Chip == [mode : {"rx", "tx", "standby"}, frame : Nat, whole : BOOLEAN, unread : Nat, done : BOOLEAN]

\* What the variables hold.
Shape ==
    /\ radio \in [End -> Chip]
    /\ txBusy \in BOOLEAN
    /\ tele \in {"idle", "sending"}
    /\ uplink \in {"wait", "receive"}
    /\ station \in {"poll", "uplink", "sending", "service"}
    /\ sent \in [End -> Nat] /\ heard \in [End -> Nat]
    /\ usb \in 0..sent["ground"]
    /\ sent["ground"] <= MaxCommands

\* Each end leaves receive only for a transmit its own loop waits for.
Turns ==
    /\ (txBusy = TRUE) <=> radio["vehicle"].mode # "rx"
    /\ radio["vehicle"].mode # "rx" => tele = "sending"
    /\ radio["ground"].mode # "rx" => station = "sending"
    /\ \A e \in End : radio[e].mode # "rx" => radio[e].unread = 0
    /\ \A e \in End : radio[e].whole = TRUE => radio[e].mode = "tx" /\ radio[Other(e)].mode = "rx"
    /\ \A e \in End : radio[e].done = TRUE => radio[e].mode = "standby"

\* What is in the air is newer than what the other end holds, and that is newer than what
\* it has taken.
Newer ==
    \A e \in End :
        /\ radio[e].unread <= Last(Other(e)) /\ heard[e] <= Last(Other(e))
        /\ radio[e].unread # 0 => radio[e].unread > heard[e]
        /\ radio[e].mode = "tx" => /\ radio[e].frame <= Last(e)
                                   /\ radio[e].frame > heard[Other(e)]
                                   /\ radio[e].frame > radio[Other(e)].unread

\* What another end's transmit leaves of a chip.
SameBut(new, old) ==
    new.mode = old.mode /\ new.frame = old.frame /\ new.unread = old.unread /\ new.done = old.done

LoraInv == Shape /\ Turns /\ Newer

\* Two chips that listen to an empty air.
LEMMA LoraInit == Init => LoraInv
<1> SUFFICES ASSUME Init PROVE LoraInv
  OBVIOUS
<1>1. MaxCommands \in Nat
  BY LoraAssumption
<1>2. \A e \in End : radio[e] = Configured /\ heard[e] = 0 /\ sent[e] = 0
  BY DEF Init
<1>3. Shape
  <2>1. Configured \in Chip
    BY DEF Configured, Chip
  <2>2. radio \in [End -> Chip] /\ sent \in [End -> Nat] /\ heard \in [End -> Nat]
    BY <2>1 DEF Init
  <2>3. usb = 0 /\ sent["ground"] = 0
    BY DEF Init, End
  <2>4. usb \in 0..sent["ground"] /\ sent["ground"] <= MaxCommands
    BY <1>1, <2>3
  <2> QED
    BY <2>2, <2>4 DEF Init, Shape
<1>4. Turns
  BY <1>2 DEF Init, Turns, Configured, End, Other
<1>5. Newer
  BY <1>2 DEF Init, Newer, Configured, End, Last, Other
<1> QED
  BY <1>3, <1>4, <1>5 DEF LoraInv

\* A new transmit numbers its frame beyond everything the other end has from this one, and
\* starts from a chip that nobody waits for.
LEMMA Starts ==
    ASSUME LoraInv, NEW e \in End, NEW n \in Nat, radio' = StartSend(e, n)
    PROVE  /\ radio' \in [End -> Chip]
           /\ radio'[e].mode = "tx" /\ radio'[e].frame = n /\ radio'[e].unread = 0
           /\ radio'[e].done = FALSE
           /\ radio'[e].whole = TRUE => radio[Other(e)].mode = "rx"
           /\ SameBut(radio'[Other(e)], radio[Other(e)]) /\ radio'[Other(e)].whole = FALSE
BY DEF LoraInv, Shape, StartSend, SameBut, Chip, End, Other

\* A packet is handed up at most once: taking it leaves the chip empty.
LEMMA Receives ==
    ASSUME LoraInv, NEW e \in End, Receive(e),
           UNCHANGED <<txBusy, tele, usb, sent>>, uplink' \in {"wait", "receive"},
           \/ station' = station
           \/ station = "poll" /\ station' = "uplink"
    PROVE  LoraInv'
<1>1. CASE radio[e].unread = 0
  BY <1>1 DEF LoraInv, Shape, Turns, Newer, Receive, Last, Other, End
<1>2. CASE radio[e].unread # 0
  <2>1. /\ heard' = [heard EXCEPT ![e] = radio[e].unread]
        /\ radio' = [radio EXCEPT ![e] = [radio[e] EXCEPT !.unread = 0]]
    BY <1>2 DEF Receive, Taken
  <2>2. Shape'
    BY <2>1 DEF LoraInv, Shape, Chip
  <2>3. Turns'
    BY <2>1 DEF LoraInv, Shape, Turns, SameBut, Other, Chip, End
  <2>4. Newer'
    BY <2>1, <1>2 DEF LoraInv, Shape, Newer, Turns, SameBut, Chip, End, Last, Other
  <2> QED
    BY <2>2, <2>3, <2>4 DEF LoraInv
<1> QED
  BY <1>1, <1>2

\* Every step of either end, of the air and of the reset keeps the invariant.
LEMMA LoraStep == LoraInv /\ [Next]_vars => LoraInv'
<1> SUFFICES ASSUME LoraInv, [Next]_vars PROVE LoraInv'
  OBVIOUS
<1>1. CASE Transmit
  <2>1. radio' = StartSend("vehicle", sent["vehicle"] + 1) /\ sent' = [sent EXCEPT !["vehicle"] = @ + 1]
    BY <1>1 DEF Transmit, LoraInv, Shape, End
  <2>2. "vehicle" \in End /\ sent["vehicle"] + 1 \in Nat
    BY DEF LoraInv, Shape, End
  <2> DEFINE r == radio'["vehicle"]
  <2>3. /\ radio' \in [End -> Chip]
        /\ r.mode = "tx" /\ r.frame = sent["vehicle"] + 1 /\ r.unread = 0
        /\ r.done = FALSE /\ (r.whole = TRUE => radio["ground"].mode = "rx")
        /\ SameBut(radio'["ground"], radio["ground"]) /\ radio'["ground"].whole = FALSE
    BY <2>1, <2>2, Starts DEF Other
  <2>4. Shape'
    BY <1>1, <2>1, <2>3 DEF Transmit, AfterStart, LoraInv, Shape, End
  <2>5. Turns'
    BY <1>1, <2>3 DEF Transmit, AfterStart, LoraInv, Shape, Turns, SameBut, Other, Chip, End
  <2>6. Newer'
    BY <1>1, <2>1, <2>3 DEF Transmit, LoraInv, Shape, Newer, Turns, SameBut, Chip, End, Last, Other
  <2> QED
    BY <2>4, <2>5, <2>6 DEF LoraInv
<1>2. CASE WaitForTx
  <2>1. /\ radio' = [radio EXCEPT !["vehicle"] = [radio["vehicle"] EXCEPT !.mode = "rx", !.done = FALSE]]
        /\ txBusy' = FALSE /\ tele' = "idle"
        /\ UNCHANGED <<uplink, station, usb, sent, heard>>
    BY <1>2 DEF WaitForTx, TxDone, TxTimeout, Listening
  <2>2. Shape'
    BY <2>1 DEF LoraInv, Shape, Chip, End
  <2>3. radio["vehicle"].mode # "tx"
    BY <1>2 DEF WaitForTx, TxDone, LoraInv, Turns, End
  <2>4. Turns'
    BY <2>1, <2>3 DEF LoraInv, Shape, Turns, SameBut, Other, Chip, End
  <2>5. Newer'
    BY <2>1 DEF LoraInv, Shape, Newer, Chip, End, Last, Other
  <2> QED
    BY <2>2, <2>4, <2>5 DEF LoraInv
<1>3. CASE UplinkWakes
  BY <1>3 DEF UplinkWakes, LoraInv, Shape, Turns, Newer, Last
<1>4. CASE UplinkReceives
  BY <1>4, Receives DEF UplinkReceives, End
<1>5. CASE VehicleResets
  <2>1. /\ radio' = [radio EXCEPT !["vehicle"] = Configured,
                               !["ground"] = [radio["ground"] EXCEPT !.whole = FALSE]]
        /\ txBusy' = FALSE /\ tele' = "idle" /\ uplink' = "wait"
        /\ UNCHANGED <<station, usb, sent, heard>>
    BY <1>5 DEF VehicleResets, Rfm95Init, LoraInv, Shape, End
  <2>2. Shape'
    BY <2>1 DEF LoraInv, Shape, Chip, Configured, End
  <2>3. Turns'
    BY <2>1 DEF LoraInv, Shape, Turns, Other, Chip, Configured, End
  <2>4. Newer'
    BY <2>1 DEF LoraInv, Shape, Newer, Chip, Configured, End, Last, Other
  <2> QED
    BY <2>2, <2>3, <2>4 DEF LoraInv
<1>6. CASE Air
  <2>1. PICK e \in End, reports \in BOOLEAN, lost \in BOOLEAN : AirEnds(e, reports, lost)
    BY <1>6 DEF Air
  <2> DEFINE o == Other(e)
  <2>2. o \in End /\ o # e /\ Other(o) = e
    BY DEF End, Other
  <2>3. /\ radio[e].mode = "tx"
        /\ UNCHANGED <<txBusy, tele, uplink, station, usb, sent, heard>>
        /\ radio' \in [End -> Chip]
        /\ radio'[e].mode = "standby" /\ radio'[e].whole = FALSE
        /\ radio'[e].unread = radio[e].unread
        /\ radio'[o].mode = radio[o].mode /\ radio'[o].whole = radio[o].whole
        /\ radio'[o].done = radio[o].done /\ radio'[o].frame = radio[o].frame
        /\ \/ radio'[o].unread = radio[o].unread
           \/ radio[e].whole = TRUE /\ radio'[o].unread = radio[e].frame
    <3>1. radio \in [End -> Chip] /\ radio[e].mode = "tx"
      BY <2>1 DEF AirEnds, LoraInv, Shape
    <3> DEFINE new == IF radio[e].whole /\ ~lost THEN radio[e].frame ELSE radio[o].unread
    <3>2. new \in Nat
      BY <2>2, <3>1 DEF Chip
    <3>3. new = radio[o].unread \/ (radio[e].whole = TRUE /\ new = radio[e].frame)
      <4>1. CASE radio[e].whole /\ ~lost
        BY <3>1, <4>1 DEF Chip
      <4>2. CASE ~(radio[e].whole /\ ~lost)
        BY <4>2
      <4> QED
        BY <4>1, <4>2
    <3>4. radio' = [radio EXCEPT ![e].mode = "standby", ![e].done = reports, ![e].frame = 0,
                                 ![e].whole = FALSE, ![o].unread = new]
      BY <2>1, <2>2 DEF AirEnds
    <3> HIDE DEF new
    <3>5. radio' = [radio EXCEPT ![e] = [radio[e] EXCEPT !.mode = "standby", !.done = reports,
                                                         !.frame = 0, !.whole = FALSE],
                                 ![o] = [radio[o] EXCEPT !.unread = new]]
      BY <2>2, <3>1, <3>4
    <3>6. UNCHANGED <<txBusy, tele, uplink, station, usb, sent, heard>>
      BY <2>1 DEF AirEnds
    <3> QED
      BY <2>2, <3>1, <3>2, <3>3, <3>5, <3>6 DEF Chip
  <2>4. Shape'
    BY <2>3 DEF LoraInv, Shape
  <2>5. ~(radio[e].whole = TRUE) \/ radio[o].mode = "rx"
    BY <2>2 DEF LoraInv, Turns
  <2>6. radio[o].mode = "rx" => radio[o].whole # TRUE
    BY <2>2 DEF LoraInv, Turns
  <2>7. Turns'
    <3>1. CASE e = "vehicle"
      BY <2>2, <2>3, <2>5, <2>6, <3>1 DEF LoraInv, Shape, Turns, Chip, End, Other
    <3>2. CASE e = "ground"
      BY <2>2, <2>3, <2>5, <2>6, <3>2 DEF LoraInv, Shape, Turns, Chip, End, Other
    <3> QED
      BY <3>1, <3>2 DEF End
  <2>8. Newer'
    <3>1. CASE e = "vehicle"
      BY <2>2, <2>3, <3>1 DEF LoraInv, Shape, Newer, Chip, End, Last, Other
    <3>2. CASE e = "ground"
      BY <2>2, <2>3, <3>2 DEF LoraInv, Shape, Newer, Chip, End, Last, Other
    <3> QED
      BY <3>1, <3>2 DEF End
  <2> QED
    BY <2>4, <2>7, <2>8 DEF LoraInv
<1>7. CASE ConsoleSends
  BY <1>7, LoraAssumption DEF ConsoleSends, LoraInv, Shape, Turns, Newer, End, Last, Other
<1>8. CASE LoraPoll
  BY <1>8, Receives DEF LoraPoll, LoraInv, Shape, End
<1>9. CASE ServiceUplink
  <2>1. CASE usb = 0
    BY <1>9, <2>1 DEF ServiceUplink, LoraInv, Shape, Turns, Newer, Last
  <2>2. CASE usb > 0
    <3>1. radio' = StartSend("ground", sent["ground"] - usb + 1)
      BY <1>9, <2>2 DEF ServiceUplink
    <3>2. "ground" \in End /\ sent["ground"] - usb + 1 \in Nat
      BY DEF LoraInv, Shape, End
    <3> DEFINE r == radio'["ground"]
    <3>3. /\ radio' \in [End -> Chip]
          /\ r.mode = "tx" /\ r.frame = sent["ground"] - usb + 1 /\ r.unread = 0
          /\ r.done = FALSE /\ (r.whole = TRUE => radio["vehicle"].mode = "rx")
          /\ SameBut(radio'["vehicle"], radio["vehicle"]) /\ radio'["vehicle"].whole = FALSE
      BY <3>1, <3>2, Starts DEF Other
    <3>4. Shape'
      BY <1>9, <2>2, <3>3 DEF ServiceUplink, LoraInv, Shape, End
    <3>5. Turns'
      BY <1>9, <2>2, <3>3 DEF ServiceUplink, LoraInv, Shape, Turns, SameBut, Other, Chip, End
    <3>6. Newer'
      BY <1>9, <2>2, <3>3 DEF ServiceUplink, LoraInv, Shape, Newer, Turns, SameBut, Chip, End, Last, Other
    <3> QED
      BY <3>4, <3>5, <3>6 DEF LoraInv
  <2> QED
    BY <2>1, <2>2 DEF LoraInv, Shape
<1>10. CASE LoraSent
  <2>1. Shape'
    BY <1>10 DEF LoraSent, LoraInv, Shape, Chip, Configured, End
  <2>2. Turns'
    BY <1>10 DEF LoraSent, LoraInv, Shape, Turns, Other, Chip, Configured, End
  <2>3. Newer'
    BY <1>10 DEF LoraSent, LoraInv, Shape, Newer, Chip, Configured, End, Last, Other
  <2> QED
    BY <2>1, <2>2, <2>3 DEF LoraInv
<1>11. CASE ServiceRest
  BY <1>11 DEF ServiceRest, LoraInv, Shape, Turns, Newer, Last
<1>12. CASE UNCHANGED vars
  BY <1>12 DEF vars, LoraInv, Shape, Turns, Newer, Last
<1> QED
  BY <1>1, <1>2, <1>3, <1>4, <1>5, <1>6, <1>7, <1>8, <1>9, <1>10, <1>11, <1>12
  DEF Next, Uplink, Station

\* The chips, the driver's flag and the loops that wait agree, and frames only grow.
THEOREM LoraInductive == Spec => []LoraInv
BY LoraInit, LoraStep, PTL DEF Spec

\* The vehicle is deaf only while its telemetry task waits for its own transmit, and no
\* chip that does not listen hands anything up.
THEOREM NeverDeaf == Spec => []DeafOnlyWhileSending
<1>1. ASSUME LoraInv PROVE DeafOnlyWhileSending
  <2>1. LoraTypeOK
    <3>1. txBusy <=> radio["vehicle"].mode # "rx"
      BY <1>1 DEF LoraInv, Shape, Turns
    <3>2. ASSUME NEW e \in End
          PROVE  /\ radio[e].mode \in {"rx", "tx", "standby"}
                 /\ radio[e].whole \in BOOLEAN /\ (radio[e].whole => radio[e].mode = "tx")
      BY <1>1, <3>2 DEF LoraInv, Shape, Turns, Chip
    <3>3. ASSUME NEW e \in End PROVE radio[e].unread \in 0..sent[Other(e)]
      BY <1>1, <3>3 DEF LoraInv, Shape, Newer, Chip, Last, Other, End
    <3>4. usb \in 0..MaxCommands
      BY <1>1, LoraAssumption DEF LoraInv, Shape, End
    <3> QED
      BY <3>1, <3>2, <3>3, <3>4 DEF LoraTypeOK
  <2> QED
    BY <1>1, <2>1 DEF LoraInv, Turns, DeafOnlyWhileSending
<1> QED
  BY <1>1, LoraInductive, PTL

\* Frames are taken in the order they were sent and none twice, in both directions.
THEOREM TakenInOrder == Spec => []UnreadIsNew
<1>1. LoraInv => UnreadIsNew
  BY DEF LoraInv, Newer, UnreadIsNew
<1> QED
  BY <1>1, LoraInductive, PTL
==============================================================================
