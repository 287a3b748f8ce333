------------------------------ MODULE LoraLink ------------------------------
(***************************************************************************)
(* The LoRa link, driver to driver: rfm95.c on the vehicle, where the      *)
(* telemetry task transmits and the uplink task asks for packets, and      *)
(* lora_poll and lora_send on the ground, inside the loop of the station.  *)
(* The link is half duplex and a chip holds one unread packet.             *)
(***************************************************************************)
EXTENDS Integers

CONSTANTS
    MaxBeacons,   \* bound: frames the telemetry task sends
    MaxCommands,  \* bound: frames the console sends up
    MaxMute,      \* bound: transmissions a chip never reports done
    MaxLost,      \* bound: packets lost in the air
    MaxResets     \* bound: resets of the vehicle's computer, which spare its radio

ASSUME LoraAssumption ==
    {MaxBeacons, MaxCommands, MaxMute, MaxLost, MaxResets} \subseteq Nat

End == {"vehicle", "ground"}

VARIABLES
    radio,     \* the two chips
    txBusy,    \* rfm95.c: a transmit is in the air
    tele,      \* the telemetry task: idle, or waiting in rfm95_send
    uplink,    \* the uplink task: has it found the radio not transmitting
    station,   \* the ground station's loop
    usb,       \* frames from the console, waiting
    sent,      \* frames each end has been given to send, numbered in order
    heard,     \* history: the number of the last frame each end took from its radio
    spent      \* mute transmissions, lost packets and resets so far

vars == <<radio, txBusy, tele, uplink, station, usb, sent, heard, spent>>

\* A chip that listens: nothing unread, no transmit done.
Configured == [mode |-> "rx", frame |-> 0, whole |-> FALSE, unread |-> 0, done |-> FALSE]

Init ==
    /\ radio = [e \in End |-> Configured]
    /\ txBusy = FALSE
    /\ tele = "idle" /\ uplink = "wait" /\ station = "poll"
    /\ usb = 0
    /\ sent = [e \in End |-> 0]
    /\ heard = [e \in End |-> 0]
    /\ spent = [mute |-> 0, lost |-> 0, resets |-> 0]

------------------------------------------------------------------------------
(* The air: a packet is heard only by an end that listened from its first  *)
(* symbol to its last.                                                     *)

Other(e) == IF e = "vehicle" THEN "ground" ELSE "vehicle"

\* Mutant: what was waiting to be read is sent again as our own.
SendKeepingFlags(e, n) ==
    [radio EXCEPT ![e] = [mode |-> "tx", frame |-> n, whole |-> radio[Other(e)].mode = "rx",
                          unread |-> @.unread, done |-> @.done],
                  ![Other(e)].whole = FALSE]

\* rfm95_send and lora_send: out of receive, every flag cleared and an unread packet
\* with them.
StartSend(e, n) ==
    [radio EXCEPT ![e] = [mode |-> "tx", frame |-> n, whole |-> radio[Other(e)].mode = "rx",
                          unread |-> 0, done |-> FALSE],
                  ![Other(e)].whole = FALSE]

Listening(r) == [r EXCEPT !.mode = "rx", !.done = FALSE]

\* The last symbol is out and the chip goes to standby; it reports that, or never does.
AirEnds(e, reports, lost) ==
    LET r == radio[e]
    IN  /\ r.mode = "tx"
        /\ spent' = [spent EXCEPT !.mute = @ + (IF reports THEN 0 ELSE 1),
                                  !.lost = @ + (IF lost THEN 1 ELSE 0)]
        /\ spent'.mute <= MaxMute /\ spent'.lost <= MaxLost
        /\ radio' = [radio EXCEPT ![e].mode = "standby", ![e].done = reports,
                                  ![e].frame = 0, ![e].whole = FALSE,
                                  ![Other(e)].unread = IF r.whole /\ ~lost THEN r.frame ELSE @]
        /\ UNCHANGED <<txBusy, tele, uplink, station, usb, sent, heard>>

------------------------------------------------------------------------------
(* The vehicle.                                                            *)

\* Mutant: the transmit is left in the air for the next pass of the loop to look at.
AfterStartNoWait == "idle"

\* rfm95_send stays in its loop until the transmit is over.
AfterStart == "sending"

\* service_beacon's rfm95_send, up to the release of the bus.
Transmit ==
    /\ tele = "idle"
    /\ sent["vehicle"] < MaxBeacons
    /\ sent' = [sent EXCEPT !["vehicle"] = @ + 1]
    /\ radio' = StartSend("vehicle", sent'["vehicle"])
    /\ txBusy' = TRUE
    /\ tele' = AfterStart
    /\ UNCHANGED <<uplink, station, usb, heard, spent>>

\* rfm95_tx_done: the flag takes the radio back to receive.
TxDone ==
    /\ txBusy /\ radio["vehicle"].done
    /\ radio' = [radio EXCEPT !["vehicle"] = Listening(@)]
    /\ txBusy' = FALSE

\* Mutant: the deadline only ends the wait.
TxTimeoutDeaf == txBusy' = FALSE /\ UNCHANGED radio

\* The end of rfm95_send when the flag never came: the deadline is far past the longest
\* packet, and the radio goes back to receive all the same.
TxTimeout ==
    /\ radio' = [radio EXCEPT !["vehicle"] = Listening(@)]
    /\ txBusy' = FALSE

WaitForTx ==
    /\ tele = "sending"
    /\ \/ TxDone
       \/ /\ radio["vehicle"].mode = "standby" /\ ~radio["vehicle"].done
          /\ TxTimeout
    /\ tele' = "idle"
    /\ UNCHANGED <<uplink, station, usb, sent, heard, spent>>

\* rfm95_receive tests tx_busy before it has the bus, and may wait for the bus.
UplinkWakes ==
    /\ uplink = "wait" /\ ~txBusy
    /\ uplink' = "receive"
    /\ UNCHANGED <<radio, txBusy, tele, station, usb, sent, heard, spent>>

\* Mutant: the flag of a packet stays up when the packet is read.
TakenTwice(r) == r

\* The flag is cleared as the packet is read.
Taken(r) == [r EXCEPT !.unread = 0]

\* A packet is handed up, if one is there.
Receive(e) ==
    IF radio[e].unread = 0 THEN UNCHANGED <<heard, radio>>
    ELSE /\ heard' = [heard EXCEPT ![e] = radio[e].unread]
         /\ radio' = [radio EXCEPT ![e] = Taken(@)]

\* drain_radio: one packet, whenever the task wakes.
UplinkReceives ==
    /\ uplink = "receive"
    /\ uplink' = "wait"
    /\ Receive("vehicle")
    /\ UNCHANGED <<txBusy, tele, station, usb, sent, spent>>

\* Mutant: a chip left transmitting by the last life is configured as it stands.
InitWithoutReset(r) == [r EXCEPT !.whole = FALSE]

\* rfm95_init drives the chip's own reset: what it was doing is gone.
Rfm95Init(r) == Configured

\* The computer resets; its radio does not, and is configured anew.
VehicleResets ==
    /\ spent.resets < MaxResets
    /\ spent' = [spent EXCEPT !.resets = @ + 1]
    /\ radio' = [radio EXCEPT !["vehicle"] = Rfm95Init(@), !["ground"].whole = FALSE]
    /\ txBusy' = FALSE /\ tele' = "idle" /\ uplink' = "wait"
    /\ UNCHANGED <<station, usb, sent, heard>>

------------------------------------------------------------------------------
(* The ground station: loop() in gsw/src/main.cpp.                         *)

ConsoleSends ==
    /\ sent["ground"] < MaxCommands
    /\ sent' = [sent EXCEPT !["ground"] = @ + 1]
    /\ usb' = usb + 1
    /\ UNCHANGED <<radio, txBusy, tele, uplink, station, heard, spent>>

\* lora_poll.
LoraPoll ==
    /\ station = "poll"
    /\ station' = "uplink"
    /\ Receive("ground")
    /\ UNCHANGED <<txBusy, tele, uplink, usb, sent, spent>>

\* service_uplink: every frame waiting on usb, one lora_send after the other.
ServiceUplink ==
    /\ station = "uplink"
    /\ IF usb > 0
         THEN /\ radio' = StartSend("ground", sent["ground"] - usb + 1)
              /\ usb' = usb - 1 /\ station' = "sending"
         ELSE station' = "service" /\ UNCHANGED <<radio, usb>>
    /\ UNCHANGED <<txBusy, tele, uplink, sent, heard, spent>>

\* lora_send's wait ends with the flag or the deadline, and clears every flag.
LoraSent ==
    /\ station = "sending" /\ radio["ground"].mode = "standby"
    /\ radio' = [radio EXCEPT !["ground"] = Configured]
    /\ station' = "uplink"
    /\ UNCHANGED <<txBusy, tele, uplink, usb, sent, heard, spent>>

\* Status frame, LED and screens, which block the loop.
ServiceRest ==
    /\ station = "service"
    /\ station' = "poll"
    /\ UNCHANGED <<radio, txBusy, tele, uplink, usb, sent, heard, spent>>

------------------------------------------------------------------------------
Air     == \E e \in End, reports, lost \in BOOLEAN : AirEnds(e, reports, lost)
Uplink  == UplinkWakes \/ UplinkReceives
Station == LoraPoll \/ ServiceUplink \/ LoraSent \/ ServiceRest

Next ==
    \/ Transmit \/ WaitForTx \/ Uplink \/ VehicleResets
    \/ Air \/ ConsoleSends \/ Station

\* Both processors run, and a packet in the air comes to its end.
Spec ==
    /\ Init /\ [][Next]_vars
    /\ WF_vars(WaitForTx) /\ WF_vars(Uplink) /\ WF_vars(Station)
    /\ \A e \in End : WF_vars(\E reports, lost \in BOOLEAN : AirEnds(e, reports, lost))

------------------------------------------------------------------------------
\* A chip in its resting state has nothing in the air; the driver's flag follows the chip.
LoraTypeOK ==
    /\ \A e \in End :
          /\ radio[e].mode \in {"rx", "tx", "standby"}
          /\ radio[e].whole \in BOOLEAN /\ (radio[e].whole => radio[e].mode = "tx")
          /\ radio[e].unread \in 0..sent[Other(e)]
    /\ txBusy <=> radio["vehicle"].mode # "rx"
    /\ usb \in 0..MaxCommands

\* rfm95.c:222-227: the vehicle is deaf only while its telemetry task waits for a
\* transmit to end, never for as long as some loop period; so a task that finds the
\* radio idle finds it listening.  Until it listens again a chip of either end has
\* nothing to hand up: no byte of our own packet is taken for one of theirs.
DeafOnlyWhileSending ==
    /\ LoraTypeOK
    /\ radio["vehicle"].mode # "rx" => tele = "sending"
    /\ \A e \in End : radio[e].mode # "rx" => radio[e].unread = 0

\* Each end takes the frames of the other in the order they were sent and none twice,
\* whatever is lost, overwritten before it is read, or wiped by a transmit: a packet that
\* waits in a chip is newer than every packet taken from it.
UnreadIsNew == \A e \in End : radio[e].unread # 0 => radio[e].unread > heard[e]

\* Both radios always come back to listening, even from a transmit never reported done.
ListensAgain == \A e \in End : radio[e].mode # "rx" ~> radio[e].mode = "rx"
==============================================================================
