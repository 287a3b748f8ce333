------------------------------ MODULE Packets ------------------------------
(***************************************************************************)
(* The payload radio from the vehicle's transmit FIFO to the ground        *)
(* session.  nrf24_send (obc/Src/devices/nrf24.c) cuts a frame into fixed  *)
(* padded packets; the air loses packets; the ground station               *)
(* (gsw/src/radios.cpp, gsw/src/main.cpp) drains a shallow FIFO, finds the *)
(* frames again with one parser per radio and writes them to USB; the      *)
(* session (tools/ground/session.py) decodes that stream, which it may     *)
(* join in the middle of a frame.  Heartbeats arrive over the other radio  *)
(* in between.                                                             *)
(***************************************************************************)
EXTENDS FrameCodec, FiniteSets

CONSTANTS
    PacketBytes,    \* NRF24_MAX_PAYLOAD
    FifoDepth,      \* packets either radio FIFO holds
    ChunkBytes,     \* payload of an image frame, the largest there is
    StatusBytes,    \* payload of a progress or heartbeat frame
    AnyLength,      \* the largest length a byte can hold
    FakeLengths,    \* what the length byte of a lookalike may say
    JoinPoints,     \* bytes of a frame that may be gone when the console is opened
    MaxFrames,      \* bound: frames sent in a behaviour
    MaxTroubles     \* bound: packets the air or a FIFO loses, and resets of either end

ASSUME PacketsAssumption ==
    /\ {PacketBytes, FifoDepth, ChunkBytes, StatusBytes, MaxFrames} \subseteq Nat \ {0}
    /\ MaxTroubles \in Nat
    /\ JoinPoints \subseteq Nat
    /\ AnyLength \in Nat /\ AnyLength > ChunkBytes /\ FakeLengths \subseteq 1..AnyLength
    /\ StatusBytes <= ChunkBytes

Link == {"nrf24", "lora"}

PayloadData == 16
DownlinkStatus == 18
Heartbeat == 3

\* kFrameMaxPayload of the C++ decoder; the Python one believes any length byte.
kFrameMaxPayload == ChunkBytes

\* Bytes a decoder can still take for a frame that is not there.
Swallowed(maxLen) == 2 + maxLen + 2
Swallow == Swallowed(kFrameMaxPayload)

VARIABLES
    sent,       \* every frame sent; frame n is sent[n]
    txFifo,     \* packets waiting in the vehicle's radio, as <<frame, packet>>
    rxFifo,     \* packets waiting in the ground station's radio
    parser,     \* link_t.parser of each radio
    forwarded,  \* frames written to USB, oldest first
    open,       \* the session has the port
    skip,       \* bytes of the next frame that went by before it was opened
    console,    \* the session's decoder
    troubles,   \* packets lost, and resets
    \* history: what was owed and not given
    last,       \* the packet the payload parser took last
    calm,       \* bytes it took since a gap or a lookalike
    dropped,    \* frames that arrived whole on a calm radio and were not forwarded
    hush,       \* bytes the console took since it joined or since a lookalike
    missed      \* frames that reached a console in step and were not handed up

radioVars   == <<sent, txFifo, rxFifo>>
stationVars == <<parser, forwarded, last, calm, dropped>>
consoleVars == <<open, skip, console, hush, missed>>
vars == <<radioVars, stationVars, consoleVars, troubles>>

Packets(f) == (WireSize(f) + PacketBytes - 1) \div PacketBytes

\* The k-th packet of frame n: a slice of the frame, padded to the fixed width.
PacketContent(n, k) ==
    LET bytes == FrameEncode(sent[n], n)
        from  == (k - 1) * PacketBytes
    IN  [i \in 1..PacketBytes |->
            IF from + i <= Len(bytes) THEN bytes[from + i] ELSE Pad]

CalmCap == Swallow + PacketBytes * ((kFrameOverhead + ChunkBytes) \div PacketBytes + 1)

Capped(n) == IF n > CalmCap THEN CalmCap ELSE n
Hushed(n) == IF n > Swallowed(AnyLength) THEN Swallowed(AnyLength) ELSE n

Init ==
    /\ sent = <<>> /\ txFifo = <<>> /\ rxFifo = <<>>
    /\ parser = [l \in Link |-> Idle]
    /\ forwarded = <<>>
    /\ open = FALSE /\ skip = 0 /\ console = Idle
    /\ troubles = 0
    /\ last = <<0, 1>> /\ calm = CalmCap /\ dropped = {}
    /\ hush = 0 /\ missed = {}

------------------------------------------------------------------------------
(* The vehicle.                                                            *)

\* Mutant: the FIFO-full flag is not looked at.
TakenBlindly(f) == Packets(f)

\* How many packets of a frame the transmit FIFO takes: write_packet refuses the
\* first one that finds it full, and the rest of the frame is not offered.
Taken(f) ==
    LET room == FifoDepth - Len(txFifo)
    IN  IF Packets(f) <= room THEN Packets(f) ELSE room

\* nrf24_send of one frame.
NrfSend(f) ==
    /\ Len(sent) < MaxFrames
    /\ Taken(f) = Packets(f) \/ troubles < MaxTroubles
    /\ sent' = Append(sent, f)
    /\ txFifo' = txFifo \o [k \in 1..Taken(f) |-> <<Len(sent) + 1, k>>]
    /\ troubles' = IF Taken(f) = Packets(f) THEN troubles ELSE troubles + 1
    /\ UNCHANGED <<rxFifo, stationVars, consoleVars>>

\* emit_chunk: the bytes of a picture are arbitrary.
EmitChunk == \E fake \in {0} \cup FakeLengths :
    NrfSend([id |-> PayloadData, len |-> ChunkBytes, fake |-> fake])

\* send_status while nothing is in flight.
SendStatus ==
    NrfSend([id |-> DownlinkStatus, len |-> StatusBytes, fake |-> 0])

\* nrf24_init after a reset flushes the transmit FIFO.
VehicleReset ==
    /\ troubles < MaxTroubles
    /\ txFifo # <<>>
    /\ troubles' = troubles + 1
    /\ txFifo' = <<>>
    /\ UNCHANGED <<sent, rxFifo, stationVars, consoleVars>>

------------------------------------------------------------------------------
(* The air: no acknowledgement, no retransmission.                         *)

AirDelivers ==
    /\ txFifo # <<>>
    /\ Len(rxFifo) < FifoDepth
    /\ rxFifo' = Append(rxFifo, Head(txFifo))
    /\ txFifo' = Tail(txFifo)
    /\ UNCHANGED <<sent, stationVars, consoleVars, troubles>>

\* Noise, or a receiver whose FIFO is full because its loop is drawing a screen.
AirLoses ==
    /\ txFifo # <<>>
    /\ troubles < MaxTroubles
    /\ troubles' = troubles + 1
    /\ txFifo' = Tail(txFifo)
    /\ UNCHANGED <<sent, rxFifo, stationVars, consoleVars>>

------------------------------------------------------------------------------
(* The ground station.                                                     *)

\* Mutant: one parser for both radios, the bug gsw/src/main.cpp:54 tells of.
SharedParser(link) == "lora"

ParserOf(link) == link

\* feed: the bytes of the frames written to USB, as far as somebody reads them.
Console(frames, all) ==
    IF ~open \/ frames = <<>> \/ 0 \in ToSet(frames) THEN UNCHANGED consoleVars
    ELSE LET n     == frames[1]
             bytes == FrameEncode(all[n], n)
             p     == Feed(console, SubSeq(bytes, skip + 1, Len(bytes)), AnyLength)
         IN  /\ console' = Kept(p)
             /\ hush' = IF IsLookalike(all[n]) THEN 0 ELSE Hushed(hush + Len(bytes) - skip)
             /\ missed' = missed \cup (IF hush >= Swallowed(AnyLength) THEN {n} \ ToSet(p.out) ELSE {})
             /\ skip' = 0
             /\ UNCHANGED open

\* on_link_rx: run the bytes through the link's parser and write every whole frame,
\* encoded afresh, to USB.
OnLinkRx(link, bytes, all) ==
    LET p == Feed(parser[ParserOf(link)], bytes, kFrameMaxPayload)
    IN  /\ parser' = [parser EXCEPT ![ParserOf(link)] = Kept(p)]
        /\ forwarded' = forwarded \o p.out
        /\ Console(p.out, all)

\* Packet k of frame n follows what was taken last without a gap.
Follows(n, k) ==
    IF k = 1 THEN last[1] = 0 \/ last[2] = Packets(sent[last[1]])
             ELSE last = <<n, k - 1>>

\* nrf24_poll takes one packet out of the FIFO and hands it to on_nrf_rx.
NrfPoll ==
    /\ rxFifo # <<>>
    /\ LET n    == Head(rxFifo)[1]
           k    == Head(rxFifo)[2]
           run  == Capped((IF Follows(n, k) THEN calm ELSE 0) + PacketBytes)
           size == Packets(sent[n]) * PacketBytes
       IN  /\ OnLinkRx("nrf24", PacketContent(n, k), sent)
           /\ rxFifo' = Tail(rxFifo)
           /\ last' = <<n, k>>
           /\ calm' = IF IsLookalike(sent[n]) THEN 0 ELSE run
           /\ dropped' = dropped \cup (IF k = Packets(sent[n]) /\ run >= Swallow + size
                                        THEN {n} \ ToSet(forwarded') ELSE {})
    /\ UNCHANGED <<sent, txFifo, troubles>>

\* lora_poll hears a heartbeat, which fits one packet; the other radio's packets may
\* come before and after it.
LoraPoll ==
    /\ Len(sent) < MaxFrames
    /\ LET f == [id |-> Heartbeat, len |-> StatusBytes, fake |-> 0]
       IN  /\ sent' = Append(sent, f)
           /\ OnLinkRx("lora", FrameEncode(f, Len(sent) + 1), sent')
    /\ dropped' = dropped \cup ({Len(sent) + 1} \ ToSet(forwarded'))
    /\ UNCHANGED <<txFifo, rxFifo, last, calm, troubles>>

\* A reset of the ground station clears its parsers and flushes its FIFO.
StationReset ==
    /\ troubles < MaxTroubles
    /\ troubles' = troubles + 1
    /\ rxFifo' = <<>>
    /\ parser' = [l \in Link |-> Idle]
    /\ last' = <<0, 1>>
    /\ calm' = 0
    /\ UNCHANGED <<sent, txFifo, forwarded, dropped, consoleVars>>

------------------------------------------------------------------------------
(* The session's end of the USB port.                                      *)

\* Opening the port joins the stream anywhere, with a fresh FrameDecoder: `by` bytes
\* of the next frame are already gone.
Open(by) ==
    /\ ~open
    /\ open' = TRUE
    /\ skip' = by
    /\ console' = Idle
    /\ hush' = IF by = 0 THEN Swallowed(AnyLength) ELSE 0
    /\ UNCHANGED <<radioVars, stationVars, missed, troubles>>

Next ==
    \/ EmitChunk \/ SendStatus \/ VehicleReset
    \/ AirDelivers \/ AirLoses
    \/ NrfPoll \/ LoraPoll \/ StationReset
    \/ \E by \in JoinPoints : Open(by)

Spec == Init /\ [][Next]_vars

------------------------------------------------------------------------------
(* Properties.                                                             *)

\* The FIFOs are as deep as the parts, and the decoders are in a state of theirs.
PacketsTypeOK ==
    /\ sent \in Seq(Frame)
    /\ Len(txFifo) <= FifoDepth /\ Len(rxFifo) <= FifoDepth
    /\ \A l \in Link : parser[l] \in Parser /\ parser[l].left <= kFrameMaxPayload
    /\ console \in Parser /\ console.left <= AnyLength

\* Losing packets costs the frames they belonged to and what the decoder swallows
\* while it hunts, never more (nrf24.c:220, frame.cpp:30): a frame that arrives
\* whole on a radio whose last Swallow bytes were undisturbed is forwarded,
\* whatever came over the other radio in between.
CalmFrameForwarded == dropped = {}

\* What is forwarded was sent: every frame at most once, a radio's frames in the
\* order they were sent, and none put together out of pieces of several (main.cpp:89).
ForwardedInOrder ==
    /\ PacketsTypeOK
    /\ \A i, j \in 1..Len(forwarded) :
          /\ forwarded[i] \in 1..Len(sent)
          /\ i < j => forwarded[i] # forwarded[j]
          /\ i < j /\ (sent[forwarded[i]].id = Heartbeat <=> sent[forwarded[j]].id = Heartbeat)
                => forwarded[i] < forwarded[j]

\* A console that joins in the middle of a frame is in step again after it
\* (frames.py:68): a frame of which every byte comes is handed to the session, once as
\* many bytes have gone by undisturbed as a lookalike with any length byte can swallow,
\* several frames of the largest size among them.
ConsoleInStep == missed = {}
==============================================================================
