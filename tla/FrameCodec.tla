----------------------------- MODULE FrameCodec -----------------------------
(***************************************************************************)
(* The frame envelope shared by every link: sync, sync, id, length,        *)
(* payload, checksum.  common/protocol/frame.cpp encodes and decodes it on *)
(* both microcontrollers; tools/ground/frames.py decodes it on the ground. *)
(*                                                                         *)
(* A byte carries its value and where it comes from: byte `pos` of frame   *)
(* `frame`, or frame 0 for padding.  The checksum is ideal: it matches     *)
(* exactly when id, length and payload are those of the frame it belongs   *)
(* to, and then the decoder hands that frame up.                           *)
(***************************************************************************)
EXTENDS Integers, Sequences, SequencesExt

Sync0 == 170
Sync1 == 85

\* Values of the bytes the decoder does not compare with a sync byte.
Plain == 1
Pad   == [val |-> 0, frame |-> 0, pos |-> 0]

HeaderBytes == 4
kFrameOverhead == HeaderBytes + 2

\* A frame of `len` payload bytes.  A lookalike carries a sync pair and an id in its
\* payload, after which the last byte of the payload passes for a length, `fake`; and
\* it ends in a byte that equals Sync0.  In other frames `fake` is 0.
Frame == [id : 0..255, len : Nat, fake : Nat]

IsLookalike(f) == f.fake # 0

WireSize(f) == kFrameOverhead + f.len

\* Value of the i-th byte of a frame on the wire.
ByteValue(f, i) ==
    CASE i = 1 -> Sync0
      [] i = 2 -> Sync1
      [] i = 3 -> f.id
      [] i = 4 -> f.len
      [] IsLookalike(f) /\ i = HeaderBytes + f.len - 3 -> Sync0
      [] IsLookalike(f) /\ i = HeaderBytes + f.len - 2 -> Sync1
      [] IsLookalike(f) /\ i = HeaderBytes + f.len     -> f.fake
      [] IsLookalike(f) /\ i = WireSize(f) -> Sync0
      [] OTHER -> Plain

\* The bytes of frame f, the n-th one sent.
FrameEncode(f, n) ==
    [i \in 1..WireSize(f) |-> [val |-> ByteValue(f, i), frame |-> n, pos |-> i]]

FrameState == {"Sync0", "Sync1", "Id", "Len", "Payload", "CrcHi", "CrcLo"}

\* A decoder: its state, the bytes of payload still missing, and the frame whose
\* bytes it has collected since the id, each in its place, or 0 if they are not
\* one frame's.  `out` lists the frames handed up.
Idle == [state |-> "Sync0", left |-> 0, whole |-> 0, at |-> 0, out |-> <<>>]

Parser == [state : FrameState, left : Nat, whole : Nat, at : Nat, out : Seq(Nat)]

\* The frame collected once b is added: still the same one only if b follows.
Collects(p, b) == IF b.frame = p.whole /\ b.pos = p.at + 1 THEN p.whole ELSE 0

\* Mutant: the checksum is not compared.
AcceptsAny(p, b) == TRUE

\* The checksum matches.
Accepts(p, b) == Collects(p, b) # 0

\* Mutant: the last byte does not send the decoder hunting again.
FinishStuck(p, b) ==
    IF Accepts(p, b) THEN [p EXCEPT !.out = Append(@, Collects(p, b))] ELSE p

\* The last byte: hand the frame up or drop it, and hunt for the next one.
Finish(p, b) ==
    [Idle EXCEPT !.out = IF Accepts(p, b) THEN Append(p.out, Collects(p, b)) ELSE p.out]

\* frame_decode, one byte.  maxLen is the largest length it believes.
FrameDecode(p, b, maxLen) ==
    CASE p.state = "Sync0" ->
            IF b.val = Sync0 THEN [p EXCEPT !.state = "Sync1"] ELSE p
      [] p.state = "Sync1" ->
            [p EXCEPT !.state = IF b.val = Sync1 THEN "Id" ELSE "Sync0"]
      [] p.state = "Id" ->
            [p EXCEPT !.state = "Len", !.at = b.pos,
                      !.whole = IF b.pos = 3 THEN b.frame ELSE 0]
      [] p.state = "Len" ->
            [p EXCEPT !.state = IF b.val > maxLen THEN "Sync0"
                                ELSE IF b.val = 0 THEN "CrcHi" ELSE "Payload",
                      !.left = IF b.val > maxLen THEN 0 ELSE b.val,
                      !.whole = Collects(p, b), !.at = b.pos]
      [] p.state = "Payload" ->
            [p EXCEPT !.state = IF p.left = 1 THEN "CrcHi" ELSE "Payload",
                      !.left = p.left - 1, !.whole = Collects(p, b), !.at = b.pos]
      [] p.state = "CrcHi" ->
            [p EXCEPT !.state = "CrcLo", !.whole = Collects(p, b), !.at = b.pos]
      [] p.state = "CrcLo" -> Finish(p, b)

\* Feed a sequence of bytes; `out` starts empty.
Feed(p, bytes, maxLen) ==
    FoldLeft(LAMBDA q, b : FrameDecode(q, b, maxLen), [p EXCEPT !.out = <<>>], bytes)

\* What is kept of a decoder between calls.
Kept(p) == [p EXCEPT !.out = <<>>, !.whole = IF p.state = "Sync0" THEN 0 ELSE p.whole,
                     !.at = IF p.state = "Sync0" THEN 0 ELSE p.at]
==============================================================================
