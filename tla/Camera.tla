------------------------------- MODULE Camera --------------------------------
(***************************************************************************)
(* obc/Src/devices/ov2640.c: the camera and the one frame its FIFO holds.  *)
(* The control task starts and polls captures, the downlink task reads and *)
(* rewinds; every operation runs under the camera's mutex, so each is one  *)
(* step.  Lengths are counted in chunks.  The frame in the FIFO is known   *)
(* by the boot and the capture it came from, which is what a reader would  *)
(* see in its pixels.                                                      *)
(***************************************************************************)
EXTENDS Integers

CONSTANT Sizes   \* the lengths a finished capture may have

ASSUME CameraAssumption == Sizes \subseteq Nat \ {0}

VARIABLES
    boot,         \* which power cycle this is; tells frames of two boots apart
    camState,     \* state
    captureSeq,   \* capture_seq
    frameBytes,   \* frame_bytes
    frameRead     \* frame_read

cameraVars == <<boot, camState, captureSeq, frameBytes, frameRead>>

CamState == {"IDLE", "CAPTURING", "READY", "FAILED"}

\* One chunk of payload: of which frame, which part of it, out of how many.
Chunk == [frame : Nat \X Nat, pos : Nat, of : Nat]

CameraInit ==
    /\ camState = "IDLE"
    /\ captureSeq = 0
    /\ frameBytes = 0
    /\ frameRead = 0

FrameReady == camState = "READY"

\* ov2640_frame_bytes: what is left to read.
Remaining == IF FrameReady THEN frameBytes - frameRead ELSE 0

\* capture_start_locked: the frame in the FIFO is gone from here on.
CaptureStart ==
    /\ camState # "CAPTURING"
    /\ camState' = "CAPTURING"
    /\ captureSeq' = captureSeq + 1
    /\ frameBytes' = 0
    /\ frameRead' = 0
    /\ UNCHANGED boot

\* poll_locked: the capture finishes with a frame, or without one, or times out.
CapturePoll ==
    /\ camState = "CAPTURING"
    /\ \/ camState' = "READY" /\ frameBytes' \in Sizes
       \/ camState' = "FAILED" /\ UNCHANGED frameBytes
    /\ UNCHANGED <<boot, captureSeq, frameRead>>

CanRewind == frameBytes > 0 /\ camState \in {"READY", "IDLE"}

\* Mutant: the rewind makes the frame ready again and leaves the pointer.
RewindInPlace ==
    /\ CanRewind
    /\ camState' = "READY"
    /\ UNCHANGED <<boot, captureSeq, frameBytes, frameRead>>

\* ov2640_rewind, when it answers true; a refusal changes nothing.
Rewind ==
    /\ CanRewind
    /\ camState' = "READY"
    /\ frameRead' = 0
    /\ UNCHANGED <<boot, captureSeq, frameBytes>>

\* The chunk a read would return.
NextChunk == [frame |-> <<boot, captureSeq>>, pos |-> frameRead, of |-> frameBytes]

\* Mutant: the drained frame stays ready.
ReadChunkStaysReady ==
    /\ Remaining > 0
    /\ frameRead' = frameRead + 1
    /\ UNCHANGED <<boot, camState, captureSeq, frameBytes>>

\* read_chunk_locked, when it returns data; the last chunk leaves the camera idle
\* with the frame still in its FIFO.
ReadChunk ==
    /\ Remaining > 0
    /\ frameRead' = frameRead + 1
    /\ camState' = IF frameRead' >= frameBytes THEN "IDLE" ELSE "READY"
    /\ UNCHANGED <<boot, captureSeq, frameBytes>>
==============================================================================
