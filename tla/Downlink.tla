------------------------------ MODULE Downlink -------------------------------
(***************************************************************************)
(* obc/Src/freertos/downlink_task.cpp with the camera it drains and the    *)
(* ground it feeds.  The task reads shared state - s_active, the camera,   *)
(* the request queue - in separate steps, and the control task, which has  *)
(* the higher priority, may start a capture or end the pass between any    *)
(* two of them.  What a step computes from the task's own variables        *)
(* belongs to the step.                                                    *)
(*                                                                         *)
(* A pass sends every chunk of a new frame once; chunks the ground names   *)
(* are then resent by rewinding the FIFO and sweeping over it.  Chunks,    *)
(* requests and status frames may be lost.                                 *)
(***************************************************************************)
EXTENDS Camera, Assembler

CONSTANTS
    ReqDepth,      \* kReqQueueDepth
    MaxCaptures,   \* bound: captures per boot
    MaxBoots,      \* bound: power cycles
    Captures       \* when the operator takes pictures, see MayCapture

ASSUME DownlinkAssumption ==
    /\ ReqDepth \in Nat \ {0}
    /\ MaxCaptures \in Nat
    /\ MaxBoots \in Nat
    /\ Captures \in {"any", "parked", "settled"}

VARIABLES
    active,      \* s_active
    pc,          \* where the task is
    imageId,     \* s_image_id
    chunk,       \* s_chunk
    chunks,      \* s_chunks
    total,       \* s_chunks_total
    seen,        \* s_capture_seen
    remaining,   \* send_chunk's remaining
    reqBits,     \* s_req_bits
    reqCount,    \* s_req_count
    reqQueue,    \* s_req_queue
    idx,         \* serve_requests' idx
    held,        \* serve_requests' data, read and not yet sent
    idleHeard,   \* the ground's dl_idle_at is fresh
    spoilt       \* history: the <<boot, image id>> a capture or a reset came between

passVars == <<imageId, chunk, chunks, total, seen>>
reqVars  == <<reqBits, reqCount, reqQueue>>
taskVars == <<active, pc, passVars, remaining, reqVars, idx, held>>
vars     == <<cameraVars, assemblerVars, taskVars, idleHeard, spoilt>>

NoChunk == [frame |-> <<0, 0>>, pos |-> 0, of |-> 0]

\* main and every static initialiser: the vehicle's half at power-on.
PowerOn ==
    /\ CameraInit
    /\ active = FALSE
    /\ pc = "top"
    /\ imageId = 0 /\ chunk = 0 /\ chunks = 0 /\ total = 0 /\ seen = 0
    /\ remaining = 0
    /\ reqBits = {} /\ reqCount = 0 /\ reqQueue = <<>>
    /\ idx = 0
    /\ held = NoChunk

Init == boot = 0 /\ PowerOn /\ AssemblerInit /\ idleHeard = FALSE /\ spoilt = {}

------------------------------------------------------------------------------
(* The control task.                                                       *)

\* The last frame has gone out or failed, nothing is asked for, and the ground
\* has no gaps.  Nothing in the code waits for this.
Settled ==
    /\ camState = "FAILED" \/ captureSeq = seen
    /\ chunks = 0 /\ reqCount = 0 /\ reqQueue = <<>>
    /\ pc \in {"top", "drain", "rest"}
    /\ images = <<>>

\* The command is legal in STANDBY, POINTING and DOWNLINK, so an operator may
\* capture at "any" time; the usual one takes a picture while not in DOWNLINK
\* ("parked"), the patient one when everything is "settled".
MayCapture ==
    CASE Captures = "any"     -> TRUE
      [] Captures = "parked"  -> ~active
      [] Captures = "settled" -> Settled

\* downlink_task_set_active.  The parked operator comes back once the frame is
\* there, and a capture is long enough for the task to have come round.
SetActive(b) ==
    /\ active # b
    /\ Captures = "parked" => camState # "CAPTURING"
    /\ active' = b
    /\ UNCHANGED <<cameraVars, assemblerVars, pc, passVars, remaining, reqVars,
                   idx, held, idleHeard, spoilt>>

\* Something of the image on the air is still to be sent, or may yet be asked for, or the
\* next one has been measured and not begun.
Unfinished ==
    \/ chunks # 0 \/ reqCount # 0
    \/ pc \in {"fix", "sweep", "skim", "wait"}
    \/ imageId \in DOMAIN images
    \/ \E w \in Range(reqQueue) : w[1] = imageId

\* A capture takes the FIFO from whatever is unfinished: the new frame may go out under
\* the old image's id, and what is left of it under the next.
Capture ==
    /\ captureSeq < MaxCaptures
    /\ MayCapture
    /\ CaptureStart
    /\ spoilt' = IF Unfinished THEN spoilt \cup {<<boot, imageId>>, <<boot, imageId + 1>>}
                 ELSE spoilt
    /\ UNCHANGED <<assemblerVars, taskVars, idleHeard>>

Poll ==
    /\ Captures = "parked" => pc = "top"
    /\ CapturePoll
    /\ UNCHANGED <<assemblerVars, taskVars, idleHeard, spoilt>>

\* A reset of the flight computer; the ground carries on, and what it has open under an id
\* is joined by the next image of that id.
Reboot ==
    /\ boot < MaxBoots
    /\ boot' = boot + 1
    /\ camState' = "IDLE" /\ captureSeq' = 0 /\ frameBytes' = 0 /\ frameRead' = 0
    /\ active' = FALSE
    /\ pc' = "top"
    /\ imageId' = 0 /\ chunk' = 0 /\ chunks' = 0 /\ total' = 0 /\ seen' = 0
    /\ remaining' = 0
    /\ reqBits' = {} /\ reqCount' = 0 /\ reqQueue' = <<>>
    /\ idx' = 0
    /\ held' = NoChunk
    /\ spoilt' = spoilt \cup {<<boot + 1, i>> : i \in DOMAIN images}
    /\ UNCHANGED <<assemblerVars, idleHeard>>

------------------------------------------------------------------------------
(* send_chunk, called while active and the buffers have room.              *)

\* emit_chunk: on the air under the image's id and the given index, and heard
\* or not.
Emitted(c, data) == [id |-> imageId, chunk |-> c, chunks |-> total, data |-> data]

Emit(c, data, heard) ==
    IF heard THEN Push(Emitted(c, data)) ELSE UNCHANGED assemblerVars

\* The loop's guard.  Whether the buffers have room is the links' business.
Top(room) ==
    /\ pc = "top"
    /\ pc' = IF active /\ room THEN "ready" ELSE "drain"
    /\ UNCHANGED <<cameraVars, assemblerVars, active, passVars, remaining, reqVars,
                   idx, held, idleHeard, spoilt>>

\* No frame: whatever pass was in flight is over.
Ready ==
    /\ pc = "ready"
    /\ pc' = IF ~FrameReady THEN "drain" ELSE IF chunks = 0 THEN "fresh" ELSE "read"
    /\ chunks' = IF FrameReady THEN chunks ELSE 0
    /\ UNCHANGED <<cameraVars, assemblerVars, active, imageId, chunk, total, seen,
                   remaining, reqVars, idx, held, idleHeard, spoilt>>

\* Only a capture not seen before starts a pass, and only if it has bytes.
Fresh ==
    /\ pc = "fresh"
    /\ pc' = IF captureSeq = seen THEN "drain" ELSE "measure"
    /\ UNCHANGED <<cameraVars, assemblerVars, active, passVars, remaining, reqVars,
                   idx, held, idleHeard, spoilt>>

Measure ==
    /\ pc = "measure"
    /\ pc' = IF Remaining = 0 THEN "drain" ELSE "fix"
    /\ remaining' = Remaining
    /\ UNCHANGED <<cameraVars, assemblerVars, active, passVars, reqVars, idx, held,
                   idleHeard, spoilt>>

\* Mutant: the requests of the previous image survive.
FixKeepingRequests ==
    /\ pc = "fix"
    /\ pc' = "read"
    /\ seen' = captureSeq
    /\ imageId' = imageId + 1
    /\ chunk' = 0
    /\ chunks' = remaining
    /\ total' = remaining
    /\ remaining' = 0
    /\ UNCHANGED <<cameraVars, assemblerVars, active, reqVars, idx, held, idleHeard, spoilt>>

\* A new image: its id, its shape, and no requests.
Fix ==
    /\ pc = "fix"
    /\ pc' = "read"
    /\ seen' = captureSeq
    /\ imageId' = imageId + 1
    /\ chunk' = 0
    /\ chunks' = remaining
    /\ total' = remaining
    /\ remaining' = 0
    /\ reqBits' = {} /\ reqCount' = 0
    /\ UNCHANGED <<cameraVars, assemblerVars, active, reqQueue, idx, held, idleHeard, spoilt>>

\* ov2640_read_chunk returned data: out it goes, and the last one ends the pass.
SendChunk(heard) ==
    /\ pc = "read"
    /\ ReadChunk
    /\ Emit(chunk, NextChunk, heard)
    /\ chunk' = chunk + 1
    /\ chunks' = IF chunk + 1 >= chunks THEN 0 ELSE chunks
    /\ pc' = "top"
    /\ UNCHANGED <<active, imageId, total, seen, remaining, reqVars, idx, held, idleHeard, spoilt>>

\* It returned nothing: the image is over either way.
SendNothing ==
    /\ pc = "read"
    /\ Remaining = 0
    /\ chunks' = 0
    /\ pc' = "drain"
    /\ UNCHANGED <<cameraVars, assemblerVars, active, imageId, chunk, total, seen,
                   remaining, reqVars, idx, held, idleHeard, spoilt>>

------------------------------------------------------------------------------
(* drain_requests and serve_requests.                                      *)

\* The queued requests for a chunk of the current image; the others are stale.
Wanted == {w[2] : w \in {v \in Range(reqQueue) : v[1] = imageId /\ v[2] < total}}

Drain ==
    /\ pc = "drain"
    /\ reqBits' = reqBits \cup Wanted
    /\ reqCount' = reqCount + Cardinality(Wanted \ reqBits)
    /\ reqQueue' = <<>>
    /\ pc' = "serve"
    /\ UNCHANGED <<cameraVars, assemblerVars, active, passVars, remaining, idx, held,
                   idleHeard, spoilt>>

MayServe == reqCount > 0 /\ chunks = 0

\* Nothing to resend, a pass in flight, or no frame to rewind.
ServeNothing ==
    /\ pc = "serve"
    /\ ~(MayServe /\ CanRewind)
    /\ pc' = "rest"
    /\ UNCHANGED <<cameraVars, assemblerVars, active, passVars, remaining, reqVars,
                   idx, held, idleHeard, spoilt>>

\* Mutant: the sweep counts from one.
ServeFromOne ==
    /\ pc = "serve"
    /\ MayServe
    /\ Rewind
    /\ idx' = 1
    /\ pc' = "sweep"
    /\ UNCHANGED <<assemblerVars, active, passVars, remaining, reqVars, held, idleHeard, spoilt>>

ServeRewound ==
    /\ pc = "serve"
    /\ MayServe
    /\ Rewind
    /\ idx' = 0
    /\ pc' = "sweep"
    /\ UNCHANGED <<assemblerVars, active, passVars, remaining, reqVars, held, idleHeard, spoilt>>

\* The sweep's loop guard.
Sweep ==
    /\ pc = "sweep"
    /\ pc' = IF idx < total /\ active THEN "skim" ELSE "rest"
    /\ UNCHANGED <<cameraVars, assemblerVars, active, passVars, remaining, reqVars,
                   idx, held, idleHeard, spoilt>>

\* The next chunk of the frame, kept if it was asked for and passed over if not.
Skim ==
    /\ pc = "skim"
    /\ ReadChunk
    /\ IF idx \in reqBits
         THEN held' = NextChunk /\ pc' = "wait" /\ UNCHANGED idx
         ELSE idx' = idx + 1 /\ pc' = "sweep" /\ UNCHANGED held
    /\ UNCHANGED <<assemblerVars, active, passVars, remaining, reqVars, idleHeard, spoilt>>

\* The frame ended early, or went.
SkimNothing ==
    /\ pc = "skim"
    /\ Remaining = 0
    /\ pc' = "rest"
    /\ UNCHANGED <<cameraVars, assemblerVars, active, passVars, remaining, reqVars,
                   idx, held, idleHeard, spoilt>>

\* There is room and DOWNLINK still lasts.
Resend(heard) ==
    /\ pc = "wait"
    /\ active
    /\ Emit(idx, held, heard)
    /\ reqBits' = reqBits \ {idx}
    /\ reqCount' = reqCount - 1
    /\ chunk' = idx
    /\ idx' = idx + 1
    /\ held' = NoChunk
    /\ pc' = "sweep"
    /\ UNCHANGED <<cameraVars, active, imageId, chunks, total, seen, remaining,
                   reqQueue, idleHeard, spoilt>>

\* Left DOWNLINK mid-sweep: the bits stay set for the next entry.
Abandon ==
    /\ pc = "wait"
    /\ ~active
    /\ held' = NoChunk
    /\ pc' = "rest"
    /\ UNCHANGED <<cameraVars, assemblerVars, active, passVars, remaining, reqVars,
                   idx, idleHeard, spoilt>>

InFlight == chunks # 0 \/ reqCount # 0

\* service_status, then the nap: an idle report is what invites requests.
Rest(heard) ==
    /\ pc = "rest"
    /\ pc' = "top"
    /\ idleHeard' = (idleHeard \/ (active /\ ~InFlight /\ heard))
    /\ UNCHANGED <<cameraVars, assemblerVars, active, passVars, remaining, reqVars,
                   idx, held, spoilt>>

------------------------------------------------------------------------------
(* The ground.                                                             *)

\* Mutant: the queue takes everything.
QueuedUnbounded(words) == reqQueue \o words

\* downlink_task_request: what does not fit is dropped.
Queued(words) ==
    LET both == reqQueue \o words
    IN IF Len(both) <= ReqDepth THEN both ELSE SubSeq(both, 1, ReqDepth)

\* A request that arrives, ground to uplink task to queue; one that is lost on
\* the way changes nothing.
Request ==
    /\ idleHeard
    /\ \E i \in DOMAIN images :
          /\ Pending(i)
          /\ \E b \in UNION {[1..n -> Missing(i)] : n \in 0..RequestMax} :
                /\ Batch(i, b)
                /\ reqQueue' = Queued([k \in DOMAIN b |-> <<i, b[k]>>])
    /\ UNCHANGED <<cameraVars, assemblerVars, active, pc, passVars, remaining,
                   reqBits, reqCount, idx, held, idleHeard, spoilt>>

\* DOWNLINK_FRESH_S without an idle report.
Quiet ==
    /\ idleHeard
    /\ idleHeard' = FALSE
    /\ UNCHANGED <<cameraVars, assemblerVars, taskVars, spoilt>>

------------------------------------------------------------------------------

Task ==
    \/ \E room \in BOOLEAN : Top(room)
    \/ Ready \/ Fresh \/ Measure \/ Fix
    \/ \E heard \in BOOLEAN : SendChunk(heard)
    \/ SendNothing
    \/ Drain \/ ServeNothing \/ ServeRewound
    \/ Sweep \/ Skim \/ SkimNothing
    \/ \E heard \in BOOLEAN : Resend(heard)
    \/ Abandon
    \/ \E heard \in BOOLEAN : Rest(heard)

Next ==
    \/ \E b \in BOOLEAN : SetActive(b)
    \/ Capture \/ Poll \/ Reboot
    \/ Task
    \/ Request \/ Quiet

Spec == Init /\ [][Next]_vars

\* The task runs; a chunk resent again and again, an idle report and a request
\* get through eventually, and the buffers have room again and again.
Fairness ==
    /\ WF_vars(Task)
    /\ SF_vars(active /\ Top(TRUE))
    /\ \A c \in UNION {0..(n - 1) : n \in Sizes} : SF_vars(idx = c /\ Resend(TRUE))
    /\ SF_vars(Rest(TRUE))
    /\ SF_vars(Request)

FairSpec == Spec /\ Fairness
------------------------------------------------------------------------------
(* Properties.                                                             *)

Boot(p) == p.frame[1]

Word == (0..MaxCaptures) \X Nat

\* The variables hold what the code's types and bounds allow, the task is inside
\* send_chunk's first-pass branch only between two passes, and a frame is readable
\* exactly when something of it is left to read, whatever order captures, reads and
\* rewinds come in.
DownlinkTypeOK ==
    /\ camState \in CamState
    /\ captureSeq \in 0..MaxCaptures
    /\ frameBytes \in Sizes \cup {0} /\ frameRead \in 0..frameBytes
    /\ boot \in 0..MaxBoots
    /\ active \in BOOLEAN /\ idleHeard \in BOOLEAN
    /\ imageId \in Nat /\ seen \in 0..captureSeq
    /\ chunks \in {0, total} /\ total \in Nat /\ chunk \in 0..total
    /\ remaining \in Nat
    /\ reqQueue \in Seq(Word) /\ Len(reqQueue) <= ReqDepth
    /\ idx \in Nat /\ (pc \in {"sweep", "skim", "wait"} => idx <= total)
    /\ pc \in {"fresh", "measure", "fix"} => chunks = 0
    /\ FrameReady <=> frameRead < frameBytes

\* The count of requested chunks is the number of bits set, through duplicate
\* requests, superseded images and abandoned sweeps: a count that drifts upwards
\* rewinds and sweeps for ever and reports "in flight" to a ground that then asks
\* for nothing; one that drifts downwards strands a requested chunk.
RequestsCounted ==
    /\ DownlinkTypeOK
    /\ reqCount = Cardinality(reqBits)
    /\ reqBits \subseteq 0..(total - 1)

\* An image is saved once, however often its chunks are asked for again: two saved
\* images of one id are of different power cycles, ids restarting with each.
SavedOnce ==
    \A i, j \in DOMAIN saved : i < j /\ saved[i].id = saved[j].id =>
        {Boot(p) : p \in Range(saved[i].parts)} \cap {Boot(p) : p \in Range(saved[j].parts)} = {}

\* What the ground saved, as ImageTransfer tells it.
Taken == {<<b, n>> : b \in 0..boot, n \in 1..captureSeq}
Gallery == [i \in DOMAIN saved |-> saved[i].parts]

Transfer == INSTANCE ImageTransfer WITH taken <- Taken, gallery <- Gallery

\* What is saved is one whole picture, every part at its place, whenever pictures are taken
\* and the vehicle is reset, but for the images that one of two things came between: a
\* capture while the image was unfinished, and a reset while the ground had an image open
\* under the id that the new boot comes to use.
SavedWhole ==
    \A i \in DOMAIN saved :
       \/ \E p \in Range(saved[i].parts) : <<Boot(p), saved[i].id>> \in spoilt
       \/ \E f \in (0..MaxBoots) \X (1..MaxCaptures), n \in Sizes :
             saved[i].parts = Transfer!Picture(f, n)

\* An image is saved once and whole, at any time of capture and through resets, and what
\* comes out mixed was spoilt in one of the two ways named there.
SavedSound == SavedOnce /\ SavedWhole

\* The downlink keeps the promise of ImageTransfer: what is saved is one whole
\* picture, in order, and saved once, through losses, repeats and passes cut short.
\* It needs a capture to wait until the last image is settled.
TransferRefined == Transfer!Spec

\* Selective repeat converges: once the vehicle stays in DOWNLINK, an image the
\* ground has begun is completed, whatever of it is lost in between.
GapsFilled ==
    <>[]active => \A i \in 1..MaxCaptures : i \in DOMAIN images ~> i \notin DOMAIN images

==============================================================================
