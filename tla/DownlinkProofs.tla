--------------------------- MODULE DownlinkProofs ----------------------------
(***************************************************************************)
(* What Downlink promises at any time of capture, for any lengths of an    *)
(* image and any numbers of captures and power cycles: the task's count of *)
(* the chunks it was asked for is right, an image is saved once, and it is *)
(* one whole picture but for what a capture or a reset came between.       *)
(***************************************************************************)
EXTENDS Downlink, FiniteSetTheorems, SequenceTheorems, TLAPS

------------------------------------------------------------------------------
(* The inductive invariant.                                                *)

\* Parts of an image by their index, and the images being assembled by their id.
Parts == UNION {[D -> Chunk] : D \in SUBSET Nat}
Opens == UNION {[D -> [chunks : Nat, parts : Parts]] : D \in SUBSET (0..MaxCaptures)}
Kept  == [id : Nat, parts : Parts]

\* What the ground holds, and the chunk in the task's hands.
GroundTypeOK ==
    /\ images \in Opens
    /\ saved \in Seq(Kept)
    /\ done \in Seq(Nat \X Nat)
    /\ held \in Chunk

\* The task's own variables between its steps: it is in a pass exactly while chunks are
\* left to send, it fixes only an image it has not seen, and it sweeps only over one
\* that is not being sent.
PassOK ==
    /\ camState = "CAPTURING" => frameBytes = 0 /\ frameRead = 0
    /\ imageId <= seen
    /\ pc \in {"measure", "fix"} => seen < captureSeq
    /\ pc = "fix" => remaining > 0
    /\ chunks # 0 => chunk < chunks
    /\ pc = "read" => chunks # 0
    /\ pc \in {"sweep", "skim", "wait"} => chunks = 0
    /\ pc \in {"skim", "wait"} => idx < total
    /\ pc = "wait" => idx \in reqBits /\ Boot(held) = boot

BootsOf(parts) == {Boot(q) : q \in Range(parts)}

\* What was heard of a power cycle was sent in it, under the ids it has used so far.
HeardSound ==
    /\ \A i \in DOMAIN saved : \A b \in BootsOf(saved[i].parts) :
          b <= boot /\ (b = boot => saved[i].id <= imageId)
    /\ \A k \in DOMAIN images : \A b \in BootsOf(images[k].parts) :
          b <= boot /\ (b = boot => k <= imageId)

\* The image on the air is remembered once it is saved, and what is collected of a saved
\* image is of another power cycle.
Remembered ==
    /\ \A i \in DOMAIN saved :
          saved[i].id = imageId /\ boot \in BootsOf(saved[i].parts)
              => Contains(done, <<imageId, total>>)
    /\ \A k \in DOMAIN images, i \in DOMAIN saved :
          saved[i].id = k => BootsOf(saved[i].parts) \cap BootsOf(images[k].parts) = {}

DownInv ==
    /\ RequestsCounted
    /\ GroundTypeOK
    /\ PassOK
    /\ HeardSound
    /\ Remembered
    /\ SavedOnce

------------------------------------------------------------------------------
(* Typing: the camera and the task.                                        *)

\* The power-on state is of the right types.
LEMMA TaskTypeInit == Init => DownlinkTypeOK /\ PassOK /\ GroundTypeOK
<1> SUFFICES ASSUME Init PROVE DownlinkTypeOK /\ PassOK /\ GroundTypeOK
  OBVIOUS
<1>1. DownlinkTypeOK
  <2>1. reqQueue \in Seq(Word) /\ Len(reqQueue) <= ReqDepth
    BY DownlinkAssumption DEF Init, PowerOn
  <2>2. active \in BOOLEAN /\ idleHeard \in BOOLEAN
    BY DEF Init, PowerOn
  <2>3. camState = "IDLE" /\ captureSeq = 0 /\ frameBytes = 0 /\ frameRead = 0 /\ boot = 0
        /\ imageId = 0 /\ seen = 0 /\ chunks = 0 /\ total = 0 /\ chunk = 0 /\ remaining = 0
        /\ idx = 0 /\ pc = "top"
    BY DEF Init, PowerOn, CameraInit
  <2> QED  BY <2>1, <2>2, <2>3, DownlinkAssumption DEF DownlinkTypeOK, CamState, FrameReady
<1>2. PassOK
  BY DEF Init, PowerOn, CameraInit, PassOK
<1>3. held \in Chunk
  BY DEF Init, PowerOn, NoChunk, Chunk
<1>4. images \in Opens
  <2>1. images = [i \in {} |-> i]
    BY DEF Init, AssemblerInit
  <2> QED  BY <2>1 DEF Opens
<1>5. saved \in Seq(Kept) /\ done \in Seq(Nat \X Nat)
  BY DEF Init, AssemblerInit
<1> QED  BY <1>1, <1>2, <1>3, <1>4, <1>5 DEF GroundTypeOK

\* A request's words are words, and the queue keeps its bound.
LEMMA RequestTyped ==
    ASSUME DownlinkTypeOK, GroundTypeOK, Request
    PROVE  reqQueue' \in Seq(Word) /\ Len(reqQueue') <= ReqDepth
<1>0. PICK i \in DOMAIN images :
        \E n \in 0..RequestMax : \E b \in [1..n -> Missing(i)] :
           reqQueue' = Queued([k \in DOMAIN b |-> <<i, b[k]>>])
  BY DEF Request
<1>00. PICK n \in 0..RequestMax : \E b \in [1..n -> Missing(i)] :
        reqQueue' = Queued([k \in DOMAIN b |-> <<i, b[k]>>])
  BY <1>0
<1>1. PICK b \in [1..n -> Missing(i)] : reqQueue' = Queued([k \in DOMAIN b |-> <<i, b[k]>>])
  BY <1>00
<1> DEFINE words == [k \in DOMAIN b |-> <<i, b[k]>>]
           both == reqQueue \o words
<1>2. i \in 0..MaxCaptures
  BY DEF GroundTypeOK, Opens
<1>3. n \in Nat /\ DOMAIN b = 1..n /\ \A k \in 1..n : b[k] \in Nat
  BY AssemblerAssumption DEF Missing
<1>4. words \in Seq(Word)
  <2>1. \A k \in 1..n : <<i, b[k]>> \in Word
    BY <1>2, <1>3 DEF Word
  <2>2. words \in [1..n -> Word]
    BY <1>3, <2>1
  <2> QED  BY <1>3, <2>2
<1>5. both \in Seq(Word)
  BY <1>4 DEF DownlinkTypeOK
<1> HIDE DEF both
<1>6. reqQueue' = IF Len(both) <= ReqDepth THEN both ELSE SubSeq(both, 1, ReqDepth)
  BY <1>1 DEF Queued, both
<1>7. CASE Len(both) <= ReqDepth
  BY <1>5, <1>6, <1>7
<1>8. CASE ~(Len(both) <= ReqDepth)
  <2>1. ReqDepth \in Nat /\ Len(both) \in Nat /\ ReqDepth \in 1..(Len(both) + 1)
    BY <1>5, <1>8, DownlinkAssumption
  <2>2. SubSeq(both, 1, ReqDepth) \in Seq(Word) /\ Len(SubSeq(both, 1, ReqDepth)) = ReqDepth
    BY <1>5, <1>8, <2>1, SubSeqProperties
  <2> QED  BY <1>6, <1>8, <2>1, <2>2
<1> QED  BY <1>7, <1>8

\* The camera's operations keep a frame readable exactly when some of it is unread.
LEMMA CameraTyped ==
    ASSUME DownlinkTypeOK, PassOK,
           \/ CaptureStart /\ captureSeq < MaxCaptures
           \/ CapturePoll
           \/ Rewind
           \/ ReadChunk
    PROVE  /\ camState' \in CamState
           /\ captureSeq' \in 0..MaxCaptures /\ captureSeq' >= captureSeq
           /\ frameBytes' \in Sizes \cup {0} /\ frameRead' \in 0..frameBytes'
           /\ FrameReady' <=> frameRead' < frameBytes'
           /\ camState' = "CAPTURING" => frameBytes' = 0 /\ frameRead' = 0
<1> USE DownlinkAssumption, CameraAssumption
<1> USE DEF DownlinkTypeOK, PassOK, CamState, FrameReady
<1>1. CASE CaptureStart /\ captureSeq < MaxCaptures
  BY <1>1 DEF CaptureStart
<1>2. CASE CapturePoll
  <2>1. frameBytes = 0 /\ frameRead = 0 /\ frameRead' = 0 /\ captureSeq' = captureSeq
    BY <1>2 DEF CapturePoll
  <2>2. CASE camState' = "READY" /\ frameBytes' \in Sizes
    BY <2>1, <2>2
  <2>3. CASE camState' = "FAILED" /\ frameBytes' = frameBytes
    BY <2>1, <2>3
  <2> QED  BY <1>2, <2>2, <2>3 DEF CapturePoll
<1>3. CASE Rewind
  BY <1>3 DEF Rewind, CanRewind
<1>4. CASE ReadChunk
  <2>1. FrameReady /\ frameRead < frameBytes /\ frameBytes \in Nat /\ frameRead \in Nat
    BY <1>4 DEF ReadChunk, Remaining
  <2>2. frameRead' = frameRead + 1 /\ frameBytes' = frameBytes /\ captureSeq' = captureSeq
        /\ camState' = IF frameRead + 1 >= frameBytes THEN "IDLE" ELSE "READY"
    BY <1>4 DEF ReadChunk
  <2> QED  BY <2>1, <2>2
<1> QED  BY <1>1, <1>2, <1>3, <1>4

\* The task and the control task keep the types and the shape of a pass.
LEMMA TaskTypeNext ==
    ASSUME DownlinkTypeOK, PassOK, GroundTypeOK, [Next]_vars
    PROVE  DownlinkTypeOK' /\ PassOK'
<1> USE DownlinkAssumption, CameraAssumption
<1> USE DEF DownlinkTypeOK, PassOK, cameraVars, passVars, reqVars, FrameReady, Boot
<1>1. ASSUME NEW b \in BOOLEAN, SetActive(b)
      PROVE  DownlinkTypeOK' /\ PassOK'
  BY <1>1 DEF SetActive
<1>2. ASSUME NEW room \in BOOLEAN, Top(room)
      PROVE  DownlinkTypeOK' /\ PassOK'
  BY <1>2 DEF Top
<1>3. ASSUME Ready
      PROVE  DownlinkTypeOK' /\ PassOK'
  BY <1>3 DEF Ready
<1>4. ASSUME Fresh
      PROVE  DownlinkTypeOK' /\ PassOK'
  BY <1>4 DEF Fresh
<1>5. ASSUME Measure
      PROVE  DownlinkTypeOK' /\ PassOK'
  BY <1>5 DEF Measure, Remaining
<1>6. ASSUME Fix
      PROVE  DownlinkTypeOK' /\ PassOK'
  BY <1>6 DEF Fix
<1>7. ASSUME SendNothing
      PROVE  DownlinkTypeOK' /\ PassOK'
  BY <1>7 DEF SendNothing, Remaining
<1>8. ASSUME Drain
      PROVE  DownlinkTypeOK' /\ PassOK'
  BY <1>8 DEF Drain
<1>9. ASSUME ServeNothing
      PROVE  DownlinkTypeOK' /\ PassOK'
  BY <1>9 DEF ServeNothing
<1>10. ASSUME Sweep
      PROVE  DownlinkTypeOK' /\ PassOK'
  BY <1>10 DEF Sweep
<1>11. ASSUME SkimNothing
      PROVE  DownlinkTypeOK' /\ PassOK'
  BY <1>11 DEF SkimNothing
<1>12. ASSUME Abandon
      PROVE  DownlinkTypeOK' /\ PassOK'
  BY <1>12 DEF Abandon, NoChunk
<1>13. ASSUME NEW heard \in BOOLEAN, Rest(heard)
      PROVE  DownlinkTypeOK' /\ PassOK'
  BY <1>13 DEF Rest
<1>14. ASSUME Quiet
      PROVE  DownlinkTypeOK' /\ PassOK'
  BY <1>14 DEF Quiet, taskVars
<1>15. ASSUME NEW heard \in BOOLEAN, Resend(heard)
      PROVE  DownlinkTypeOK' /\ PassOK'
  BY <1>15 DEF Resend, NoChunk
<1>16. ASSUME Reboot
      PROVE  DownlinkTypeOK' /\ PassOK'
  <2>1. reqQueue' \in Seq(Word) /\ Len(reqQueue') <= ReqDepth
    BY <1>16 DEF Reboot
  <2>2. active' \in BOOLEAN /\ idleHeard' \in BOOLEAN
    BY <1>16 DEF Reboot
  <2>3. camState' = "IDLE" /\ captureSeq' = 0 /\ frameBytes' = 0 /\ frameRead' = 0
        /\ boot' = boot + 1 /\ boot < MaxBoots
        /\ imageId' = 0 /\ seen' = 0 /\ chunks' = 0 /\ total' = 0 /\ chunk' = 0 /\ remaining' = 0
        /\ idx' = 0 /\ pc' = "top"
    BY <1>16 DEF Reboot
  <2> QED  BY <2>1, <2>2, <2>3 DEF CamState
<1>17. ASSUME Capture
       PROVE  DownlinkTypeOK' /\ PassOK'
  BY <1>17, CameraTyped DEF Capture, taskVars, CaptureStart
<1>18. ASSUME Poll
       PROVE  DownlinkTypeOK' /\ PassOK'
  BY <1>18, CameraTyped DEF Poll, taskVars, CapturePoll
<1>19. ASSUME NEW heard \in BOOLEAN, SendChunk(heard)
       PROVE  DownlinkTypeOK' /\ PassOK'
  BY <1>19, CameraTyped DEF SendChunk, ReadChunk
<1>20. ASSUME ServeRewound
       PROVE  DownlinkTypeOK' /\ PassOK'
  BY <1>20, CameraTyped DEF ServeRewound, Rewind, MayServe
<1>21. ASSUME Skim
       PROVE  DownlinkTypeOK' /\ PassOK'
  BY <1>21, CameraTyped DEF Skim, ReadChunk, NextChunk
<1>22. ASSUME Request
       PROVE  DownlinkTypeOK' /\ PassOK'
  BY <1>22, RequestTyped DEF Request
<1>23. CASE UNCHANGED vars
  BY <1>23 DEF vars, taskVars
<1> QED
  BY <1>1, <1>2, <1>3, <1>4, <1>5, <1>6, <1>7, <1>8, <1>9, <1>10, <1>11, <1>12, <1>13, <1>14, <1>15,
     <1>16, <1>17, <1>18, <1>19, <1>20, <1>21, <1>22, <1>23 DEF Next, Task

------------------------------------------------------------------------------
(* What the ground makes of a chunk.                                       *)

\* The chunk on the air: of the image being sent, and of this power cycle.
OnAir(p) ==
    /\ p.id = imageId /\ p.chunks = total /\ p.chunk \in Nat /\ p.data \in Chunk
    /\ Boot(p.data) = boot

\* Parts with one more.
With(old, p) == [c \in DOMAIN old \cup {p.chunk} |-> IF c = p.chunk THEN p.data ELSE old[c]]

\* Push in the terms of the proofs.
LEMMA PushCases ==
    ASSUME GroundTypeOK, DownlinkTypeOK, PassOK, NEW p, OnAir(p), Push(p)
    PROVE  /\ Collected(p) \in Parts /\ With(Collected(p), p) \in Parts
           /\ p.id \in 0..MaxCaptures /\ p.chunks \in Nat
           /\ \/ IsDone(p) /\ UNCHANGED assemblerVars
              \/ /\ ~IsDone(p)
                 /\ images' = [i \in DOMAIN images \ {p.id} |-> images[i]]
                 /\ done' = Remember(<<p.id, p.chunks>>)
                 /\ saved' = Append(saved, [id |-> p.id, parts |-> With(Collected(p), p)])
              \/ /\ ~IsDone(p)
                 /\ images' = [i \in DOMAIN images \cup {p.id} |->
                                 IF i = p.id
                                   THEN [chunks |-> p.chunks, parts |-> With(Collected(p), p)]
                                 ELSE images[i]]
                 /\ UNCHANGED <<done, saved>>
<1>1. p.id \in 0..MaxCaptures /\ p.chunks \in Nat
  BY DownlinkAssumption DEF OnAir, DownlinkTypeOK, PassOK
<1>2. Collected(p) \in Parts
  <2>1. CASE p.id \in DOMAIN images
    <3>1. images[p.id].parts \in Parts
      BY <2>1 DEF GroundTypeOK, Opens
    <3>2. <<>> \in Parts
      <4>1. <<>> = [c \in {} |-> c]
        OBVIOUS
      <4> QED  BY <4>1 DEF Parts
    <3> QED  BY <3>1, <3>2 DEF Collected
  <2>2. CASE p.id \notin DOMAIN images
    <3>1. <<>> = [c \in {} |-> c]
      OBVIOUS
    <3> QED  BY <2>2, <3>1 DEF Collected, Parts
  <2> QED  BY <2>1, <2>2
<1>3. \A old \in Parts : With(old, p) \in Parts
  <2>1. SUFFICES ASSUME NEW old \in Parts
                 PROVE  With(old, p) \in Parts
    OBVIOUS
  <2>2. PICK D \in SUBSET Nat : old \in [D -> Chunk]
    BY DEF Parts
  <2>3. With(old, p) \in [D \cup {p.chunk} -> Chunk]
    BY <2>2 DEF With, OnAir
  <2>4. D \cup {p.chunk} \in SUBSET Nat
    BY DEF OnAir
  <2> QED  BY <2>3, <2>4 DEF Parts
<1>4. CASE IsDone(p)
  BY <1>1, <1>2, <1>3, <1>4 DEF Push
<1>5. CASE ~IsDone(p)
  BY <1>1, <1>2, <1>3, <1>5 DEF Push, With
<1> QED  BY <1>4, <1>5

\* The ground's records keep their types.
LEMMA PushTyped ==
    ASSUME GroundTypeOK, DownlinkTypeOK, PassOK, NEW p, OnAir(p), Push(p)
    PROVE  images' \in Opens /\ saved' \in Seq(Kept) /\ done' \in Seq(Nat \X Nat)
<1> DEFINE parts == With(Collected(p), p)
           pair  == <<p.id, p.chunks>>
<1>1. parts \in Parts /\ p.id \in 0..MaxCaptures /\ p.chunks \in Nat /\ pair \in Nat \X Nat
  <2>1. parts \in Parts /\ p.id \in 0..MaxCaptures /\ p.chunks \in Nat
    BY PushCases
  <2> HIDE DEF parts
  <2> QED  BY <2>1, DownlinkAssumption
<1>2. Remember(pair) \in Seq(Nat \X Nat)
  <2> DEFINE S == Nat \X Nat
  <2>1. done \in Seq(S) /\ pair \in S
    BY <1>1 DEF GroundTypeOK
  <2> HIDE DEF S, pair
  <2>2. Append(done, pair) \in Seq(S)
    BY <2>1
  <2>3. Len(done) = DoneKept => Append(Tail(done), pair) \in Seq(S)
    <3>1. SUFFICES ASSUME Len(done) = DoneKept
                   PROVE  Append(Tail(done), pair) \in Seq(S)
      OBVIOUS
    <3>2. done # <<>>
      BY <2>1, <3>1, AssemblerAssumption
    <3>3. Tail(done) \in Seq(S)
      BY <2>1, <3>2
    <3> QED  BY <2>1, <3>3
  <2> QED  BY <2>2, <2>3 DEF Remember, S
<1>3. PICK D \in SUBSET (0..MaxCaptures) : images \in [D -> [chunks : Nat, parts : Parts]]
  BY DEF GroundTypeOK, Opens
<1>4. CASE UNCHANGED assemblerVars
  BY <1>4 DEF assemblerVars, GroundTypeOK
<1>5. CASE /\ images' = [i \in DOMAIN images \ {p.id} |-> images[i]]
           /\ done' = Remember(pair)
           /\ saved' = Append(saved, [id |-> p.id, parts |-> parts])
  <2>1. [id |-> p.id, parts |-> parts] \in Kept
    BY <1>1 DEF Kept
  <2>2. saved' \in Seq(Kept)
    BY <1>5, <2>1 DEF GroundTypeOK
  <2>3. images' \in [D \ {p.id} -> [chunks : Nat, parts : Parts]]
    BY <1>3, <1>5
  <2>4. D \ {p.id} \in SUBSET (0..MaxCaptures)
    OBVIOUS
  <2>5. images' \in Opens
    BY <2>3, <2>4 DEF Opens
  <2> QED  BY <1>2, <1>5, <2>2, <2>5
<1>6. CASE /\ images' = [i \in DOMAIN images \cup {p.id} |->
                           IF i = p.id THEN [chunks |-> p.chunks, parts |-> parts] ELSE images[i]]
           /\ UNCHANGED <<done, saved>>
  <2>1. [chunks |-> p.chunks, parts |-> parts] \in [chunks : Nat, parts : Parts]
    BY <1>1
  <2>2. images' \in [D \cup {p.id} -> [chunks : Nat, parts : Parts]]
    <3> HIDE DEF parts
    <3> QED  BY <1>3, <1>6, <2>1
  <2>3. D \cup {p.id} \in SUBSET (0..MaxCaptures)
    BY <1>1
  <2>4. images' \in Opens
    BY <2>2, <2>3 DEF Opens
  <2> QED  BY <1>6, <2>4 DEF GroundTypeOK
<1> QED  BY <1>4, <1>5, <1>6, PushCases

\* The records the ground keeps are records.
LEMMA GroundTyped ==
    ASSUME GroundTypeOK
    PROVE  /\ \A i \in DOMAIN saved : saved[i].id \in Nat /\ saved[i].parts \in Parts
           /\ \A k \in DOMAIN images : k \in Nat /\ images[k].parts \in Parts
<1>1. \A i \in DOMAIN saved : saved[i] \in Kept
  BY DEF GroundTypeOK
<1>2. PICK D \in SUBSET (0..MaxCaptures) : images \in [D -> [chunks : Nat, parts : Parts]]
  BY DEF GroundTypeOK, Opens
<1>3. DOMAIN images = D /\ \A k \in D : k \in Nat /\ images[k] \in [chunks : Nat, parts : Parts]
  BY <1>2, DownlinkAssumption
<1>4. \A i \in DOMAIN saved : saved[i].id \in Nat /\ saved[i].parts \in Parts
  BY <1>1 DEF Kept
<1> QED  BY <1>3, <1>4

\* Power cycles are counted from zero.
LEMMA BootsNat ==
    ASSUME NEW parts \in Parts, NEW b \in BootsOf(parts)
    PROVE  b \in Nat
<1>1. PICK D \in SUBSET Nat : parts \in [D -> Chunk]
  BY DEF Parts
<1>2. PICK c \in D : b = Boot(parts[c])
  BY <1>1 DEF BootsOf, Range
<1>3. parts[c].frame \in Nat \X Nat
  BY <1>1 DEF Chunk
<1> QED  BY <1>2, <1>3 DEF Boot

\* The power cycles in the parts of an image, with one part more.
LEMMA BootsOfWith ==
    ASSUME NEW old \in Parts, NEW p, OnAir(p), NEW b \in BootsOf(With(old, p))
    PROVE  b \in BootsOf(old) \/ b = boot
<1>1. PICK q \in Range(With(old, p)) : b = Boot(q)
  BY DEF BootsOf
<1>2. PICK c \in DOMAIN old \cup {p.chunk} : q = IF c = p.chunk THEN p.data ELSE old[c]
  BY <1>1 DEF With, Range
<1>3. CASE c = p.chunk
  BY <1>1, <1>2, <1>3 DEF OnAir
<1>4. CASE c # p.chunk
  BY <1>1, <1>2, <1>4 DEF Range, BootsOf
<1> QED  BY <1>3, <1>4

\* What is remembered last is remembered.
LEMMA Remembering ==
    ASSUME GroundTypeOK, NEW pair \in Nat \X Nat
    PROVE  Contains(Remember(pair), pair)
<1> DEFINE S == Nat \X Nat
<1>1. done \in Seq(S) /\ pair \in S
  BY DEF GroundTypeOK
<1> HIDE DEF S
<1>2. \A s \in Seq(S) : Contains(Append(s, pair), pair)
  <2>1. SUFFICES ASSUME NEW s \in Seq(S)
                 PROVE  Contains(Append(s, pair), pair)
    OBVIOUS
  <2>2. /\ Len(s) + 1 \in 1..Len(Append(s, pair))
        /\ Append(s, pair)[Len(s) + 1] = pair
    BY <1>1
  <2> QED  BY <2>2 DEF Contains
<1>3. Len(done) = DoneKept => Tail(done) \in Seq(S)
  <2>1. SUFFICES ASSUME Len(done) = DoneKept
                 PROVE  Tail(done) \in Seq(S)
    OBVIOUS
  <2>2. done # <<>>
    BY <1>1, <2>1, AssemblerAssumption
  <2> QED  BY <1>1, <2>2
<1> QED  BY <1>1, <1>2, <1>3 DEF Remember

\* Whatever of the image on the air is heard, in whatever order, it is saved once.
LEMMA PushKeeps ==
    ASSUME GroundTypeOK, DownlinkTypeOK, PassOK, HeardSound, Remembered, SavedOnce,
           NEW p, OnAir(p), Push(p), boot' = boot, imageId' = imageId, total' = total
    PROVE  HeardSound' /\ Remembered' /\ SavedOnce'
<1> DEFINE old   == Collected(p)
           parts == With(old, p)
<1>1. /\ old \in Parts /\ parts \in Parts
      /\ p.id = imageId /\ p.chunks = total /\ imageId \in Nat /\ total \in Nat
      /\ boot \in Nat
  <2>1. old \in Parts /\ parts \in Parts
    BY PushCases
  <2>2. p.id = imageId /\ p.chunks = total
    BY DEF OnAir
  <2>3. imageId \in Nat /\ total \in Nat /\ boot \in Nat
    BY DownlinkAssumption DEF DownlinkTypeOK
  <2> QED  BY <2>1, <2>2, <2>3
<1>2. \A b \in BootsOf(parts) : b \in BootsOf(old) \/ b = boot
  BY <1>1, BootsOfWith
<1>3. \A b \in BootsOf(old) : imageId \in DOMAIN images /\ b \in BootsOf(images[imageId].parts)
  <2>1. BootsOf(<<>>) = {}
    BY DEF BootsOf, Range
  <2> QED  BY <1>1, <2>1 DEF Collected
<1>4. \A b \in BootsOf(parts) : b <= boot /\ (b = boot => imageId <= imageId)
  BY <1>1, <1>2, <1>3 DEF HeardSound
<1>5. CASE UNCHANGED assemblerVars
  BY <1>5 DEF assemblerVars, HeardSound, Remembered, SavedOnce
<1>6. ASSUME ~IsDone(p), NEW i \in DOMAIN saved, saved[i].id = imageId
      PROVE  BootsOf(saved[i].parts) \cap BootsOf(parts) = {}
  <2>1. boot \notin BootsOf(saved[i].parts)
    BY <1>1, <1>6 DEF IsDone, Remembered
  <2>2. \A b \in BootsOf(old) : b \notin BootsOf(saved[i].parts)
    BY <1>3, <1>6 DEF Remembered
  <2> HIDE DEF parts
  <2> QED  BY <1>2, <2>1, <2>2
<1>7. CASE /\ ~IsDone(p)
           /\ images' = [i \in DOMAIN images \ {p.id} |-> images[i]]
           /\ done' = Remember(<<p.id, p.chunks>>)
           /\ saved' = Append(saved, [id |-> p.id, parts |-> parts])
  <2> DEFINE n == Len(saved) + 1
  <2> HIDE DEF parts, old
  <2>0. [id |-> p.id, parts |-> parts] \in Kept
    BY <1>1 DEF Kept
  <2>1. /\ DOMAIN saved' = 1..n /\ DOMAIN saved = 1..(n - 1) /\ n \in Nat \ {0}
        /\ \A i \in DOMAIN saved : saved'[i] = saved[i]
        /\ saved'[n] = [id |-> p.id, parts |-> parts]
    BY <1>7, <2>0 DEF GroundTypeOK
  <2>2. saved'[n].id = imageId /\ saved'[n].parts = parts
    BY <1>1, <2>1
  <2>3. \A k \in DOMAIN images' : k # imageId /\ k \in DOMAIN images /\ images'[k] = images[k]
    BY <1>1, <1>7
  <2>4. \A i \in DOMAIN saved' : i \in DOMAIN saved \/ i = n
    BY <2>1
  <2>5. Contains(done', <<imageId, total>>)
    BY <1>1, <1>7, Remembering
  <2>6. HeardSound'
    <3>1. ASSUME NEW i \in DOMAIN saved', NEW b \in BootsOf(saved'[i].parts)
          PROVE  b <= boot /\ (b = boot => saved'[i].id <= imageId)
      <4>1. CASE i = n
        BY <1>1, <1>4, <2>2, <3>1, <4>1
      <4>2. CASE i # n
        BY <2>1, <2>4, <3>1, <4>2 DEF HeardSound
      <4> QED  BY <4>1, <4>2
    <3>2. ASSUME NEW k \in DOMAIN images', NEW b \in BootsOf(images'[k].parts)
          PROVE  b <= boot /\ (b = boot => k <= imageId)
      BY <2>3, <3>2 DEF HeardSound
    <3> QED  BY <3>1, <3>2 DEF HeardSound, BootsOf, Boot
  <2>7. Remembered'
    <3>1. ASSUME NEW k \in DOMAIN images', NEW i \in DOMAIN saved', saved'[i].id = k
          PROVE  BootsOf(saved'[i].parts) \cap BootsOf(images'[k].parts) = {}
      <4>1. i # n
        BY <2>2, <2>3, <3>1
      <4> QED  BY <2>1, <2>3, <2>4, <3>1, <4>1 DEF Remembered
    <3> QED  BY <2>5, <3>1 DEF Remembered, BootsOf, Boot
  <2>8. SavedOnce'
    <3>1. ASSUME NEW i \in DOMAIN saved', NEW j \in DOMAIN saved', i < j,
                 saved'[i].id = saved'[j].id
          PROVE  BootsOf(saved'[i].parts) \cap BootsOf(saved'[j].parts) = {}
      <4>1. i \in DOMAIN saved
        BY <2>1, <3>1
      <4>2. CASE j = n
        BY <1>6, <1>7, <2>1, <2>2, <3>1, <4>1, <4>2
      <4>3. CASE j # n
        BY <2>1, <2>4, <3>1, <4>1, <4>3 DEF SavedOnce, BootsOf
      <4> QED  BY <4>2, <4>3
    <3> QED  BY <3>1 DEF SavedOnce, BootsOf, Boot
  <2> QED  BY <2>6, <2>7, <2>8
<1>8. CASE /\ ~IsDone(p)
           /\ images' = [i \in DOMAIN images \cup {p.id} |->
                           IF i = p.id THEN [chunks |-> p.chunks, parts |-> parts] ELSE images[i]]
           /\ UNCHANGED <<done, saved>>
  <2> HIDE DEF parts, old
  <2>1. DOMAIN images' = DOMAIN images \cup {imageId} /\ images'[imageId].parts = parts
    BY <1>1, <1>8
  <2>2. \A k \in DOMAIN images' : k # imageId => k \in DOMAIN images /\ images'[k] = images[k]
    BY <1>1, <1>8
  <2>3. ASSUME NEW k \in DOMAIN images', NEW b \in BootsOf(images'[k].parts)
        PROVE  b <= boot /\ (b = boot => k <= imageId)
    <3>1. CASE k = imageId
      BY <1>1, <1>4, <2>1, <2>3, <3>1
    <3>2. CASE k # imageId
      BY <2>2, <2>3, <3>2 DEF HeardSound
    <3> QED  BY <3>1, <3>2
  <2>4. ASSUME NEW k \in DOMAIN images', NEW i \in DOMAIN saved, saved[i].id = k
        PROVE  BootsOf(saved[i].parts) \cap BootsOf(images'[k].parts) = {}
    <3>1. CASE k = imageId
      BY <1>6, <1>8, <2>1, <2>4, <3>1
    <3>2. CASE k # imageId
      BY <2>2, <2>4, <3>2 DEF Remembered
    <3> QED  BY <3>1, <3>2
  <2>5. saved' = saved /\ done' = done
    BY <1>8
  <2>6. HeardSound'
    BY <2>3, <2>5 DEF HeardSound, BootsOf, Boot
  <2>7. Remembered'
    BY <2>4, <2>5 DEF Remembered, BootsOf, Boot
  <2>8. SavedOnce'
    BY <2>5 DEF SavedOnce, Boot
  <2> QED  BY <2>6, <2>7, <2>8
<1> QED  BY <1>5, <1>7, <1>8, PushCases

\* An emission, heard or lost, of a chunk of this power cycle.
LEMMA EmitKeeps ==
    ASSUME DownInv, NEW c \in Nat, NEW data \in Chunk, Boot(data) = boot,
           NEW heard \in BOOLEAN, Emit(c, data, heard),
           boot' = boot, imageId' = imageId, total' = total, held' \in Chunk
    PROVE  GroundTypeOK' /\ HeardSound' /\ Remembered' /\ SavedOnce'
<1> USE DEF DownInv, RequestsCounted
<1>1. CASE heard = TRUE
  <2> DEFINE p == Emitted(c, data)
  <2>1. OnAir(p)
    BY DEF OnAir, Emitted
  <2>2. Push(p)
    BY <1>1 DEF Emit
  <2> HIDE DEF p
  <2>3. images' \in Opens /\ saved' \in Seq(Kept) /\ done' \in Seq(Nat \X Nat)
    BY <2>1, <2>2, PushTyped
  <2>4. HeardSound' /\ Remembered' /\ SavedOnce'
    BY <2>1, <2>2, PushKeeps
  <2> QED  BY <2>3, <2>4 DEF GroundTypeOK
<1>2. CASE heard # TRUE
  <2>1. images' = images /\ saved' = saved /\ done' = done
    BY <1>2 DEF Emit, assemblerVars
  <2> QED  BY <2>1 DEF GroundTypeOK, HeardSound, Remembered, SavedOnce, BootsOf, Boot
<1> QED  BY <1>1, <1>2

\* The other steps of the task and of the control task leave the ground alone, and what
\* is on the air; a power cycle and a new image put what is heard behind them.
LEMMA GroundNext ==
    ASSUME DownInv, [Next]_vars
    PROVE  GroundTypeOK' /\ HeardSound' /\ Remembered' /\ SavedOnce'
<1> USE DEF DownInv, RequestsCounted, cameraVars, assemblerVars, taskVars, passVars, reqVars
<1>0. NoChunk \in Chunk /\ NextChunk \in Chunk /\ Boot(NextChunk) = boot /\ chunk \in Nat
      /\ imageId \in Nat /\ boot \in Nat /\ total \in Nat /\ held \in Chunk
  <2>1. boot \in Nat /\ captureSeq \in Nat /\ frameRead \in Nat /\ frameBytes \in Nat
        /\ chunk \in Nat /\ imageId \in Nat /\ total \in Nat
    BY DownlinkAssumption, CameraAssumption DEF DownlinkTypeOK
  <2>2. NextChunk \in Chunk /\ Boot(NextChunk) = boot
    BY <2>1 DEF NextChunk, Chunk, Boot
  <2> QED  BY <2>1, <2>2 DEF NoChunk, Chunk, GroundTypeOK
<1>1. ASSUME UNCHANGED <<assemblerVars, boot, imageId, total>>, held' \in Chunk
      PROVE  GroundTypeOK' /\ HeardSound' /\ Remembered' /\ SavedOnce'
  BY <1>1 DEF GroundTypeOK, HeardSound, Remembered, SavedOnce, BootsOf, Boot
<1>2. ASSUME NEW heard \in BOOLEAN, SendChunk(heard)
      PROVE  GroundTypeOK' /\ HeardSound' /\ Remembered' /\ SavedOnce'
  <2>1. /\ Emit(chunk, NextChunk, heard)
        /\ boot' = boot /\ imageId' = imageId /\ total' = total /\ held' = held
    BY <1>2 DEF SendChunk, ReadChunk
  <2> QED  BY <1>0, <2>1, EmitKeeps
<1>3. ASSUME NEW heard \in BOOLEAN, Resend(heard)
      PROVE  GroundTypeOK' /\ HeardSound' /\ Remembered' /\ SavedOnce'
  <2>1. /\ Emit(idx, held, heard) /\ pc = "wait"
        /\ boot' = boot /\ imageId' = imageId /\ total' = total /\ held' = NoChunk
    BY <1>3 DEF Resend
  <2>2. idx \in Nat /\ Boot(held) = boot
    BY <2>1 DEF PassOK, DownlinkTypeOK
  <2> QED  BY <1>0, <2>1, <2>2, EmitKeeps
<1>4. CASE Fix
  <2>1. /\ images' = images /\ saved' = saved /\ done' = done /\ held' = held /\ boot' = boot
        /\ imageId' = imageId + 1
    BY <1>4 DEF Fix
  <2>2. GroundTypeOK' /\ SavedOnce'
    BY <2>1 DEF GroundTypeOK, SavedOnce, Boot
  <2>3. HeardSound'
    <3>1. \A i \in DOMAIN saved : saved[i].id \in Nat
      BY GroundTyped
    <3>2. \A k \in DOMAIN images : k \in Nat
      BY GroundTyped
    <3>3. \A n \in Nat : n <= imageId => n <= imageId + 1
      BY <1>0
    <3> QED  BY <2>1, <3>1, <3>2, <3>3 DEF HeardSound, BootsOf, Boot
  <2>4. Remembered'
    <3>1. \A i \in DOMAIN saved : boot \in BootsOf(saved[i].parts) => saved[i].id # imageId + 1
      BY <1>0 DEF HeardSound
    <3> QED  BY <2>1, <3>1 DEF Remembered, BootsOf, Boot
  <2> QED  BY <2>2, <2>3, <2>4
<1>5. CASE Reboot
  <2>1. /\ images' = images /\ saved' = saved /\ done' = done /\ held' = NoChunk
        /\ boot' = boot + 1
    BY <1>5 DEF Reboot
  <2>2. GroundTypeOK' /\ SavedOnce'
    BY <1>0, <2>1 DEF GroundTypeOK, SavedOnce, Boot
  <2>3. /\ \A i \in DOMAIN saved : \A b \in BootsOf(saved[i].parts) :
             b <= boot + 1 /\ b # boot + 1
        /\ \A k \in DOMAIN images : \A b \in BootsOf(images[k].parts) :
             b <= boot + 1 /\ b # boot + 1
    <3>1. \A i \in DOMAIN saved : \A b \in BootsOf(saved[i].parts) : b \in Nat
      BY GroundTyped, BootsNat
    <3>2. \A k \in DOMAIN images : \A b \in BootsOf(images[k].parts) : b \in Nat
      BY GroundTyped, BootsNat
    <3>3. \A b \in Nat : b <= boot => b <= boot + 1 /\ b # boot + 1
      BY <1>0
    <3> QED  BY <3>1, <3>2, <3>3 DEF HeardSound
  <2>4. HeardSound'
    BY <2>1, <2>3 DEF HeardSound, BootsOf, Boot
  <2>5. Remembered'
    BY <2>1, <2>3 DEF Remembered, BootsOf, Boot
  <2> QED  BY <2>2, <2>4, <2>5
<1>6. CASE \/ \E b \in BOOLEAN : SetActive(b)
           \/ Capture \/ Poll \/ Request \/ Quiet
           \/ UNCHANGED vars
  <2>1. held' = held /\ UNCHANGED <<assemblerVars, boot, imageId, total>>
    BY <1>6 DEF SetActive, Capture, CaptureStart, Poll, CapturePoll, Request, Quiet, vars
  <2> QED  BY <1>0, <1>1, <2>1
<1>7. CASE \/ \E room \in BOOLEAN : Top(room)
           \/ Ready \/ Fresh \/ Measure \/ SendNothing \/ Drain \/ ServeNothing \/ ServeRewound
           \/ Sweep \/ Skim \/ SkimNothing \/ Abandon
           \/ \E heard \in BOOLEAN : Rest(heard)
  <2>1. UNCHANGED <<assemblerVars, boot, imageId, total>>
    BY <1>7 DEF Top, Ready, Fresh, Measure, SendNothing, Drain, ServeNothing, ServeRewound,
                Rewind, Sweep, Skim, ReadChunk, SkimNothing, Abandon, Rest
  <2>2. held' \in {held, NoChunk, NextChunk}
    BY <1>7 DEF Top, Ready, Fresh, Measure, SendNothing, Drain, ServeNothing, ServeRewound,
                Sweep, Skim, SkimNothing, Abandon, Rest
  <2> QED  BY <1>0, <1>1, <2>1, <2>2
<1> QED
  BY <1>2, <1>3, <1>4, <1>5, <1>6, <1>7 DEF Next, Task

------------------------------------------------------------------------------
(* The count of requested chunks.                                          *)

\* Every step keeps the count of the chunks asked for.
LEMMA CountNext ==
    ASSUME DownInv, [Next]_vars
    PROVE  reqCount' = Cardinality(reqBits') /\ reqBits' \subseteq 0..(total' - 1)
<1> USE DEF DownInv, RequestsCounted, cameraVars, assemblerVars, taskVars, passVars, reqVars
<1>0. /\ total \in Nat /\ imageId \in Nat
      /\ IsFiniteSet(reqBits) /\ reqCount \in Nat
  <2>1. total \in Nat /\ imageId \in Nat
    BY DEF DownlinkTypeOK
  <2>2. IsFiniteSet(0..(total - 1))
    BY <2>1, FS_Interval
  <2>3. IsFiniteSet(reqBits)
    BY <2>2, FS_Subset
  <2> QED  BY <2>1, <2>3, FS_CardinalityType
<1>1. CASE Fix \/ Reboot
  <2>1. reqBits' = {} /\ reqCount' = 0
    BY <1>1 DEF Fix, Reboot
  <2> QED  BY <2>1, FS_EmptySet
<1>2. CASE Drain
  <2>1. Wanted \subseteq 0..(total - 1)
    <3>1. SUFFICES ASSUME NEW w \in Range(reqQueue), w[2] < total
                   PROVE  w[2] \in 0..(total - 1)
      BY DEF Wanted
    <3>2. w[2] \in Nat
      BY DEF DownlinkTypeOK, Range, Word
    <3> QED  BY <1>0, <3>1, <3>2
  <2> DEFINE New == Wanted \ reqBits
  <2>2. IsFiniteSet(New)
    <3>1. IsFiniteSet(0..(total - 1))
      BY <1>0, FS_Interval
    <3>2. New \subseteq 0..(total - 1)
      BY <2>1
    <3> QED  BY <3>1, <3>2, FS_Subset
  <2>3. reqBits' = reqBits \cup New /\ reqCount' = reqCount + Cardinality(New)
        /\ total' = total
    BY <1>2 DEF Drain
  <2>4. reqBits \cap New = {}
    OBVIOUS
  <2>5. reqBits' \subseteq 0..(total' - 1)
    BY <2>1, <2>3
  <2> HIDE DEF New
  <2>6. Cardinality(reqBits \cup New)
          = Cardinality(reqBits) + Cardinality(New) - Cardinality(reqBits \cap New)
    BY <1>0, <2>2, FS_Union
  <2>7. Cardinality(reqBits \cap New) = 0
    BY <2>4, FS_EmptySet
  <2>8. Cardinality(New) \in Nat
    BY <2>2, FS_CardinalityType
  <2> QED  BY <1>0, <2>3, <2>5, <2>6, <2>7, <2>8
<1>3. ASSUME NEW heard \in BOOLEAN, Resend(heard)
      PROVE  reqCount' = Cardinality(reqBits') /\ reqBits' \subseteq 0..(total' - 1)
  <2>1. reqBits' = reqBits \ {idx} /\ reqCount' = reqCount - 1 /\ total' = total /\ pc = "wait"
    BY <1>3 DEF Resend
  <2>2. idx \in reqBits
    BY <2>1 DEF PassOK
  <2>3. Cardinality(reqBits \ {idx}) = Cardinality(reqBits) - 1
    BY <1>0, <2>2, FS_RemoveElement
  <2> QED  BY <2>1, <2>3
<1>4. CASE \/ \E b \in BOOLEAN : SetActive(b)
           \/ Capture \/ Poll \/ Request \/ Quiet
           \/ \E room \in BOOLEAN : Top(room)
           \/ Ready \/ Fresh \/ Measure
           \/ \E heard \in BOOLEAN : SendChunk(heard)
           \/ SendNothing \/ ServeNothing \/ ServeRewound \/ Sweep \/ Skim \/ SkimNothing
           \/ Abandon
           \/ \E heard \in BOOLEAN : Rest(heard)
           \/ UNCHANGED vars
  <2>1. UNCHANGED <<reqBits, reqCount, total>>
    BY <1>4 DEF SetActive, Capture, Poll, Request, Quiet, Top, Ready, Fresh, Measure, SendChunk,
                SendNothing, ServeNothing, ServeRewound, Sweep, Skim, SkimNothing, Abandon, Rest,
                vars
  <2> QED  BY <2>1
<1> QED
  BY <1>1, <1>2, <1>3, <1>4 DEF Next, Task

------------------------------------------------------------------------------
(* The theorems.                                                           *)

\* The invariant holds from power-on and through every step.
LEMMA DownInvHolds == Spec => []DownInv
<1>1. Init => DownInv
  <2> SUFFICES ASSUME Init PROVE DownInv
    OBVIOUS
  <2>1. DownlinkTypeOK /\ PassOK /\ GroundTypeOK
    BY TaskTypeInit
  <2>2. reqCount = Cardinality(reqBits) /\ reqBits \subseteq 0..(total - 1)
    BY FS_EmptySet DEF Init, PowerOn
  <2>3. images = <<>> /\ saved = <<>>
    BY DEF Init, AssemblerInit
  <2>4. HeardSound /\ Remembered /\ SavedOnce
    BY <2>3 DEF HeardSound, Remembered, SavedOnce
  <2> QED  BY <2>1, <2>2, <2>4 DEF DownInv, RequestsCounted
<1>2. DownInv /\ [Next]_vars => DownInv'
  <2> SUFFICES ASSUME DownInv, [Next]_vars PROVE DownInv'
    OBVIOUS
  <2>1. DownlinkTypeOK' /\ PassOK'
    BY TaskTypeNext DEF DownInv, RequestsCounted
  <2> QED  BY <2>1, GroundNext, CountNext DEF DownInv, RequestsCounted
<1> QED  BY <1>1, <1>2, PTL DEF Spec

\* Through duplicate requests, superseded images, abandoned sweeps and power cycles the
\* count of requested chunks is the number of bits set (drain_requests, serve_requests).
THEOREM RequestsStayCounted == Spec => []RequestsCounted
<1>1. DownInv => RequestsCounted
  BY DEF DownInv
<1> QED  BY <1>1, DownInvHolds, PTL

\* Whenever pictures are taken and whatever is resent, the ground saves an image once
\* (Assembler.push and its memory of finished images).
THEOREM SavedOnlyOnce == Spec => []SavedOnce
<1>1. DownInv => SavedOnce
  BY DEF DownInv
<1> QED  BY <1>1, DownInvHolds, PTL

------------------------------------------------------------------------------
(* What the ground saves is one whole picture, unless a capture or a reset   *)
(* spoilt the image.                                                         *)

Clean(i) == <<boot, i>> \notin spoilt

\* Part c of the image on the air.
Piece(c) == [frame |-> <<boot, seen>>, pos |-> c, of |-> total]

\* While a newer frame waits for its pass nothing of the last image is to come, and the
\* new frame is read from its beginning, unless the capture spoilt both their images.
Waiting ==
    captureSeq # seen /\ (Clean(imageId) \/ Clean(imageId + 1)) =>
       /\ frameRead = 0
       /\ chunks = 0 /\ reqCount = 0
       /\ pc \notin {"sweep", "skim", "wait"}
       /\ imageId \notin DOMAIN images
       /\ \A w \in Range(reqQueue) : w[1] # imageId
       /\ pc = "fix" => FrameReady /\ remaining = frameBytes

\* The frame in the FIFO is the one on the air and the task reads it in step with its
\* own count, in a pass and in a sweep.
InStep ==
    captureSeq = seen /\ Clean(imageId) =>
       /\ frameBytes = total /\ camState \in {"READY", "IDLE"}
       /\ chunks # 0 => chunk = frameRead
       /\ pc \in {"sweep", "skim"} => idx = frameRead
       /\ pc = "wait" => frameRead = idx + 1 /\ held = Piece(idx)

FrameOnAir ==
    /\ total # 0 => seen > 0
    /\ Waiting
    /\ InStep

\* What is gathered under the id on the air is of its image, each part at its place, and
\* under the ids to come there is only what a reset left open.
Gathered ==
    /\ \A k \in DOMAIN images : k > imageId => ~Clean(k)
    /\ imageId \in DOMAIN images /\ Clean(imageId) =>
          LET parts == images[imageId].parts
          IN /\ DOMAIN parts \subseteq 0..(total - 1)
             /\ \A c \in DOMAIN parts : parts[c] = Piece(c)

WholeInv == DownInv /\ FrameOnAir /\ Gathered /\ SavedWhole

\* The types the steps below keep needing.
LEMMA WholeTyped ==
    ASSUME DownInv
    PROVE  /\ imageId \in Nat /\ total \in Nat /\ seen \in Nat /\ captureSeq \in Nat
           /\ chunk \in Nat /\ idx \in Nat /\ frameRead \in Nat /\ frameBytes \in Nat
           /\ frameBytes \in Sizes \cup {0} /\ seen <= captureSeq /\ chunks \in {0, total}
           /\ remaining \in Nat /\ boot \in 0..MaxBoots /\ captureSeq \in 0..MaxCaptures
           /\ boot \in Nat
  BY DownlinkAssumption, CameraAssumption DEF DownInv, RequestsCounted, DownlinkTypeOK

\* What is saved stays saved, and spoilt what is spoilt.
LEMMA SavedStays ==
    ASSUME SavedWhole, saved' = saved, spoilt \subseteq spoilt'
    PROVE  SavedWhole'
<1>1. ASSUME NEW i \in DOMAIN saved
      PROVE  \/ \E q \in Range(saved[i].parts) : <<Boot(q), saved[i].id>> \in spoilt'
             \/ \E f \in (0..MaxBoots) \X (1..MaxCaptures), m \in Sizes :
                   saved[i].parts = Transfer!Picture(f, m)
  <2>1. CASE \E q \in Range(saved[i].parts) : <<Boot(q), saved[i].id>> \in spoilt
    BY <2>1
  <2>2. CASE \E f \in (0..MaxBoots) \X (1..MaxCaptures), m \in Sizes :
                saved[i].parts = Transfer!Picture(f, m)
    BY <2>2
  <2> QED  BY <2>1, <2>2 DEF SavedWhole
<1>2. SavedWhole' <=>
        \A i \in DOMAIN saved' :
           \/ \E q \in Range(saved'[i].parts) : <<Boot(q), saved'[i].id>> \in spoilt'
           \/ \E f \in (0..MaxBoots) \X (1..MaxCaptures), m \in Sizes :
                 saved'[i].parts = Transfer!Picture(f, m)
  BY DEF SavedWhole, Transfer!Picture, Boot
<1> QED  BY <1>1, <1>2

\* A request brings words for one open image only.
LEMMA RequestedWords ==
    ASSUME DownInv, Request, NEW j \in Nat, j \notin DOMAIN images,
           \A w \in Range(reqQueue) : w[1] # j
    PROVE  \A w \in Range(reqQueue') : w[1] # j
<1>0. PICK i \in DOMAIN images :
        \E n \in 0..RequestMax : \E b \in [1..n -> Missing(i)] :
           reqQueue' = Queued([k \in DOMAIN b |-> <<i, b[k]>>])
  BY DEF Request
<1>00. PICK n \in 0..RequestMax : \E b \in [1..n -> Missing(i)] :
        reqQueue' = Queued([k \in DOMAIN b |-> <<i, b[k]>>])
  BY <1>0
<1>1. PICK b \in [1..n -> Missing(i)] : reqQueue' = Queued([k \in DOMAIN b |-> <<i, b[k]>>])
  BY <1>00
<1> DEFINE words == [k \in DOMAIN b |-> <<i, b[k]>>]
           both == reqQueue \o words
<1>2. n \in Nat /\ DOMAIN b = 1..n /\ reqQueue \in Seq(Word) /\ ReqDepth \in Nat
  BY AssemblerAssumption, DownlinkAssumption DEF DownInv, RequestsCounted, DownlinkTypeOK
<1>3. Len(words) = n /\ DOMAIN words = 1..n /\ \A k \in 1..n : words[k][1] = i
  BY <1>2
<1> HIDE DEF words
<1>4. \A k \in 1..Len(reqQueue) : reqQueue[k][1] # j
  BY <1>2 DEF Range
<1>5. Len(both) = Len(reqQueue) + n /\ \A k \in 1..Len(both) : both[k][1] # j
  <2>1. words \in Seq(Nat \X Nat)
    <3>1. \A k \in 1..n : b[k] \in Nat
      BY <1>2 DEF Missing
    <3>2. i \in Nat
      BY <1>0, GroundTyped DEF DownInv, RequestsCounted
    <3>3. words \in [1..n -> Nat \X Nat]
      BY <1>2, <3>1, <3>2 DEF words
    <3> QED  BY <1>2, <3>3
  <2>2. reqQueue \in Seq(Nat \X Nat)
    BY <1>2, DownlinkAssumption DEF Word
  <2>3. /\ Len(both) = Len(reqQueue) + n
        /\ \A k \in 1..Len(both) :
              both[k] = IF k <= Len(reqQueue) THEN reqQueue[k] ELSE words[k - Len(reqQueue)]
    BY <1>3, <2>1, <2>2
  <2>4. \A k \in 1..Len(both) : k <= Len(reqQueue) \/ k - Len(reqQueue) \in 1..n
    BY <1>2, <2>3
  <2>5. i # j
    BY <1>0
  <2> HIDE DEF both
  <2> QED  BY <1>2, <1>3, <1>4, <2>3, <2>4, <2>5
<1>6. reqQueue' = IF Len(both) <= ReqDepth THEN both ELSE SubSeq(both, 1, ReqDepth)
  BY <1>1 DEF Queued, words
<1>7. DOMAIN both = 1..Len(both)
  BY <1>2, <1>3, <1>5
<1> HIDE DEF both
<1>8. CASE Len(both) <= ReqDepth
  BY <1>5, <1>6, <1>7, <1>8 DEF Range
<1>9. CASE ~(Len(both) <= ReqDepth)
  <2>1. Len(both) \in Nat /\ ReqDepth <= Len(both)
    BY <1>2, <1>5, <1>9
  <2>2. SubSeq(both, 1, ReqDepth) = [k \in 1..ReqDepth |-> both[k]]
    BY <1>2, <2>1
  <2> QED  BY <1>2, <1>5, <1>6, <1>9, <2>1, <2>2 DEF Range
<1> QED  BY <1>8, <1>9

\* The camera, the task and the operator keep the frame on the air the one in the FIFO.
LEMMA FrameNext ==
    ASSUME WholeInv, [Next]_vars
    PROVE  FrameOnAir'
<1> USE DEF cameraVars, assemblerVars, taskVars, passVars, reqVars,
            FrameOnAir, Waiting, InStep, Piece, Clean, FrameReady
<1>0. /\ imageId \in Nat /\ total \in Nat /\ seen \in Nat /\ captureSeq \in Nat
      /\ chunk \in Nat /\ idx \in Nat /\ frameRead \in Nat /\ frameBytes \in Nat
      /\ seen <= captureSeq /\ chunks \in {0, total} /\ boot \in Nat
  BY WholeTyped DEF WholeInv
<1>00. PassOK /\ FrameOnAir
  BY DEF WholeInv, DownInv
<1>1. ASSUME NEW b \in BOOLEAN, SetActive(b) PROVE FrameOnAir'
  BY <1>00, <1>1 DEF SetActive
<1>2. CASE Capture
  <2>1. /\ captureSeq' = captureSeq + 1 /\ frameRead' = 0
        /\ UNCHANGED <<boot, imageId, seen, chunks, total, reqCount, reqQueue, images, pc>>
        /\ Unfinished =>
              <<boot, imageId>> \in spoilt' /\ <<boot, imageId + 1>> \in spoilt'
    BY <1>2 DEF Capture, CaptureStart
  <2>2. Waiting'
    <3>1. CASE Unfinished
      BY <2>1, <3>1
    <3>2. CASE ~Unfinished
      BY <2>1, <3>2 DEF Unfinished
    <3> QED  BY <3>1, <3>2
  <2> QED  BY <1>0, <1>00, <2>1, <2>2
<1>3. CASE Poll
  BY <1>0, <1>00, <1>3 DEF Poll, CapturePoll
<1>4. CASE Reboot
  BY <1>4 DEF Reboot
<1>5. CASE Quiet \/ UNCHANGED vars
  BY <1>00, <1>5 DEF Quiet, vars
<1>6. CASE Request
  <2>1. UNCHANGED <<cameraVars, assemblerVars, pc, passVars, remaining, reqCount, idx, held, spoilt>>
    BY <1>6 DEF Request
  <2>2. imageId \notin DOMAIN images /\ (\A w \in Range(reqQueue) : w[1] # imageId)
          => \A w \in Range(reqQueue') : w[1] # imageId
    BY <1>0, <1>6, RequestedWords DEF WholeInv
  <2> QED  BY <1>00, <2>1, <2>2
<1>7. ASSUME NEW room \in BOOLEAN, Top(room) PROVE FrameOnAir'
  BY <1>00, <1>7 DEF Top
<1>8. CASE Ready
  BY <1>00, <1>8 DEF Ready
<1>9. CASE Fresh
  BY <1>00, <1>9 DEF Fresh
<1>10. CASE Measure
  BY <1>0, <1>00, <1>10 DEF Measure, Remaining, PassOK
<1>11. CASE Fix
  <2>1. seen < captureSeq /\ remaining > 0 /\ remaining \in Nat
    BY <1>00, <1>11, WholeTyped DEF Fix, PassOK, WholeInv
  <2>2. <<boot, imageId + 1>> \notin spoilt =>
           frameRead = 0 /\ FrameReady /\ remaining = frameBytes
    BY <1>0, <1>00, <1>11, <2>1 DEF Fix
  <2> QED  BY <1>0, <1>11, <2>1, <2>2 DEF Fix
<1>12. ASSUME NEW heard \in BOOLEAN, SendChunk(heard) PROVE FrameOnAir'
  <2>1. /\ pc = "read" /\ chunks # 0 /\ chunk < chunks /\ pc' = "top" /\ FrameReady
        /\ frameRead' = frameRead + 1 /\ frameRead < frameBytes
        /\ camState' \in {"READY", "IDLE"}
        /\ chunk' = chunk + 1
        /\ chunks' \in {0, chunks}
        /\ UNCHANGED <<boot, captureSeq, frameBytes, imageId, total, seen, spoilt>>
    BY <1>0, <1>00, <1>12 DEF SendChunk, ReadChunk, Remaining, PassOK
  <2> QED  BY <1>0, <1>00, <2>1
<1>13. CASE SendNothing
  BY <1>00, <1>13 DEF SendNothing
<1>14. CASE Drain
  <2>1. (\A w \in Range(reqQueue) : w[1] # imageId) => Wanted = {}
    BY DEF Wanted
  <2>2. Wanted = {} => reqCount' = reqCount + 0
    <3>1. {} \ reqBits = {} /\ Cardinality({}) = 0
      BY FS_EmptySet
    <3> QED  BY <1>14, <3>1 DEF Drain
  <2>3. Range(reqQueue') = {} /\ pc' = "serve"
    BY <1>14 DEF Drain, Range
  <2>4. UNCHANGED <<cameraVars, assemblerVars, passVars, remaining, idx, held, spoilt>>
    BY <1>14 DEF Drain
  <2> QED  BY <1>00, <2>1, <2>2, <2>3, <2>4
<1>15. CASE ServeNothing
  BY <1>00, <1>15 DEF ServeNothing
<1>16. CASE ServeRewound
  BY <1>00, <1>16 DEF ServeRewound, MayServe, Rewind
<1>17. CASE Sweep
  BY <1>00, <1>17 DEF Sweep
<1>18. CASE Skim
  BY <1>0, <1>00, <1>18 DEF Skim, ReadChunk, NextChunk, Remaining, PassOK
<1>19. CASE SkimNothing
  BY <1>00, <1>19 DEF SkimNothing
<1>20. ASSUME NEW heard \in BOOLEAN, Resend(heard) PROVE FrameOnAir'
  BY <1>0, <1>00, <1>20 DEF Resend, PassOK
<1>21. CASE Abandon
  BY <1>00, <1>21 DEF Abandon
<1>22. ASSUME NEW heard \in BOOLEAN, Rest(heard) PROVE FrameOnAir'
  BY <1>00, <1>22 DEF Rest
<1> QED
  BY <1>1, <1>2, <1>3, <1>4, <1>5, <1>6, <1>7, <1>8, <1>9, <1>10, <1>11, <1>12, <1>13, <1>14, <1>15,
     <1>16, <1>17, <1>18, <1>19, <1>20, <1>21, <1>22 DEF Next, Task

\* A part of the image on the air that is heard goes to its place, and the last one to
\* come makes the picture whole; of a spoilt image a part of this power cycle is kept.
LEMMA PieceKeeps ==
    ASSUME WholeInv, NEW p, OnAir(p), Push(p),
           Clean(imageId) => /\ p.chunk \in 0..(total - 1) /\ p.data = Piece(p.chunk)
                             /\ captureSeq = seen,
           UNCHANGED <<boot, imageId, total, seen, spoilt>>
    PROVE  Gathered' /\ SavedWhole'
<1> DEFINE old   == Collected(p)
           parts == With(old, p)
           pic   == Transfer!Picture(<<boot, seen>>, total)
<1>0. /\ imageId \in Nat /\ total \in Nat /\ seen \in Nat
      /\ p.id = imageId /\ p.chunks = total /\ Boot(p.data) = boot
  BY WholeTyped DEF WholeInv, OnAir
<1>1. GroundTypeOK /\ DownlinkTypeOK /\ PassOK /\ FrameOnAir /\ Gathered /\ SavedWhole
  BY DEF WholeInv, DownInv, RequestsCounted
<1>2. Clean(imageId) => /\ DOMAIN old \subseteq 0..(total - 1)
                        /\ \A c \in DOMAIN old : old[c] = Piece(c)
  <2>1. CASE p.id \in DOMAIN images
    BY <1>0, <1>1, <2>1 DEF Gathered, Collected
  <2>2. CASE p.id \notin DOMAIN images
    BY <2>2 DEF Collected
  <2> QED  BY <2>1, <2>2
<1>3. /\ DOMAIN parts = DOMAIN old \cup {p.chunk}
      /\ parts[p.chunk] = p.data
      /\ Clean(imageId) => /\ DOMAIN parts \subseteq 0..(total - 1)
                           /\ \A c \in DOMAIN parts : parts[c] = Piece(c)
  BY <1>2 DEF With
<1>4. Clean(imageId) /\ Cardinality(DOMAIN parts) = total => parts = pic
  <2>1. SUFFICES ASSUME Clean(imageId), Cardinality(DOMAIN parts) = total
                 PROVE  parts = pic
    OBVIOUS
  <2>2. IsFiniteSet(0..(total - 1)) /\ Cardinality(0..(total - 1)) = total
    BY <1>0, FS_Interval
  <2>3. DOMAIN parts = 0..(total - 1)
    BY <1>3, <2>1, <2>2, FS_Subset
  <2>4. pic = [c \in 0..(total - 1) |-> Piece(c)]
    BY DEF Transfer!Picture, Piece
  <2> HIDE DEF pic
  <2>5. parts = [c \in DOMAIN parts |-> parts[c]]
    BY DEF With
  <2> HIDE DEF parts
  <2> QED  BY <1>3, <2>1, <2>3, <2>4, <2>5
<1>5. p.chunk \in DOMAIN parts /\ Boot(parts[p.chunk]) = boot
  BY <1>0, <1>3
<1> HIDE DEF old, pic
<1>6. CASE images' = images /\ saved' = saved
  <2>1. Gathered'
    BY <1>1, <1>6 DEF Gathered, Clean, Piece
  <2> QED  BY <1>1, <1>6, <2>1, SavedStays
<1>7. CASE /\ images' = [i \in DOMAIN images \ {p.id} |-> images[i]]
           /\ saved' = Append(saved, [id |-> p.id, parts |-> parts])
           /\ Cardinality(DOMAIN parts) = total
  <2>1. [id |-> p.id, parts |-> parts] \in Kept
    <3>1. parts \in Parts
      BY <1>1, PushCases DEF parts, old
    <3> QED  BY <1>0, <3>1 DEF Kept
  <2> DEFINE n == Len(saved) + 1
  <2>2. parts = pic \/ ~Clean(imageId)
    BY <1>4, <1>7
  <2> HIDE DEF parts
  <2>3. /\ DOMAIN saved' = 1..n /\ DOMAIN saved = 1..(n - 1) /\ n \in Nat \ {0}
        /\ \A i \in DOMAIN saved : saved'[i] = saved[i]
        /\ saved'[n] = [id |-> p.id, parts |-> parts]
    BY <1>1, <1>7, <2>1 DEF GroundTypeOK
  <2> HIDE DEF n
  <2>4. Gathered'
    BY <1>0, <1>1, <1>7 DEF Gathered, Clean
  <2>5. \/ \E q \in Range(parts) : <<Boot(q), imageId>> \in spoilt
        \/ \E f \in (0..MaxBoots) \X (1..MaxCaptures), m \in Sizes :
              parts = Transfer!Picture(f, m)
    <3>1. CASE Clean(imageId)
      <4>1. total \in Sizes /\ seen > 0 /\ captureSeq = seen
        <5>1. captureSeq = seen /\ total # 0
          BY <1>0, <3>1
        <5>2. frameBytes = total /\ seen > 0
          BY <1>1, <3>1, <5>1 DEF FrameOnAir, InStep
        <5>3. frameBytes \in Sizes \cup {0}
          BY WholeTyped DEF WholeInv
        <5> QED  BY <5>1, <5>2, <5>3
      <4>2. boot \in 0..MaxBoots /\ seen \in 1..MaxCaptures
        BY <1>0, <4>1, WholeTyped, DownlinkAssumption DEF WholeInv
      <4>3. <<boot, seen>> \in (0..MaxBoots) \X (1..MaxCaptures)
        BY <4>2
      <4> QED  BY <2>2, <3>1, <4>1, <4>3 DEF pic
    <3>2. CASE ~Clean(imageId)
      BY <1>5, <3>2 DEF Clean, Range
    <3> QED  BY <3>1, <3>2
  <2>6. SavedWhole'
    <3>1. ASSUME NEW i \in DOMAIN saved'
          PROVE  \/ \E q \in Range(saved'[i].parts) : <<Boot(q), saved'[i].id>> \in spoilt
                 \/ \E f \in (0..MaxBoots) \X (1..MaxCaptures), m \in Sizes :
                       saved'[i].parts = Transfer!Picture(f, m)
      <4>1. CASE i = n
        BY <1>0, <2>3, <2>5, <4>1
      <4>2. CASE i # n
        <5>1. i \in DOMAIN saved /\ saved'[i] = saved[i]
          BY <2>3, <3>1, <4>2
        <5> QED  BY <1>1, <5>1 DEF SavedWhole
      <4> QED  BY <4>1, <4>2
    <3> QED  BY <3>1 DEF SavedWhole, Transfer!Picture, Boot
  <2> QED  BY <2>4, <2>6
<1>8. CASE /\ images' = [i \in DOMAIN images \cup {p.id} |->
                           IF i = p.id THEN [chunks |-> p.chunks, parts |-> parts] ELSE images[i]]
           /\ UNCHANGED saved
  <2> HIDE DEF parts
  <2>1. Gathered'
    BY <1>0, <1>1, <1>3, <1>8 DEF Gathered, Clean, Piece
  <2>2. SavedWhole'
    BY <1>1, <1>8, SavedStays
  <2> QED  BY <2>1, <2>2
<1> QED
  <2>1. CASE IsDone(p)
    BY <1>6, <2>1 DEF Push, assemblerVars
  <2>2. CASE ~IsDone(p)
    <3>1. parts = [c \in DOMAIN old \cup {p.chunk} |-> IF c = p.chunk THEN p.data ELSE old[c]]
      BY DEF With
    <3>2. IF Cardinality(DOMAIN parts) = total
            THEN /\ images' = [i \in DOMAIN images \ {p.id} |-> images[i]]
                 /\ saved' = Append(saved, [id |-> p.id, parts |-> parts])
            ELSE /\ images' = [i \in DOMAIN images \cup {p.id} |->
                                 IF i = p.id THEN [chunks |-> p.chunks, parts |-> parts]
                                 ELSE images[i]]
                 /\ UNCHANGED saved
      BY <1>0, <2>2, <3>1 DEF Push, old
    <3> HIDE DEF parts
    <3> QED  BY <1>7, <1>8, <2>2, <3>2
  <2> QED  BY <2>1, <2>2

\* Every step keeps what is gathered true of the image on the air, and what is saved whole.
LEMMA WholeNext ==
    ASSUME WholeInv, [Next]_vars
    PROVE  Gathered' /\ SavedWhole'
<1> USE DEF cameraVars, assemblerVars, taskVars, passVars, reqVars
<1>0. /\ imageId \in Nat /\ total \in Nat /\ seen \in Nat /\ captureSeq \in Nat
      /\ chunk \in Nat /\ idx \in Nat /\ frameRead \in Nat /\ frameBytes \in Nat
      /\ chunks \in {0, total} /\ boot \in Nat
  BY WholeTyped DEF WholeInv
<1>00. GroundTypeOK /\ PassOK /\ FrameOnAir /\ Gathered /\ SavedWhole
  BY DEF WholeInv, DownInv
<1>1. ASSUME UNCHANGED <<images, saved, boot>>,
             imageId' = imageId /\ total' = total /\ seen' = seen,
             spoilt \subseteq spoilt'
      PROVE  Gathered' /\ SavedWhole'
  <2>1. Gathered'
    BY <1>00, <1>1 DEF Gathered, Clean, Piece
  <2>2. SavedWhole'
    BY <1>00, <1>1, SavedStays
  <2> QED  BY <2>1, <2>2
<1>2. ASSUME NEW c \in Nat, NEW data \in Chunk, Boot(data) = boot, NEW heard \in BOOLEAN,
             Emit(c, data, heard),
             Clean(imageId) => c \in 0..(total - 1) /\ data = Piece(c) /\ captureSeq = seen,
             UNCHANGED <<boot, imageId, total, seen, spoilt>>
      PROVE  Gathered' /\ SavedWhole'
  <2>1. CASE heard = TRUE
    <3> DEFINE p == Emitted(c, data)
    <3>1. OnAir(p) /\ p.chunk = c /\ p.data = data
      BY <1>2 DEF OnAir, Emitted
    <3>2. Push(p)
      BY <1>2, <2>1 DEF Emit
    <3> HIDE DEF p
    <3> QED  BY <1>2, <3>1, <3>2, PieceKeeps
  <2>2. CASE heard # TRUE
    <3>1. images' = images /\ saved' = saved
      BY <1>2, <2>2 DEF Emit
    <3> QED  BY <1>1, <1>2, <3>1
  <2> QED  BY <2>1, <2>2
<1>3. ASSUME NEW heard \in BOOLEAN, SendChunk(heard)
      PROVE  Gathered' /\ SavedWhole'
  <2>1. /\ Emit(chunk, NextChunk, heard) /\ pc = "read"
        /\ UNCHANGED <<boot, imageId, total, seen, spoilt>>
    BY <1>3 DEF SendChunk, ReadChunk
  <2>2. chunks # 0 /\ chunk < chunks
    BY <1>00, <2>1 DEF PassOK
  <2>3. Clean(imageId) => captureSeq = seen /\ chunk = frameRead /\ frameBytes = total
    BY <1>00, <2>2 DEF FrameOnAir, Waiting, InStep
  <2>4. chunk \in 0..(total - 1)
    BY <1>0, <2>2
  <2>5. captureSeq = seen /\ chunk = frameRead /\ frameBytes = total => NextChunk = Piece(chunk)
    BY DEF NextChunk, Piece
  <2>6. NextChunk \in Chunk /\ Boot(NextChunk) = boot
    BY <1>0 DEF NextChunk, Chunk, Boot
  <2> QED  BY <1>0, <1>2, <2>1, <2>3, <2>4, <2>5, <2>6
<1>4. ASSUME NEW heard \in BOOLEAN, Resend(heard)
      PROVE  Gathered' /\ SavedWhole'
  <2>1. /\ Emit(idx, held, heard) /\ pc = "wait"
        /\ UNCHANGED <<boot, imageId, total, seen, spoilt>>
    BY <1>4 DEF Resend
  <2>2. idx < total /\ Boot(held) = boot /\ held \in Chunk
    BY <1>00, <2>1 DEF PassOK, GroundTypeOK
  <2>3. Clean(imageId) => captureSeq = seen /\ held = Piece(idx)
    BY <1>00, <2>1 DEF FrameOnAir, Waiting, InStep
  <2>4. idx \in 0..(total - 1)
    BY <1>0, <2>2
  <2> QED  BY <1>0, <1>2, <2>1, <2>2, <2>3, <2>4
<1>5. CASE Fix
  <2>1. UNCHANGED <<images, saved, boot, spoilt>> /\ imageId' = imageId + 1
    BY <1>5 DEF Fix
  <2>2. \A k \in DOMAIN images : k > imageId + 1 \/ k = imageId + 1 => k > imageId
    <3>1. \A k \in DOMAIN images : k \in Nat
      BY <1>00, GroundTyped
    <3> QED  BY <1>0, <3>1
  <2>3. Gathered'
    BY <1>0, <1>00, <2>1, <2>2 DEF Gathered, Clean
  <2>4. SavedWhole'
    BY <1>00, <2>1, SavedStays
  <2> QED  BY <2>3, <2>4
<1>6. CASE Reboot
  <2>1. /\ UNCHANGED <<images, saved>> /\ boot' = boot + 1
        /\ spoilt' = spoilt \cup {<<boot + 1, i>> : i \in DOMAIN images}
    BY <1>6 DEF Reboot
  <2>2. Gathered'
    BY <2>1 DEF Gathered, Clean
  <2>3. SavedWhole'
    BY <1>00, <2>1, SavedStays
  <2> QED  BY <2>2, <2>3
<1>7. CASE \/ \E b \in BOOLEAN : SetActive(b)
           \/ Capture \/ Poll \/ Request \/ Quiet
           \/ UNCHANGED vars
  <2>1. /\ UNCHANGED <<images, saved, boot>>
        /\ imageId' = imageId /\ total' = total /\ seen' = seen
        /\ spoilt \subseteq spoilt'
    BY <1>7 DEF SetActive, Capture, CaptureStart, Poll, CapturePoll, Request, Quiet, vars
  <2> QED  BY <1>1, <2>1
<1>8. CASE \/ \E room \in BOOLEAN : Top(room)
           \/ Ready \/ Fresh \/ Measure \/ SendNothing \/ Drain \/ ServeNothing \/ ServeRewound
           \/ Sweep \/ Skim \/ SkimNothing \/ Abandon
           \/ \E heard \in BOOLEAN : Rest(heard)
  <2>1. /\ UNCHANGED <<images, saved, boot>>
        /\ imageId' = imageId /\ total' = total /\ seen' = seen
        /\ spoilt' = spoilt
    BY <1>8 DEF Top, Ready, Fresh, Measure, SendNothing, Drain, ServeNothing, ServeRewound,
                Rewind, Sweep, Skim, ReadChunk, SkimNothing, Abandon, Rest
  <2> QED  BY <1>1, <2>1
<1> QED
  BY <1>3, <1>4, <1>5, <1>6, <1>7, <1>8 DEF Next, Task

\* Through losses, repeats, passes cut short, captures at any time and resets, an image is
\* saved once, and what is saved is one whole picture with every part at its place, unless
\* a capture came while the image was unfinished or a reset while one of its id was open
\* (send_chunk, serve_requests and Assembler.push).
THEOREM OnePictureSaved == Spec => []SavedSound
<1>1. Init => FrameOnAir /\ Gathered /\ SavedWhole
  <2> SUFFICES ASSUME Init PROVE FrameOnAir /\ Gathered /\ SavedWhole
    OBVIOUS
  <2>1. /\ images = <<>> /\ saved = <<>>
        /\ camState = "IDLE" /\ captureSeq = 0 /\ frameBytes = 0 /\ frameRead = 0
        /\ pc = "top" /\ chunks = 0 /\ total = 0 /\ seen = 0
    BY DEF Init, AssemblerInit, PowerOn, CameraInit
  <2> QED  BY <2>1 DEF FrameOnAir, Waiting, InStep, Gathered, SavedWhole
<1>2. DownInv /\ (FrameOnAir /\ Gathered /\ SavedWhole) /\ [Next]_vars
        => (FrameOnAir /\ Gathered /\ SavedWhole)'
  BY FrameNext, WholeNext DEF WholeInv
<1>3. DownInv /\ (FrameOnAir /\ Gathered /\ SavedWhole) => SavedSound
  BY DEF DownInv, SavedSound
<1> QED
  BY <1>1, <1>2, <1>3, DownInvHolds, PTL DEF Spec

==============================================================================
