\* Sizes are the shipped ones scaled by about three: a chunk spans three packets and
\* ends early in the third, a status frame fits one.
SPECIFICATION Spec
CONSTANTS
    PacketBytes = 8
    FifoDepth = 3
    ChunkBytes = 12
    StatusBytes = 2
    AnyLength = 24
    FakeLengths = {12, 24}
    JoinPoints = {0, 3}
    MaxFrames = 4
    MaxTroubles = 1
INVARIANTS CalmFrameForwarded ForwardedInOrder ConsoleInStep
CHECK_DEADLOCK FALSE
