SPECIFICATION FairSpec
INVARIANT StreamAligned
INVARIANT FramesIntact
INVARIANT FramesAdmissible
PROPERTY FrameEnds
CHECK_DEADLOCK FALSE
CONSTANTS
    Radix = 3
    HeaderBytes = 2
    MaxFrameBytes = 3
    MaxFrames = 3
    Payloads <- MCPayloads
    RawWrites <- MCRaw
