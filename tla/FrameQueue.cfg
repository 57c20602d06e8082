SPECIFICATION FairSpec
CONSTANTS
    c1 = c1
    rtp = rtp
    Width = 1
    Height = 2
    RawEncoding = "mono8"
    FrameId = "camera"
    HasPreview = TRUE
    MaxFrameBytes = 6
    MaxPixels = 4
    Channels = {rtp}
    Captures = {c1}
    Images <- ImageSet
    Depth = 2
    MaxQueuedBytes = 8
    MaxFrames = 4
INVARIANTS
    QueueIsNewestRun
    FramesAccounted
    EncoderInputIsWhole
PROPERTIES
    CaptureAnswers
    NoLostWakeup
