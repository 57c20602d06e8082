SPECIFICATION FairSpec
CONSTANTS
    owner = owner
    other = other
    pump = pump
    p1 = p1
    p2 = p2
    p3 = p3
    p4 = p4
    None = None
    Controllers = {owner, pump}
    Writers = {pump, other}
    Children = {p1, p2, p3, p4}
    Preview = TRUE
    Serialized = TRUE
    SyscallErrors = TRUE
INVARIANTS
    SingleOwner
    StoppedMeansQuiesced
PROPERTIES
    NoLaunchUnderPendingStop
    OnlyStopRecovers
    ImplementsContract
    StopReleasesWriter
    EveryStopReturns
