SPECIFICATION PreviewSpec
CONSTANTS
    owner = owner
    pump = pump
    p1 = p1
    p2 = p2
    p3 = p3
    None = None
    Controllers = {owner}
    Writers = {pump}
    Children = {p1, p2, p3}
    Preview = TRUE
    Serialized = TRUE
    SyscallErrors = FALSE
    StampLimit = 2
    MaxFrames = 4
SYMMETRY ChildSymmetry
INVARIANTS
    PreviewTypeOK
    UnitsMatchStamps
    StoppedPublishesNothing
PROPERTY
    PublishedInOrder
