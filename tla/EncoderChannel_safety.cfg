SPECIFICATION ChannelSpec
CONSTANTS
    edge = edge
    viewer = viewer
    pump = pump
    main = main
    p1 = p1
    p2 = p2
    p3 = p3
    None = None
    Clients = {edge, viewer}
    Pump = pump
    Closer = main
    Controllers = {edge, viewer, pump, main}
    Writers = {pump}
    Children = {p1, p2, p3}
    Preview = TRUE
    Serialized = FALSE
    SyscallErrors = TRUE
    Depth = 2
    MaxFrames = 3
SYMMETRY ChildSymmetry
INVARIANTS
    CallersSerialized
    InactiveIsQuiet
    NoStaleFrame
    ShutdownIsComplete
PROPERTIES
    ImplementsChannel
