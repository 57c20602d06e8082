SPECIFICATION ChannelFairSpec
CONSTANTS
    edge = edge
    viewer = viewer
    pump = pump
    main = main
    p1 = p1
    p2 = p2
    p3 = p3
    None = None
    Clients = {edge}
    Pump = pump
    Closer = main
    Controllers = {edge, pump, main}
    Writers = {pump}
    Children = {p1, p2, p3}
    Preview = FALSE
    Serialized = FALSE
    SyscallErrors = FALSE
    Depth = 1
    MaxFrames = 2
PROPERTY
    ShutdownReleasesPump
