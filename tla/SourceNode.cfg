SPECIFICATION FairSpec
CONSTANTS
    MaxPixels = 4096
    SettingsOf <- SettingsSet
    ToolsOf <- ToolsFor
    Ports = {5004}
    Bitrates = {1000000, 2000000}
INVARIANTS
    PublisherOutlivesPreview
    ExitLeavesNothing
    ChildIsAsConfigured
PROPERTIES
    BitrateReachesChild
    ShutdownEnds
    UnwatchedPreviewStops
CHECK_DEADLOCK FALSE
