SPECIFICATION Spec
CONSTANTS
    j1 = j1
    j2 = j2
    j3 = j3
    main = main
    pump = pump
    None = None
    Jobs = {j1, j2}
    MaxRevision = 1
    Owner = main
    Pump = pump
INVARIANT
    ClosingClearsDesired
