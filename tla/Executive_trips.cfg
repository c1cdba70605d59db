\* The smallest twin whose PLC can be restarted between two overrunning scans.
CONSTANTS
    InputTags = {level}
    OutputTags = {pump}
    WorkTags = {}
    FirstScanTag = s0
    Retentive = {}
    Values = {FALSE, TRUE}
    InitialValue <- AllOff
    Wired = {level}
    MaxTicks = 2
    level = level
    pump = pump
    s0 = s0
SPECIFICATION Spec
INVARIANTS
    EveryTripIsLogged
