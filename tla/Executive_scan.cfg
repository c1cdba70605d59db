\* A transport with two blocks of inputs and one output, either direction
\* failing at any tick; three ticks let an outage begin, last and end.  Restarts,
\* raising programs and hand-driven tags at any of them.
CONSTANTS
    InputTags = {level, valve}
    OutputTags = {pump}
    WorkTags = {}
    FirstScanTag = s0
    Retentive = {}
    Values = {FALSE, TRUE}
    InitialValue <- AllOff
    Wired = {level, valve}
    MaxTicks = 3
    level = level
    valve = valve
    pump = pump
    s0 = s0
SPECIFICATION Spec
INVARIANTS
    TypeOK
    HealthyLinkIsCoherent
    CountersMeasureOutages
    OneFirstScan
    WatchdogEntriesMatchTrips
PROPERTIES
    OutagesAreAlarmed
    OutputsMoveTogether
