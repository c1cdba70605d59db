\* Free running, an interval of two and one of three units; ticks up to twice
\* the interval, wake-ups one unit late.
CONSTANTS
    WallIntervals = {0, 2, 3}
    MaxWork = 5
    MaxOversleep = 1
    MaxNow = 14
    None = None
SPECIFICATION PacingSpec
INVARIANTS
    NoDrift
PROPERTIES
    NoCatchUpBurst
