\* Two rewinds, a trend buffer of three samples, a recorder of two captures, an
\* interval of one and a half ticks.
CONSTANTS
    level = level
    flow = flow
    TagOrder <- LevelThenFlow
    TrendTags = {level, flow}
    TagValues = {low, high}
    low = low
    high = high
    None = None
    Modes = {"on_change", "periodic", "every_scan"}
    Interval = 3
    Capacity = 3
    Dt = 2
    Every = 2
    Keep = 2
    MaxTicks = 5
    MaxRewinds = 2
SPECIFICATION Spec
INVARIANTS
    LatestIsCurrent
    ReconstructionIsTrue
    RewindsStayOnBranch
    PeriodicKeepsRate
