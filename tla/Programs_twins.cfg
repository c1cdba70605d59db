\* The conveyor with the example's ratios: four ticks to full speed, three to
\* rest, five scans to prove.  A tank of seven counts that reaches its
\* interlock in five ticks.  A laboratory tank of levels 0 to 2 and a clock of
\* three scans; one tick of the original is compared: the whole twin is, so a
\* longer run differs at its first tick that does.
CONSTANTS
    ProveTime = 5
    TopSpeed = 12
    SpinUp = 3
    Coast = 4
    Threshold = 11
    High = 5
    Capacity = 7
    Inflow = 2
    MaxDraw = 3
    MaxOutage = 3
    TankLevelMax = 1
    Period = 3
    MaxTrail = 1
SPECIFICATION MCSpec
INVARIANTS
    UnprovenIsDropped
    SoundMotorNeverTrips
    NeverBothValves
    LevelInRange
PROPERTIES
    FaultIsEarned
    OvershootIsTheOutage
    SettlesWhereDriven
    RestoredTwinRepeats
    RunningFillsUp
