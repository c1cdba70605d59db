\* One signal in half units, two faults on it, three ticks and a snapshot.
CONSTANTS
    Signals = {level}
    level = level
    PlantValues = {0, 3}
    Unit = 2
    Plans <- MCPlans
    MaxTicks = 3
    None = None
SPECIFICATION Spec
INVARIANTS
    PlcSeesTheFaults
    DriftIsItsActiveTime
