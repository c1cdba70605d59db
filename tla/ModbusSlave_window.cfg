\* Two writes of the master at any point of the synchronisation, on either
\* map, over server starts and stops.
CONSTANTS
    Radix = 2
    Publish <- Readings
    Accept <- Setpoints
    ProgramValues = {0, 6}
    InitialTag <- Setpoint
    Commands = {1, 14}
    MaxWrites = 2
SPECIFICATION Spec
INVARIANTS
    CommandsAreWhole
    WindowIsRecent
PROPERTIES
    CommandsArrive
