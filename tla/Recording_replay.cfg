\* A wired and a hand-driven input, a recorder that knows the plc, a live
\* transport that may fail a read and a PLC that may be restarted.
CONSTANTS
    level = level
    button = button
    Wired = {level}
    Unwired = {button}
    off = off
    on = on
    Values = {off, on}
    Initial = off
    WithPlc = TRUE
    Incidents = {"read failure", "restart"}
    MaxScans = 3
SPECIFICATION Spec
INVARIANTS
    ReplayReproduces
CHECK_DEADLOCK FALSE
