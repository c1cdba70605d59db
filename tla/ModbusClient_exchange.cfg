\* Two calls over three wirings: one may fail half way or find the slave
\* unreachable, the next may succeed.
CONSTANTS
    Radix = 2
    Wirings <- AllWirings
    Samples = {1, 6}
    Missing = {"memory"}
    Unclaimed = {"lost"}
    LastAddress = 3
    MaxCalls = 2
SPECIFICATION ClientSpec
INVARIANTS
    ReadsAreWhole
    GoodWriteIsComplete
PROPERTIES
    UnmappedUntouched
