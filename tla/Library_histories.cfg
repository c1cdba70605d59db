\* Bytes of four values: words of sixteen, pairs of 256.  A timer preset of two
\* and a half scans, histories of up to six calls.  Components on three signal
\* levels and histories of six ticks: longer than delay, dead time and travel
\* together.
CONSTANTS
    Radix = 4
    Regs <- AllRegs
    Sent <- AroundTheRange
    Preset = 5
    Dt = 2
    CountPreset = 2
    MaxCalls = 6
    MaxSignal = 2
    Slots = 2
    On = 2
    Off = 1
    Kp = 1
    Ki = 1
    Kd = 1
    OutMin = 0
    OutMax = 3
    DeadTime = 2
    Reach = 1
    MaxSteps = 6
SPECIFICATION MCSpec
INVARIANTS
    FlippedOrdersReverseBytes
    TimersAreDelays
    RisesAreSeenOnce
    SignalsKeepTheirHistory
    NoWindup
PROPERTIES
    ReturnsWhatFits
    ValveTravelsWhenSteady
