------------------------------ MODULE TankTwin -------------------------------
(***************************************************************************)
(* The demonstration tank of examples/tank.toml, closed loop: the          *)
(* start/stop program (programs/start_stop_tank.py), the plant's Tank and  *)
(* its AnalogSensor, exchanged once a tick over an in-process transport    *)
(* that a DropoutFault can take down.                                      *)
(*                                                                         *)
(* The tank moves on the commands of the tick before, and the program      *)
(* decides on the last level that reached it: how far the level goes past  *)
(* the interlock is a matter of what was lost and when.                    *)
(*                                                                         *)
(* The level counts in halves of one sensor count, so that the rounding of *)
(* the sensor shows.  Torricelli's square root is any positive draw.       *)
(***************************************************************************)
EXTENDS SealIn, Integers

CONSTANTS
    High,           \* the program's TANK_LEVEL_MAX, in sensor counts
    Capacity,       \* the tank's level_max, in sensor counts
    Inflow,         \* what the open fill valve adds in a tick, in half counts
    MaxDraw,        \* the most the drain valve takes in a tick, in half counts
    MaxOutage       \* where the count of lost exchanges stops

ASSUME TankAssumption ==
    /\ High \in Nat \ {0}
    /\ Capacity \in Nat /\ High <= Capacity
    /\ Inflow \in Nat \ {0}
    /\ MaxDraw \in Nat \ {0}
    /\ MaxOutage \in Nat

VARIABLES
    content,        \* Tank.level
    command,        \* the valve commands on the bus
    reading,        \* the tank_level tag
    latch,          \* the start_bit and stop_bit tags
    button,         \* the buttons' tags; either start and either stop button
    dropout,        \* DropoutFault.active
    outage          \* history: the exchanges lost since the last good one

tankVars == <<content, command, reading, latch, button, dropout, outage>>

Valves == {"fill", "drain"}

TankTypeOK ==
    /\ content \in 0 .. 2 * Capacity
    /\ command \in [Valves -> BOOLEAN]
    /\ reading \in 0 .. Capacity
    /\ latch \in [{"start_bit", "stop_bit"} -> BOOLEAN]
    /\ button \in [{"start", "stop"} -> BOOLEAN]
    /\ dropout \in BOOLEAN
    /\ outage \in 0 .. MaxOutage

Released == [b \in {"start", "stop"} |-> FALSE]
Stopped == [start_bit |-> FALSE, stop_bit |-> TRUE]

TankInit ==
    /\ content = 0
    /\ command = [v \in Valves |-> FALSE]
    /\ reading = 0
    /\ latch = Stopped
    /\ button = Released
    /\ dropout = FALSE
    /\ outage = 0

-----------------------------------------------------------------------------
Clamp(lo, hi, x) == IF x < lo THEN lo ELSE IF x > hi THEN hi ELSE x

\* Tank.step, on the commands the bus carries.
StepTank ==
    \E draw \in 1 .. MaxDraw :
        content' = Clamp(0, 2 * Capacity,
                         content + (IF command["fill"] THEN Inflow ELSE 0)
                                 - (IF command["drain"] THEN draw ELSE 0))

\* AnalogSensor.step: round() to the nearest count, halves to the even one.
Sensed(level) ==
    LET count == level \div 2
    IN  IF level % 2 = 0 \/ count % 2 = 0 THEN count ELSE count + 1

\* A lost read leaves the tag alone.
ReadLevel == reading' = IF dropout THEN reading ELSE Sensed(content')

\* Mutation: the tank counts as empty at one.
PermittedAboveOne(level) == [fill |-> level < High, drain |-> level > 1]

\* The program's interlocks.
Permitted(level) == [fill |-> level < High, drain |-> level > 0]

\* Mutation: the inputs are read after the scan.
CommandedBeforeReading ==
    LET may == Permitted(reading)
    IN  [fill |-> latch'["start_bit"] /\ may["fill"],
         drain |-> latch'["stop_bit"] /\ may["drain"]]

\* The valves as the scan leaves them in the output tags.
Commanded ==
    LET may == Permitted(reading')
    IN  [fill |-> latch'["start_bit"] /\ may["fill"],
         drain |-> latch'["stop_bit"] /\ may["drain"]]

\* A lost write leaves the bus as it was; the next good one carries the tags
\* of its own scan.
WriteValves == command' = IF dropout THEN command ELSE Commanded

\* Executive.tick.
TankTick ==
    /\ StepTank
    /\ ReadLevel
    /\ latch' = SealedIn(latch, button["start"], button["stop"])
    /\ WriteValves
    /\ outage' = IF dropout THEN Clamp(0, MaxOutage, outage + 1) ELSE 0
    /\ UNCHANGED <<button, dropout>>

\* Mutation: only the run bit is declared retentive.
RestartedStopBitVolatile(was) == [was EXCEPT !.stop_bit = Stopped.stop_bit]

\* Both latch bits are declared retentive in the project file.
Restarted(was) == was

\* PLC.cold_start and power_cycle: the level and the buttons go back to their
\* initial values, the bus keeps the commands.
TankColdStart ==
    /\ reading' = 0
    /\ button' = Released
    /\ latch' = Restarted(latch)
    /\ UNCHANGED <<content, command, dropout, outage>>

\* Hands on the buttons.
PressButtons ==
    /\ button' \in [{"start", "stop"} -> BOOLEAN]
    /\ UNCHANGED <<content, command, reading, latch, dropout, outage>>

\* The dropout is switched on or off.
SwitchDropout ==
    /\ dropout' = ~dropout
    /\ UNCHANGED <<content, command, reading, latch, button, outage>>

TankNext == TankTick \/ TankColdStart \/ PressButtons \/ SwitchDropout

\* Executive.run keeps ticking; nothing else is owed.
TankSpec == TankInit /\ [][TankNext]_tankVars /\ WF_tankVars(TankTick)

-----------------------------------------------------------------------------
(***************************************************************************)
(* Properties                                                              *)
(***************************************************************************)

\* The tank is filled past its interlock for as long as exchanges are lost and
\* one tick more, no matter what is pressed or restarted meanwhile: a fill
\* starts from a level that read below TANK_LEVEL_MAX, so many ticks ago.
OvershootIsTheOutage ==
    [][content' > content /\ outage < MaxOutage =>
          content < 2 * High + Inflow * outage]_tankVars

\* The valves on the bus are never both open, over lost exchanges, presses and
\* restarts at any moment.
NeverBothValves == ~(command["fill"] /\ command["drain"])

\* The latch bits are complementary; a fill command on the bus was given below
\* the interlock, as many ticks ago as exchanges were lost.
FillBeganBelow ==
    command["fill"] /\ outage < MaxOutage =>
        content < 2 * High + Inflow * outage
TankInv ==
    /\ TankTypeOK
    /\ latch["start_bit"] = ~latch["stop_bit"]
    /\ NeverBothValves
    /\ FillBeganBelow

\* A twin left running with its link up fills to the interlock, one left
\* stopped runs empty.
SettlesWhereDriven ==
    /\ <>[](latch["start_bit"] /\ ~dropout) => <>[](Sensed(content) >= High)
    /\ <>[](latch["stop_bit"] /\ ~dropout) => <>[](Sensed(content) = 0)
=============================================================================
