------------------------------ MODULE LabTwin -------------------------------
(***************************************************************************)
(* The twin that takes the place of the laboratory's M221                  *)
(* (examples/m221_lab_twin.py): the program of                             *)
(* programs/m221_tank_twin.py on the TM221 profile, with no plant and      *)
(* nothing wired, served to the operator panel (HMI) through the Modbus    *)
(* slave, and captured and restored by snapshots.                          *)
(*                                                                         *)
(* The tank is a counter in %MW0, stepped by a timer that resets itself.   *)
(* Its two permissions are computed at the end of a scan and used by the   *)
(* next one, so the level stays in range only if level and permissions     *)
(* survive restarts and restores together.                                 *)
(***************************************************************************)
EXTENDS Instructions, SealIn, Integers, Sequences

CONSTANTS
    TankLevelMax,   \* TANK_LEVEL_MAX
    Period,         \* scans in the one second of the emulated clock
    MaxTrail        \* bound on the ticks of a run kept for comparison

\* A scan period of a second or more would leave the clock's pulse on for
\* ever, with no edge to count.
ASSUME LabAssumption ==
    /\ TankLevelMax \in Nat
    /\ Period \in Nat \ {0, 1}
    /\ MaxTrail \in Nat \ {0}

Buttons == {"oit_start_button", "oit_stop_button"}

\* The %M index of every internal bit in LAB_TAGS, and its initial value.
NativeBit ==
    [oit_start_button |-> 3, oit_stop_button |-> 4, tank_reset |-> 5,
     start_bit |-> 1, stop_bit |-> 0, tank_drain |-> 10, tank_fill |-> 11]
InitialBit == [b \in DOMAIN NativeBit |-> b \in {"stop_bit", "tank_fill"}]

\* The bits within the profile's retain range, which covers all of %M; it
\* covers %MW0, the level, too.
RetentiveBits == {b \in DOMAIN NativeBit : NativeBit[b] \in 0 .. 511}

VARIABLES
    bit,        \* the internal bits
    level,      \* tank_level
    lit,        \* the lights: green_light and red_light
    clock,      \* elapsed of the self-resetting timer
    up, down,   \* what the two one-shots remember
    coil,       \* the coils the HMI writes, in the slave's register store
    saved,      \* the captured twin
    \* History, for the property; only Capture and Restore wait for it.
    branch,     \* "live", "original" since a capture, "repeat" since a restore
    trail,      \* the ticks of the original: their inputs, the twin after
    pos         \* the tick of the trail to be repeated next

twinVars == <<bit, level, lit, clock, up, down>>
labVars == <<twinVars, coil, saved, branch, trail, pos>>

\* Everything the next scan depends on.
Twin == [bit |-> bit, level |-> level, lit |-> lit,
         clock |-> clock, up |-> up, down |-> down]

Twins == [bit : [DOMAIN NativeBit -> BOOLEAN], level : Int,
          lit : [green : BOOLEAN, red : BOOLEAN],
          clock : 0 .. (Period - 1), up : BOOLEAN, down : BOOLEAN]
TickInputs == [coil : [Buttons -> BOOLEAN], reset : BOOLEAN]

LabTypeOK ==
    /\ Twin \in Twins
    /\ coil \in [Buttons -> BOOLEAN]
    /\ saved \in Twins
    /\ branch \in {"live", "original", "repeat"}
    /\ trail \in Seq([inputs : TickInputs, twin : Twins])
    /\ Len(trail) <= MaxTrail
    /\ pos \in 0 .. MaxTrail

Dark == [green |-> FALSE, red |-> FALSE]

InitialTwin == [bit |-> InitialBit, level |-> 0, lit |-> Dark,
                clock |-> 0, up |-> FALSE, down |-> FALSE]

LabInit ==
    /\ bit = InitialTwin.bit /\ level = InitialTwin.level
    /\ lit = InitialTwin.lit /\ clock = InitialTwin.clock
    /\ up = InitialTwin.up /\ down = InitialTwin.down
    /\ coil = [b \in Buttons |-> FALSE]
    /\ saved = InitialTwin
    /\ branch = "live"
    /\ trail = <<>>
    /\ pos = 0

-----------------------------------------------------------------------------
Steps(edge) == IF edge THEN 1 ELSE 0

\* Mutation: the clock's output is left on.
NextClockStaysOn(timer) == timer.elapsed

\* The program rewinds its timer on every pulse, within the same scan.
NextClock(timer) == IF timer.q THEN 0 ELSE timer.elapsed

\* Mutation: the limits are those of the level the scan began with.
PermissionsLag(old, new) ==
    [tank_drain |-> old >= 1, tank_fill |-> old <= TankLevelMax]

Permissions(old, new) ==
    [tank_drain |-> new >= 1, tank_fill |-> new <= TankLevelMax]

\* The bits a tick leaves.  %M5 is written by no rung: it is what the owner has
\* forced it to.
BitsAfter(run, allowed, inputs) ==
    [b \in DOMAIN NativeBit |->
        CASE b \in DOMAIN run -> run[b]
          [] b \in DOMAIN allowed -> allowed[b]
          [] b \in Buttons -> inputs.coil[b]
          [] b = "tank_reset" -> inputs.reset]

\* The scan, and the synchronisation after it, which copies the coils to the
\* button tags the next scan reads.
Scanned(twin, inputs) ==
    LET old == twin.bit
        run == SealedIn(old, old["oit_start_button"], old["oit_stop_button"])
        timer == TON([elapsed |-> twin.clock, q |-> FALSE], Period, TRUE, 1)
        mayFill == timer.q /\ run.start_bit /\ old["tank_fill"]
        mayDrain == timer.q /\ run.stop_bit /\ old["tank_drain"]
        new == IF inputs.reset THEN 0
               ELSE twin.level + Steps(ONS(twin.up, mayFill))
                               - Steps(ONS(twin.down, mayDrain))
    IN  [bit |-> BitsAfter(run, Permissions(twin.level, new), inputs),
         level |-> new,
         lit |-> [green |-> run.stop_bit, red |-> run.start_bit],
         clock |-> NextClock(timer),
         up |-> mayFill,
         down |-> mayDrain]

\* What the owner and the HMI have done for the coming tick.
Inputs == [coil |-> coil, reset |-> bit["tank_reset"]]

\* The tags of a twin, and its program's blocks.
LoadTags(twin) == bit' = twin.bit /\ level' = twin.level /\ lit' = twin.lit
LoadBlocks(twin) == clock' = twin.clock /\ up' = twin.up /\ down' = twin.down

ScanAndSync ==
    LET after == Scanned(Twin, Inputs)
    IN  LoadTags(after) /\ LoadBlocks(after)

Repeats == branch = "repeat" /\ Inputs = trail[pos].inputs

\* The history: the original run is written down, a restored one compared
\* with it until it is driven differently.
TickTrail ==
    CASE branch = "original" /\ Len(trail) < MaxTrail ->
            /\ trail' = Append(trail, [inputs |-> Inputs, twin |-> Twin'])
            /\ UNCHANGED <<branch, pos, saved>>
      [] Repeats /\ pos < Len(trail) ->
            /\ pos' = pos + 1
            /\ UNCHANGED <<branch, trail, saved>>
      [] OTHER ->
            /\ branch' = "live"
            /\ trail' = <<>>
            /\ pos' = 0
            /\ saved' = InitialTwin

LabTick ==
    /\ ScanAndSync
    /\ TickTrail
    /\ UNCHANGED coil

-----------------------------------------------------------------------------
\* The HMI presses or releases one of its buttons: a coil write the server
\* thread stores.
Press(b) ==
    /\ coil' = [coil EXCEPT ![b] = ~@]
    /\ UNCHANGED <<twinVars, saved, branch, trail, pos>>

\* %M5, the counter's INIT_COUNT, is written by no rung: it is forced from
\* outside.
ForceReset ==
    /\ bit' = [bit EXCEPT !["tank_reset"] = ~@]
    /\ UNCHANGED <<level, lit, clock, up, down, coil, saved, branch, trail, pos>>

\* cold_start and power_cycle.  The program object, with its timer and
\* one-shots, is not part of the PLC's memory: it goes on as it was.
LabColdStart ==
    /\ bit' = [b \in DOMAIN NativeBit |->
                  IF b \in RetentiveBits THEN bit[b] ELSE InitialBit[b]]
    /\ lit' = Dark
    /\ UNCHANGED <<level, clock, up, down, coil, saved, branch, trail, pos>>

Capture ==
    /\ branch = "live"
    /\ saved' = Twin
    /\ branch' = "original"
    /\ UNCHANGED <<twinVars, coil, trail, pos>>

\* Mutation: restore loads the tags and leaves the program's blocks alone.
RestoreTagsOnly ==
    /\ Len(trail) = MaxTrail
    /\ LoadTags(saved)
    /\ branch' = "repeat"
    /\ pos' = 1
    /\ UNCHANGED <<clock, up, down, coil, saved, trail>>

\* The tags and the program's instruction blocks; the slave's register store
\* is not part of a snapshot.  MaxTrail bounds the comparison: the original
\* runs that far before it is restored.
Restore ==
    /\ Len(trail) = MaxTrail
    /\ LoadTags(saved) /\ LoadBlocks(saved)
    /\ branch' = "repeat"
    /\ pos' = 1
    /\ UNCHANGED <<coil, saved, trail>>

LabNext ==
    \/ LabTick
    \/ \E b \in Buttons : Press(b)
    \/ ForceReset
    \/ LabColdStart
    \/ Capture
    \/ Restore

\* serve() ticks until it is interrupted; the HMI and the owner owe nothing.
LabSpec == LabInit /\ [][LabNext]_labVars /\ WF_labVars(LabTick)

-----------------------------------------------------------------------------
(***************************************************************************)
(* Properties                                                              *)
(***************************************************************************)

\* The counter never passes the tank's top nor goes below empty, although its
\* limits are those of the scan before, over cold starts and restores.
LevelInRange == level \in 0 .. (TankLevelMax + 1)

\* A restored twin driven the way the original was does what the original
\* did: a snapshot leaves out nothing the next scan depends on.
RestoredTwinRepeats ==
    [][LabTick /\ Repeats => Twin' = trail[pos].twin]_labVars

\* A twin's permissions are those of its own level.
LevelMatches(twin) ==
    /\ twin.level \in 0 .. (TankLevelMax + 1)
    /\ twin.bit["tank_fill"] <=> twin.level <= TankLevelMax
    /\ twin.bit["tank_drain"] <=> twin.level >= 1

\* The same twin for the scan to come: the scan writes the lights and is given
\* the reset.
Agrees(one, other) ==
    /\ \A b \in DOMAIN NativeBit \ {"tank_reset"} : one.bit[b] = other.bit[b]
    /\ one.level = other.level
    /\ one.clock = other.clock
    /\ one.up = other.up /\ one.down = other.down

\* The twin tick n of the trail began with.
Before(n) == IF n = 1 THEN saved ELSE trail[n - 1].twin

\* The trail is a run of the program from the captured twin; the original is
\* at its end, a repetition where it says it is.
TrailIsARun ==
    /\ \A n \in 1 .. Len(trail) :
          trail[n].twin = Scanned(Before(n), trail[n].inputs)
    /\ branch = "live" => trail = <<>>
    /\ branch = "original" => Agrees(Twin, Before(Len(trail) + 1))
    /\ branch = "repeat" => pos \in 1 .. Len(trail) /\ Agrees(Twin, Before(pos))

LabInv ==
    /\ LabTypeOK
    /\ LevelMatches(Twin) /\ LevelMatches(saved)
    /\ TrailIsARun

\* A twin left running fills its tank to the top: the emulated clock never
\* runs dry, whatever was pressed, restarted or restored before.
RunningFillsUp ==
    <>[](bit["start_bit"] /\ ~bit["tank_reset"] /\ branch # "repeat")
        => <>[](level = TankLevelMax + 1)
=============================================================================
