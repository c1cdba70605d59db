# A TLA+ model of DigiTwin

DigiTwin couples a soft PLC to a simulated plant: an *executive* ticks plant,
faults, transport and PLC in lockstep, a *historian*, an *event log* and
*snapshots* observe it, and *Modbus* adapters put either side on the wire.
A *project file* describes a twin, a *hardware profile* says what its PLC can
address, and three control programs come with demonstration plants. This project
models all of that from its source under `src/src/digitwin/`, checks the models
with TLC and proves most of their safety properties with TLAPS, for every value of
the constants.
`PROJECT.json` maps every definition to the lines it stands for.

## 1. Inventory

| Component | State | Operations | Hard behaviour | What makes it correct |
|---|---|---|---|---|
| `plc.py` PLC | tag table, frozen input image, staged output image, scan count, first-scan bit, watchdog latch | scan, cold and warm start, power cycle, direct tag access | a program that raises in mid scan; restarts after aborted scans | outputs change together at the end of a scan, or not at all; one first scan per start |
| `executive.py` Executive | tick count, elapsed time, two failure counters, watchdog state last seen, pacing deadline and jitter | tick, run, mode, reset_pacing | reads and writes failing independently, wholly or partly; restarts between ticks; late ticks | counters measure outages, each outage logged once at either end, a healthy link means a coherent image; no drift, no burst |
| `io.py` bus and transports | signal values | read_inputs, write_outputs | partial exchanges carried by `TransportError.recovered` | as above |
| `historian.py` Historian | ring buffer, last values, next periodic time | record, clear, queries | a buffer that drops in mid batch, time that steps back | trend stays current and truthful |
| `events.py` EventLog | bounded buffer | log, query | edges over restarts | every documented event is logged |
| `snapshot.py` snapshots | captures | capture, restore, rewind | state that is not part of a snapshot; lists that changed shape | after a restore the twin goes on from the captured state |
| `replay.py` record and replay | two frame sequences, a cursor | record, replay, diff | failed reads, hand-driven inputs, end of the recording | a replay reproduces the run |
| `adapters/modbus.py` client | connection | read_inputs, write_outputs, connect, close | several requests per image while the remote moves; a failure between two | whole values; repaired by the next good write; foreign registers untouched |
| `adapters/modbus.py` slave | register store shared with a server thread | sync, start, stop | the remote master's requests between any two steps of sync | commands arrive whole; the window is recent |
| `faults.py` faults | active flag, accumulated drift, frozen value | step, switching `active` | several faults on one signal, pauses, rewinds, dropouts | PLC reads what the list of faults says |
| `instructions.py` blocks | elapsed, count, edge memory | one call per scan | presets between scans, resets over an edge | each is the function of its input history IEC gives it |
| `programs/motor_conveyor.py` | latches in tags, a timer | one call per scan | the proving timer races the motor's ramp; restarts keep the timer and clear the tags | unproven motor dropped, sound motor never trips, every fault earned |
| `programs/start_stop_tank.py` | two latch bits in tags | one call per scan | acts on the last level that reached it while the plant runs on | valves never both open, overshoot bounded by the outage, gets where it is driven |
| `programs/m221_tank_twin.py`, `examples/m221_lab_twin.py` | bits and a counter in `%M`, `%MW`; a timer, two one-shots | one call per scan, served to an operator panel | permissions computed in one scan and used in the next, over restarts and restores | level in range, a restored twin repeats itself, the emulated clock never dies |
| `plant/` | floats; FIFO, integral, dead time | step | ramps, delays, hysteresis, wind-up, chattering commands | each is the function of its signal's history its docstring promises |
| `hardware.py`, `models/` | none | address parse and format, range and retention checks | many spellings of one terminal | a terminal has one tag, wiring finds it |
| `config.py` | none past loading | one builder per section | each section's except clauses catch some exceptions; what one builder leaves unchecked another, or a tick, trips over | what becomes of a file is what it deserves as a whole; a terminal has one tag |
| `cli.py` | none | print, run | argument parsing | not modelled, see section 8 |

How they interact: `Executive.tick` calls `plant.step`, the faults' `step`,
`transport.read_inputs`, `plc.scan` (which calls the program back),
`transport.write_outputs`, and then the observers: watchdog edge, historian,
snapshot recorder, Modbus slave. Everything is one thread of Python except
the slave's server, which shares a locked register store with `sync`.
Between ticks the owner may do anything: write tags, restart the PLC, switch
faults, rewind. `load_project` runs once, before the first tick, and hands the
executive what its builders made.

## 2. Modules

| Module | Models | Composition |
|---|---|---|
| `PLC` | `plc.py` | open actions; extended by `Executive` |
| `Ranks` | the members of a set of numbers in increasing order: constant operators | extended by `OutageLog` and `Historian` |
| `OutageLog` | reading a log of outages: constant operators | extended by the next two |
| `LinkAlarm` | abstract specification of the log of one direction of a link: one entry when an outage begins, one when it ends, with its length | instantiated twice by `Executive` |
| `Executive` | `executive.py` `tick` and its phases, restarts, hand-driven tags | extends `PLC`, implements `LinkAlarm` for reads and for writes |
| `Pacing` | `Executive._pace`, `reset_pacing`, mode changes | alone: it shares no state with the tick |
| `Historian` | `historian.py` | open actions; extended by `Rewind` |
| `Rewind` | tick, `SnapshotRecorder`, `Snapshot.restore`, `Historian.clear` | extends `Historian` |
| `Recording` | `replay.py`: a recorded run, then its replay | alone |
| `RegisterMap` | register codec and block coalescing, pure operators | used by the next three |
| `RegisterCodec` | one value sent, received and sent on | extends `RegisterMap` |
| `ModbusClient` | client transport, request by request, against a moving remote slave | extends `RegisterMap` |
| `ModbusSlave` | sync, one tag at a time, against a remote master and the server's start, bind and stop | extends `RegisterMap` |
| `Instructions` | TON, TOF, CTU, ONS as operators | used by `InstructionBlocks`, `MotorConveyor` and `LabTwin` |
| `InstructionBlocks` | any calls of the four blocks, with their history | extends `Instructions` |
| `MotorConveyor` | the twin of `examples/motor_conveyor.toml`, closed loop | extends `Instructions` |
| `SealIn` | the start/stop latch both tank programs open with | used by the next two |
| `TankTwin` | the twin of `examples/tank.toml`: program, tank, level sensor, dropout | extends `SealIn` |
| `LabTwin` | the laboratory twin: program, operator panel, capture and restore of the whole twin | extends `SealIn`, `Instructions` |
| `PlantComponents` | `TransportDelay`, `DiscreteSensor`, `PIDLoop`, `Valve` with the history of their signals | alone |
| `Faults` | `faults.py`, the in-process transport's read, captures and restores of the fault list | alone |
| `Hardware` | the two address syntaxes, the profile checks, the catalogue; pure operators | used by `Project` |
| `Project` | `config.py` builder by builder, `PLC.define_tag`, and the resolution of wired terminals at every tick | extends `Hardware` |

The theorems about a module are in a module of their own: `ExecutiveProofs`,
`RewindProofs`, `FaultsProofs` and `ProjectProofs` each extend the one they are named
for, `RunProofs` `Pacing` and `Recording`, `ModbusProofs` `ModbusClient` and
`ModbusSlave`, `TwinProofs` the three twins, `LibraryProofs` `RegisterCodec`,
`InstructionBlocks` and `PlantComponents`.

The `MC*` modules give constants their values. Two of them put independent
subjects into one run, the initial state choosing which one moves:
`MCPrograms` the three twins `MotorConveyor`, `TankTwin` and `LabTwin`,
`MCLibrary` the building blocks `RegisterCodec`, `InstructionBlocks` and
`PlantComponents`. The names of these modules' operators carry a prefix
(`MotorTick`, `TankTick`, `LabTick`), and so do some of `Pacing` and `ModbusClient`, so that they
can be extended together; each has a specification of its own (`MotorSpec`, `TankSpec`,
`LabSpec`, `CodecSpec`, `BlockSpec`, `ComponentSpec`, `PacingSpec`, `ClientSpec`).

Correspondence. A variable is named for the attribute it stands for
(`readFailures` is `read_failures`, `lastJitter` is `last_jitter_s`) and
commented where it is declared. An action is one method or one phase of
`tick`; the program counter `pc` of `Executive` and `ModbusSlave` stands for
the place in `tick` or `sync`. Error paths are actions of their own
(`TransferInputsFails`, `ScanPLCRaises`, `ReadBlockFails`, `TickRaises`).
Variables under "History" exist for the properties and for the bounds: some
count what a constant limits (`reads`, `rewinds`, `calls`, `writesDone`, `steps`). Three
actions read one for another reason, and explore fewer behaviours than
the code has: `Faults.Capture` is possible only while no fault was switched
since the last tick (`quiet`), where `SnapshotRecorder` captures; the
captures an owner takes later are left out. `LabTwin.Capture` takes none while a
comparison is under way (`branch`), and `LabTwin.Restore` waits until the original has run
as far as it is to be compared (`trail`). No guard that models a condition of the code reads one. Definitions under a comment "Mutation: ..." are
plausible bugs; no specification uses them, and `PROJECT.json` names the
property each one breaks.

## 3. Abstractions

- The control program of `Executive` is *any* callable that keeps to the PLC's
  interface: it stages any outputs, writes any memory tags, may overrun the
  watchdog budget and may raise. `Recording` takes any deterministic
  program as a constant function, and its bounds enumerate them all.
- The plant is what it writes on the bus: any value at any tick; only
  `MotorConveyor` and `TankTwin` have a concrete plant. (`LabTwin` has none: its
  tank is a counter of the program.) The tank's level counts in halves of a
  sensor count, so that the sensor's rounding shows, and the outflow of
  Torricelli's law is any positive draw up to a bound.
- An address is a spelling: an area, its numbers, and whether the last is padded
  with zeros. A section of a project file is spelt out where it decides about
  tags and wiring (profile, tags, wiring, window, what the program asks for); there
  the model says itself which exception a declaration raises. Of every other section
  the file says which exception its code meets, if any (`raises`), and the model
  which of them its except clauses turn into a `ConfigError` (`Handled`). That a
  particular wrong value raises a particular exception is therefore not modelled; the
  run's `Defects` lists, section by section, exceptions the loader was seen to
  raise. Values that are only looked at in a tick are a set of sections (`lurks`)
  and may raise in any tick.
- Values are model values or small integers. Where a conversion matters it is
  kept: the register codec rounds half to even, wraps modulo the word size,
  swaps bytes and words; the transport's `int()` truncates toward zero.
- The blocks of a Modbus map are sets, each beginning where every channel before it has
  ended, which is what the loop of `_blocks` groups; the order of two channels with one
  address is left out.
- `RegisterMap` has a constant `Radix` in place of 256, so that TLC can
  enumerate all registers; encoding depends on the radix only through powers
  of it.
- Floating-point time is counted in whole units. The rounding of `dt`, and the
  tolerance that absorbs it in the timers, are left out.
- A `TransportError` is the only failure of a transport. pymodbus, the remote
  slave and the remote master are external and do anything Modbus allows.

## 4. Runs

| Run | Question | Bounds |
|---|---|---|
| `Executive_scan` | Do counters, log and healthy flag tell the truth about a failing link? First scan, watchdog entries and atomic outputs over restarts and raising programs? | two inputs, so a read can be partial, and one output; three ticks, so an outage can begin, last and end; restarts and hand-driven tags between any two |
| `Executive_trips` | violation: is every trip logged? | the smallest twin |
| `Rewind_trend` | Is an on-change trend current and true over rewinds and drops? Does a periodic one keep its rate? | all three sample modes; two tags, a buffer of three samples (a batch of two overflows it), two captures, two rewinds, an interval of one and a half ticks |
| `Recording_replay` | Does a replay reproduce the run, for every program? | two input tags, one unwired; every deterministic program over two values |
| `ModbusClient_exchange` | What do partial reads and writes leave? | three wirings: contiguous, with a gap, 32-bit; two calls; a remote that moves between requests |
| `ModbusSlave_window` | Do commands and published values survive the interleaving? | one 32-bit and one single-register command, two master writes, start, bind, stop at any point |
| `Pacing_cadence` | Drift, burst | intervals 0, 2 and 3, ticks up to more than twice the interval, oversleep 1, clock 14 |
| `Programs_twins` | The three twins, closed loop, over presses, cold starts, intermittent contacts, lost exchanges, captures and restores | conveyor: ramp and proving time in the example's ratios, no other bound; tank: seven counts, interlock at five, outages counted to three; laboratory: levels 0 to 2, a clock of three scans, one tick of the original compared |
| `Library_histories` | What does a register lose? Are blocks and components the function of their history they promise? | radix 4, every kind, length, order and five scales, values over one and a half ranges; histories of six calls, with a preset of two and a half scans, and of six ticks, longer than delay, dead time and travel together |
| `Faults_level` | What does the PLC read under faults, dropouts and restores? | four lists of two faults on one signal (faults on different signals do not meet), three ticks, one snapshot restored any number of times |
| `Project_loads` | Do tags, terminals and wiring correspond? Is what becomes of a file what it deserves? | the three catalogued profiles with none or two tags out of fifteen declarations (two spellings of a terminal, neighbours, every kind of area, out of range, foreign syntax, a system bit, no address, a number for an address) and one wire either way; inline profiles, of both syntaxes, with bounds or retain ranges that are no numbers; a sound file with one section or two spoilt, by each exception of `Defects`; sound files whose tick lacks something, over either transport, with and without a dropout |
| `Project_leaks` | violation: is every structural problem a `ConfigError`? | bad addresses, dangling wires and outputs on the catalogued profiles; inline profiles of both syntaxes that say no more than they must |

Deadlock is checked in every run but `Recording_replay`, where a replay ends:
elsewhere the owner of a twin can always do something. `CallsEnd` and `StepsEnd`
are the bounds' own ends of a history; `Ended` in `Project` is a load or a run
that has failed, after which there is no twin.

Most modules with state document it in a type invariant. TLC checks that of
`Executive`; the others are part of the inductive invariants of section 6, as far
as those need them. Every inductive invariant was checked with TLC, on the
instance of its module's run, before it was proved.

One tick of comparison is enough in `LabTwin`: `RestoredTwinRepeats` compares
everything the next scan depends on, so a restored run that ever differs does so
at a first tick, and the capture may be taken right before that one.

What the bounds leave out. `MaxTicks` bounds a behaviour's length, not the
kinds of step; the properties over counters are proved for every length in
`ExecutiveProofs`. A buffer longer than three samples, more than two captures,
or more than two rewinds repeat the situations of the small ones: a full
buffer, a capture on an abandoned branch, a branch off a branch.

## 5. Fairness

- `ModbusSlave`: `WF_vars(Sync)`. `Executive.run` keeps ticking and `sync` does
  not block, so its steps are taken as long as the twin runs. Nothing is owed
  by the server thread, by the owner or by the remote master. Under it
  `CommandsArrive` says that a command stays unabsorbed only if overwritten.
- `TankTwin`: `WF_tankVars(TankTick)`, because `Executive.run` ticks for ever.
  Nothing is owed by the buttons, by restarts or by the dropout, so
  `SettlesWhereDriven` asks for a twin that is left running with its link up.
- `LabTwin`: `WF_labVars(LabTick)`, because `serve()` ticks until it is
  interrupted; panel and owner owe nothing.
- No other run needs fairness; their properties are safety.

## 6. Proofs

Every theorem is about the module's full specification: for all values of its
constants that satisfy its named assumptions, which TLC evaluates in the runs, and
for behaviours of any length.

| Theorem | Property it states |
|---|---|
| **`ExecutiveProofs`** | any tags, values, program, transport, restarts |
| `TypeCorrect` | `TypeOK` |
| `CountersCorrect` | `CountersMeasureOutages`: the counters are the lengths of the present outages |
| `LinkCoherent` | `HealthyLinkIsCoherent`: with no failure counted, inputs and outputs carried are whole images |
| `FirstScanOnce` | `OneFirstScan` |
| `OutputsAtomic` | `OutputsMoveTogether`, an action property |
| `WatchdogIsLogged` | `WatchdogEntriesMatchTrips` |
| `LinkAlarmImplemented` | `OutagesAreAlarmed`: the executive implements `LinkAlarm`, for reads and for writes |
| **`RunProofs`** | any intervals, modes, tick durations; any inputs, program, field and failures |
| `CadenceDoesNotDrift`, `NoTickCatchesUp` | `NoDrift`, `NoCatchUpBurst` |
| `ReplaysAreFaithful` | `ReplayReproduces` |
| **`RewindProofs`** | any tag table, buffer, capture rate, recorder size, number of rewinds |
| `RewindsFindTheBranch` | `RewindsStayOnBranch` |
| `TrendStaysCurrent`, `BranchesAreReconstructed` | `LatestIsCurrent`, `ReconstructionIsTrue` |
| `PeriodicKeepsItsRate` | `PeriodicKeepsRate` |
| `StoresStayBounded` | `TypeOK` of `Rewind`: neither store ever outgrows its capacity |
| **`ModbusProofs`** | any wiring of non-overlapping channels, any remote slave; any pair of separate register maps, any master |
| `ReadsStayWhole`, `GoodWritesComplete` | `ReadsAreWhole`, `GoodWriteIsComplete` |
| `UnmappedStaysUntouched` | `UnmappedUntouched`, an action property, for overlapping channels too |
| `CommandsStayWhole`, `WindowStaysRecent` | `CommandsAreWhole`, `WindowIsRecent` |
| **`FaultsProofs`** | any plan of faults on any signals, any values |
| `DriftsKeepTheirTime` | `DriftIsItsActiveTime` |
| `InputsShowTheFaults` | `PlcSeesTheFaults` |
| **`TwinProofs`** | any proving time, ramp, tank and scan period |
| `UnprovenMotorIsDropped`, `FaultsAreEarned`, `SoundMotorRuns` | `UnprovenIsDropped`, `FaultIsEarned`, `SoundMotorNeverTrips` |
| `ValvesExclude`, `OvershootIsBounded` | `NeverBothValves`, `OvershootIsTheOutage` |
| `LevelStaysInRange`, `RestoredRunsAreTheOriginal` | `LevelInRange`, `RestoredTwinRepeats` |
| **`LibraryProofs`** | any preset, delay, gain, scaling; histories of any length |
| `TimersAreExact`, `RisesAreExact` | `TimersAreDelays`, `RisesAreSeenOnce` |
| `SignalsAreExact`, `IntegralIsBounded`, `ValveIsPatient` | `SignalsKeepTheirHistory`, `NoWindup`, `ValveTravelsWhenSteady` |
| `FittingValuesReturn`, `FlippedOrdersReverse` | `ReturnsWhatFits`, `FlippedOrdersReverseBytes` |
| **`ProjectProofs`** | any set of files, profiles and declarations |
| `TerminalsHaveOneTag`, `TheFileDecides` | `OneTagPerTerminal`, `OutcomeIsTheFile` |

### Assumptions

Most are types and positive sizes. Those that say more:

- `ProvesInTime` (`SoundMotorRuns`): a motor at rest reaches its run contact's
  speed within the proving time. It is the commissioning rule of the conveyor:
  without it a sound motor does trip. The example's numbers satisfy it.
- `OwnRegisters` (`ReadsStayWhole`, `GoodWritesComplete`): no two channels of the inputs,
  or of the outputs, share a register. The code does not enforce it; channels that
  share one overwrite each other in every request. The run's wirings satisfy it.
- `Separate` (`CommandsStayWhole`, `WindowStaysRecent`): no two entries of the maps
  share a tag, or a register of one kind. The code does not enforce it: with a
  shared register the last entry published wins, and neither property holds. The
  run's maps satisfy it.
- `WholeFrames` (`ReplaysAreFaithful`): the recorder was told of the PLC, or no input
  is driven by hand. It is what `replay.py:95` has the `plc` argument for:
  without it a replay does not see the hands, and differs. The run has a
  hand-driven input and satisfies it.
- `FilesAssumption`: the system tags, bounds and retain ranges of a *catalogued*
  profile are sound, which `models/` shows; those of an inline profile may be
  anything. The exceptions sections meet may be any, at any sections.
- `ComponentAssumption` takes any gains and output limits; `NoWindup` itself says
  "if `Ki >= 0`" (section 7).
- `LabAssumption`: a scan is shorter than the emulated clock's period (section 7).

### The arguments

*Executive.* `TypeOK` is inductive as it stands, one step per phase of the tick;
`AssignType`, `ScanType` and `ScanRaisesType` say that images assigned over a tag
table give a tag table. The counters are inductive together with it: an exchange
appends to the history what it adds to the counter. Outputs move together because
program writes reach no output tag (`NotAnOutput`). `WatchdogInv` counts the
entries together with the one trip the observer may not have come to yet. The
refinement maps each direction's counter and its part of the log; `OutageLog` states
"the n-th entry of a kind" without recursion, so that appending an entry
changes no earlier one.

*Pacing.* `CadenceInv`: a deadline is the cadence's origin plus whole intervals, and
a steady cadence's last tick ended within one oversleep of it.

*Rewind.* `BranchInv`: captures are of multiples of `Every` only, and every tick's
look-up is on the branch. The first part is needed because a tick *without* a
capture must not find an abandoned capture of its own number; a tick *with* one puts
its entry behind all abandoned ones, and `At` takes the last that fits. Minima and
maxima of positions come from the well-foundedness of `<` (`LeastNumber`).
`TrendInv`: the newest sample the buffer shows of a tag is the value the change
detector remembers, so a tag that is not sampled has not changed; dropping from
the front leaves a tag's newest sample or nothing of it. `HistoryInv`: samples are in
order of time, and those up to each past tick show the tag table it had.
`PeriodicInv`: the next due time is the time of the next batch. A batch is the
changed positions of the tag table in increasing order; `RanksAndMembers` says that
ranks and members correspond one to one.

*Recording.* `RecordedInv`: up to the first incident the program has seen the
frames stored, and each recorded output is what it remembers of them. `ReplayedInv`:
the replaying program has seen the same frames as far as the cursor, then the
last one over and over, and the failures are the scans past the end.

*ModbusClient.* `BlocksCover`: every channel is in a block, the one that begins at the
greatest start not above it. `BlocksHaveNoGap`: a request covers no register but those
of its channels; were there another, the next channel of the block would begin a
block of its own. `ReadsInv` adds to the property that what an input presents now
has been held too, which a request in the middle of a call relies on; `WritesInv` that
an output not driven yet is in a request still to come.

*ModbusSlave.* `CommandsInv` and `WindowInv` say, for a synchronisation that has come
to entry `next`, what the entries before and after it hold. `Separate` makes a
store at one entry leave the others alone.

*Faults.* `DriftInv` ties a drift's bias to the ticks it was active, in the list and in
the captured one; the fields not concerned are tied to their own kind only.
`ReadingInv`: each signal has a *reading*, a chain of values from what the plant
wrote to what the PLC holds, a fault to a link, for the list at hand while it is
quiet and for the captured one. A tick makes the chain, for `BusUnder` is a chain of
buses (`BusUnderList`), a restore brings it back, and every change of the list ends
the quiet. `ReadingIsSum` then follows the chain from its last holding fault on. That
chains exist and that the library's fold over a set of faults adds their biases, in
whatever order it takes them, is proved by least counterexample (`InductionUpTo`,
`ChainExists`, `FoldIsSum`): the hypothesis is a set of numbers, which needs no
theorem with an operator for a parameter.

*Twins.* The conveyor's invariant ties the proving timer to the scans gone
unproven, and for a sound motor those to the speed it must have gained. The tank's
says that a fill command was given below the interlock as many ticks ago as
exchanges were lost. The laboratory's says that the permissions are those of the
level, in the twin and in the snapshot, and that the trail is a run of the program;
`Scanned` being a function of the twin and its inputs, a restored twin that agrees with
the trail repeats it.

*Library.* `TimersInv` keeps a witness: the call the input went on at, or was last
on at. `ValveInv` measures how near the valve must have come after so many steady
ticks. `WithinSlack` bounds what the derivative, and a proportional part that pulls
against the integral, can keep the output off its clamp by; past that the integral is
held, or moves back. The codec's theorems rest on lemmas about digits modulo the radix and about
the two roundings, which never add up to a whole unit.

*Project.* `TableInv` says of the tables, for the declarations taken so far, all that
`define_tag` needs to know of them. `StageInv` orders the sections by their `Turn`:
what is wrong with a file that has come to a section is in that section or a later
one. So a file that has come to its end is sound, and one that fails does so by
something that is its own (`FailureIsTheFiles`); with `SpelledAgain` (a terminal's own spelling stands for that terminal,
in both syntaxes) the outcome is a predicate of the file. To state it, `Project`
counts the declarations taken (`done`).

### Only model-checked

Liveness (`CommandsArrive`, `SettlesWhereDriven`, `RunningFillsUp`): out of the
prover's reach. Every other property of a passing run is stated by a theorem above.

## 7. What the code does against what it says

Two runs end in a counterexample to a sentence of the repository:

1. `Executive_trips`: a restart between two ticks hides the next watchdog trip
   from the event log (`_watchdog_seen` outlives the latch).
2. `Project_leaks`: `config.py:19-22` says that every structural problem raises
   `ConfigError` at load time, never a stack trace mid-run. TLC's counterexample
   is an inline SIEMENS profile with the default `first_scan_bit` `"%S13"`: it
   raises `AddressError` outside the loader's `try`. It is one of many; the model has
   these too:
   - wiring to a terminal without a tag loads and raises `ValueError` at the first
     tick (`io.py:138`), an output wired to a tag that is no output `KeyError`
     (`io.py:132`), a program whose tags the file lacks `KeyError` in its scan;
   - the builders catch `ValueError`, or that and `TypeError`, and let the others
     out: a `[[tags]]` address that is no string raises `TypeError`
     (`config.py:270`), and so do profile bounds that are no pair (`config.py:207`,
     `hardware.py:342`) and `tags = 5` of the historian (`config.py:420`, under no
     `try`); bytes that are not UTF-8 `UnicodeDecodeError` (`config.py:118`, `218`);
     an integer too large for a float `OverflowError` (`config.py:514`);
   - a `dt` below the hardware's minimum raises `ValueError`
     (`executive.py:85-93`);
   - plant components, faults and observers are dataclasses that take values of
     any type: a wrong one raises in a tick.

   `OutcomeIsTheFile` does not list the leaks. It says that another exception
   leaves the loader only through what its except clauses do not name, and a tick
   only for want of what a tick needs.

Others shaped the passing properties, which are stated so that they hold of
the code as it is:

- After a rewind `Historian.value_at` stops at the abandoned branch's first
  later sample, where its docstring promises the last sample at or before the
  time; `ReconstructionIsTrue` is about a branch without a rewind.
- After a rewind a periodic trend stores nothing until time has caught up with
  the abandoned branch (`_next_periodic` is not rewound), where
  `tests/test_snapshot.py:253` says there is no hole; `PeriodicKeepsRate` is
  about a branch without a rewind.
- The first `ModbusSlaveServer.sync` sets an accepted tag to zero though no
  master wrote it.
- After a time-out a cold start keeps the conveyor program's expired timer,
  and the next start trips at its first scan; hence `carried` in
  `FaultIsEarned`.
- Start pressed while faulted latches `run_latch`, where the program's
  docstring says it does nothing.
- A failed read stores no input frame while the scan's output frame is stored
  (`replay.py:106`), where `replay.py:38-39` pairs frames by position;
  `ReplayReproduces` speaks of the scans before the failure.
- With a scan period of a second or more the laboratory twin's clock pulse stays
  on and its counter stops; hence `LabAssumption`.
- A pause or a change of mode is charged to `worst_jitter_s` as if a tick had been
  late; no property is about jitter.
- A freeze switched off and on between two ticks replays its old value, where
  its docstring promises a fresh one.
- `PIDLoop`'s docstring holds the integral "whenever accepting it would drive
  further into that clamp"; the test (`process.py:188`) asks for the error's sign
  alone, so with a negative `ki` the integral runs on while the output is clamped.
  `NoWindup` is about the other gains.
- Restoring a snapshot after the list of faults changed length leaves dicts in
  it, and every later tick raises (`TickRaises`); hence `AllLive` in
  `PlcSeesTheFaults`.

## 8. Not modelled

- `cli.py`: arguments and printing around `Executive.run`. TOML and the wording of
  errors.
- Sinks of the historian and the log, `to_json`, file formats: output only. The
  event log's buffer and queries.
- `NoiseFault`; `Pump`, `FirstOrderActuator`, `Integrator`, `PipeSegment`,
  `ThermalMass`: floating-point numbers without control.
- `capture_state`'s walk over arbitrary objects: reflection; what it does to a
  list is in `Faults`, to a program's blocks in `LabTwin`.
- The overlap of bits, bytes and words of Siemens memory: the code treats them as
  separate and says so.
- A master that writes half of a 32-bit command in one request and half in
  another: two writes for Modbus, and the twin cannot tell.
- Stopping the slave while the server thread is binding: decided inside pymodbus.

## 9. Plan

Done: the executive with its PLC and proofs, historian and rewind, record and
replay, Modbus on both sides, pacing, instruction blocks, plant components, the
three twins, faults, hardware profiles and the project loader.

Left to model: the event log's bounded buffer and its queries.

Left to prove: nothing that a run checks but liveness.
