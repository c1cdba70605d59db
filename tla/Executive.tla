----------------------------- MODULE Executive ------------------------------
(***************************************************************************)
(* The scan-loop driver (digitwin/executive.py).  A tick steps the plant   *)
(* and the injected faults, transfers the inputs, scans the PLC, transfers *)
(* the outputs and then feeds the observers.  Each of those calls is one   *)
(* action; pc says which one the tick has reached.  Between ticks the      *)
(* owner of the twin may restart the PLC or drive a tag by hand.           *)
(*                                                                         *)
(* The transport is any implementation of the IOTransport protocol: a read *)
(* may raise TransportError carrying whichever inputs it recovered, and a  *)
(* write may raise it after part of the outputs reached the device.        *)
(***************************************************************************)
EXTENDS PLC, OutageLog

CONSTANTS
    Wired,          \* the inputs the transport reads; tests and HMIs drive the others
    MaxTicks        \* bound on the number of ticks begun

ASSUME ExecutiveAssumption ==
    /\ Wired \subseteq InputTags
    /\ MaxTicks \in Nat

VARIABLES
    pc,             \* the call the tick has reached, or "idle" between ticks
    field,          \* what the field presents on each wired input
    device,         \* what the field device holds for each output
    ticks,          \* Executive.scan_count; elapsed is ticks * dt
    readFailures,   \* consecutive_read_failures
    writeFailures,  \* consecutive_write_failures
    watchdogSeen,   \* _watchdog_seen
    events          \* the EventLog, kept far below its capacity

(***************************************************************************)
(* History, written by the actions and read by the properties alone.       *)
(***************************************************************************)
VARIABLES
    reads,          \* the outcome of every read_inputs so far
    writes,         \* the outcome of every write_outputs so far
    trips,          \* how often the watchdog latched
    firstScans,     \* completed scans the program saw as first, since the (re)start
    restarted       \* whether the PLC was ever restarted

execVars == <<pc, field, device, ticks, readFailures, writeFailures,
              watchdogSeen, events>>
history == <<reads, writes, trips, firstScans, restarted>>
vars == <<plcVars, execVars, history>>

Directions == {"input read", "output write"}
Outcomes == {"ok", "failed"}

Events == [source : Directions, edge : {"failed", "recovered"}, scans : Nat]
            \cup [source : {"watchdog"}, edge : {"tripped"}, scans : {0}]

TypeOK ==
    /\ PLCTypeOK
    /\ pc \in {"idle", "read", "scan", "write", "observe"}
    /\ field \in [Wired -> Values]
    /\ device \in [OutputTags -> Values]
    /\ ticks \in Nat
    /\ readFailures \in Nat
    /\ writeFailures \in Nat
    /\ watchdogSeen \in BOOLEAN
    /\ events \in Seq(Events)
    /\ reads \in Seq(Outcomes)
    /\ writes \in Seq(Outcomes)
    /\ trips \in Nat
    /\ firstScans \in Nat
    /\ restarted \in BOOLEAN

Outputs == [o \in OutputTags |-> tag[o]]

Init ==
    /\ PLCInit
    /\ pc = "idle"
    /\ field \in [Wired -> Values]
    /\ device \in [OutputTags -> Values]
    /\ ticks = 0
    /\ readFailures = 0
    /\ writeFailures = 0
    /\ watchdogSeen = FALSE
    /\ events = <<>>
    /\ reads = <<>>
    /\ writes = <<>>
    /\ trips = 0
    /\ firstScans = 0
    /\ restarted = FALSE

-----------------------------------------------------------------------------
\* Mutation: a failure is logged on every scan.
LogEveryFailure(direction, failures) ==
    events' = Append(events, [source |-> direction, edge |-> "failed",
                              scans |-> 0])

\* Log a fault entry on the first failure of an outage only.
LogFailure(direction, failures) ==
    events' = IF failures = 0
              THEN Append(events, [source |-> direction, edge |-> "failed",
                                   scans |-> 0])
              ELSE events

LogRecovery(direction, failures) ==
    events' = IF failures > 0
              THEN Append(events, [source |-> direction, edge |-> "recovered",
                                   scans |-> failures])
              ELSE events

\* plant.step and _apply_faults: the field presents whatever the physics and
\* the injected faults make of it.
StepPlant ==
    /\ pc = "idle"
    /\ Len(reads) < MaxTicks
    /\ field' \in [Wired -> Values]
    /\ pc' = "read"
    /\ UNCHANGED <<plcVars, device, ticks, readFailures, writeFailures,
                   watchdogSeen, events, history>>

TransferInputs ==
    /\ pc = "read"
    /\ tag' = Assign(tag, field)
    /\ LogRecovery("input read", readFailures)
    /\ readFailures' = 0
    /\ reads' = Append(reads, "ok")
    /\ pc' = "scan"
    /\ UNCHANGED <<inputImage, outputImage, scanCount, firstScan, tripped,
                   field, device, ticks, writeFailures, watchdogSeen,
                   writes, trips, firstScans, restarted>>

\* Mutation: a read that recovered something is taken for a success.
TransferInputsPartlyIsSuccess ==
    /\ pc = "read"
    /\ \E recovered \in SUBSET Wired :
           tag' = Assign(tag, [i \in recovered |-> field[i]])
    /\ LogRecovery("input read", readFailures)
    /\ readFailures' = 0
    /\ reads' = Append(reads, "ok")
    /\ pc' = "scan"
    /\ UNCHANGED <<inputImage, outputImage, scanCount, firstScan, tripped,
                   field, device, ticks, writeFailures, watchdogSeen,
                   writes, trips, firstScans, restarted>>

\* Hold-last: the recovered inputs are applied, the others keep their value.
TransferInputsFails ==
    /\ pc = "read"
    /\ \E recovered \in SUBSET Wired :
           tag' = Assign(tag, [i \in recovered |-> field[i]])
    /\ LogFailure("input read", readFailures)
    /\ readFailures' = readFailures + 1
    /\ reads' = Append(reads, "failed")
    /\ pc' = "scan"
    /\ UNCHANGED <<inputImage, outputImage, scanCount, firstScan, tripped,
                   field, device, ticks, writeFailures, watchdogSeen,
                   writes, trips, firstScans, restarted>>

ScanPLC ==
    /\ pc = "scan"
    /\ \E staged \in PartialOver(OutputTags), live \in PartialOver(WorkTags),
          overrun \in BOOLEAN : Scan(staged, live, overrun)
    /\ trips' = IF tripped' /\ ~tripped THEN trips + 1 ELSE trips
    /\ firstScans' = IF firstScan' THEN firstScans + 1 ELSE firstScans
    /\ pc' = "write"
    /\ UNCHANGED <<field, device, ticks, readFailures, writeFailures,
                   watchdogSeen, events, reads, writes, restarted>>

\* The program raises: the exception leaves tick(), whose owner may call it
\* again later.
ScanPLCRaises ==
    /\ pc = "scan"
    /\ \E staged \in PartialOver(OutputTags), live \in PartialOver(WorkTags) :
           ScanRaises(staged, live)
    /\ pc' = "idle"
    /\ UNCHANGED <<field, device, ticks, readFailures, writeFailures,
                   watchdogSeen, events, history>>

TransferOutputs ==
    /\ pc = "write"
    /\ device' = Outputs
    /\ LogRecovery("output write", writeFailures)
    /\ writeFailures' = 0
    /\ writes' = Append(writes, "ok")
    /\ ticks' = ticks + 1
    /\ pc' = "observe"
    /\ UNCHANGED <<plcVars, field, readFailures, watchdogSeen,
                   reads, trips, firstScans, restarted>>

\* The blocks written before the failing one have reached the device.
TransferOutputsFails ==
    /\ pc = "write"
    /\ \E written \in SUBSET OutputTags :
           device' = Assign(device, [o \in written |-> tag[o]])
    /\ LogFailure("output write", writeFailures)
    /\ writeFailures' = writeFailures + 1
    /\ writes' = Append(writes, "failed")
    /\ ticks' = ticks + 1
    /\ pc' = "observe"
    /\ UNCHANGED <<plcVars, field, readFailures, watchdogSeen,
                   reads, trips, firstScans, restarted>>

\* Mutation: the watchdog is logged as long as it is latched.
ObserveLevel ==
    /\ pc = "observe"
    /\ events' = IF tripped
                 THEN Append(events, [source |-> "watchdog", edge |-> "tripped",
                                      scans |-> 0])
                 ELSE events
    /\ watchdogSeen' = tripped
    /\ pc' = "idle"
    /\ UNCHANGED <<plcVars, field, device, ticks, readFailures, writeFailures,
                   history>>

\* The watchdog is logged on its rising edge, as this hook sees it.
Observe ==
    /\ pc = "observe"
    /\ events' = IF tripped /\ ~watchdogSeen
                 THEN Append(events, [source |-> "watchdog", edge |-> "tripped",
                                      scans |-> 0])
                 ELSE events
    /\ watchdogSeen' = tripped
    /\ pc' = "idle"
    /\ UNCHANGED <<plcVars, field, device, ticks, readFailures, writeFailures,
                   history>>

Tick ==
    \/ StepPlant
    \/ TransferInputs
    \/ TransferInputsFails
    \/ ScanPLC
    \/ ScanPLCRaises
    \/ TransferOutputs
    \/ TransferOutputsFails
    \/ Observe

-----------------------------------------------------------------------------
\* Mutation: restarting the PLC clears the transport's health.
RestartForgetsOutages ==
    /\ pc = "idle"
    /\ ColdStart \/ WarmStart
    /\ firstScans' = 0
    /\ restarted' = TRUE
    /\ readFailures' = 0
    /\ writeFailures' = 0
    /\ UNCHANGED <<pc, field, device, ticks, watchdogSeen, events, reads,
                   writes, trips>>

\* What the owner of the twin does between ticks.
RestartPLC ==
    /\ pc = "idle"
    /\ ColdStart \/ WarmStart
    /\ firstScans' = 0
    /\ restarted' = TRUE
    /\ UNCHANGED <<execVars, reads, writes, trips>>

\* plc.tags[t].value = v, from a test or an HMI.
DriveTag ==
    /\ pc = "idle"
    /\ \E t \in InputTags \cup WorkTags, v \in Values :
           tag' = [tag EXCEPT ![t] = v]
    /\ UNCHANGED <<inputImage, outputImage, scanCount, firstScan, tripped,
                   execVars, history>>

Next == Tick \/ RestartPLC \/ DriveTag

Spec == Init /\ [][Next]_vars

-----------------------------------------------------------------------------
(***************************************************************************)
(* Properties                                                              *)
(***************************************************************************)

\* An executive whose read counter is zero scans what the field presents
\* now, and one whose write counter is zero after a tick has left the device
\* holding every output of that tick: whatever blocks earlier failures lost,
\* one good exchange repairs the whole image (_on_transport_recovery).
HealthyLinkIsCoherent ==
    /\ pc = "scan" /\ readFailures = 0 => \A i \in Wired : tag[i] = field[i]
    /\ pc = "observe" /\ writeFailures = 0 => device = Outputs

\* n counts the failures at the end of the history h.
CountsTrailingFailures(n, h) ==
    /\ n <= Len(h)
    /\ \A k \in (Len(h) - n + 1)..Len(h) : h[k] = "failed"
    /\ n < Len(h) => h[Len(h) - n] = "ok"

\* The two health counters, and so transport_ok, tell exactly how long the
\* present outage of each direction has lasted: an outage of one direction,
\* a restart or a program that raises never hides or invents one.
CountersMeasureOutages ==
    /\ CountsTrailingFailures(readFailures, reads)
    /\ CountsTrailingFailures(writeFailures, writes)

\* Between two restarts the program completes exactly one scan with the
\* first-scan bit on, and it is the first it completes: a program that raised
\* in its first scan is given another one.
OneFirstScan ==
    /\ firstScans = (IF scanCount > 0 THEN 1 ELSE 0)
    /\ firstScan /\ scanCount > 0 => scanCount = 1

\* The watchdog entries of the log.
WatchdogEntries == {n \in DOMAIN events : events[n].source = "watchdog"}

\* No watchdog entry is spurious, and, as long as the PLC is never restarted,
\* none is missing once a tick has ended.
WatchdogEntriesMatchTrips ==
    /\ Cardinality(WatchdogEntries) <= trips
    /\ pc = "idle" /\ ~restarted => Cardinality(WatchdogEntries) = trips

\* A trip the observer has not come to yet is the only one that may be missing;
\* up to the first restart none is logged that did not happen, and the observer
\* is up to date from one tick's end to the next tick's scan.
Unlogged == IF tripped /\ ~watchdogSeen THEN 1 ELSE 0
WatchdogInv ==
    /\ Cardinality(WatchdogEntries) + Unlogged <= trips
    /\ ~restarted =>
          /\ Cardinality(WatchdogEntries) + Unlogged = trips
          /\ pc \in {"idle", "read", "scan"} => watchdogSeen = tripped
          /\ watchdogSeen => tripped

\* Physical outputs move only when a scan completes or a cold start resets
\* them: a program that raises half way leaves none of its outputs behind.
OutputsMoveTogether ==
    [][Outputs' # Outputs =>
          \/ scanCount' = scanCount + 1
          \/ scanCount' = 0 /\ outputImage' = NoImage]_vars

\* events.py says the executive logs "the events it can see on its own
\* (start, restart, watchdog trip, ...)": every trip is logged by the end of
\* its tick.
EveryTripIsLogged ==
    pc = "idle" => Cardinality(WatchdogEntries) = trips

-----------------------------------------------------------------------------
\* The entries one direction of the link has in the event log.
LinkEntries(direction) == {n \in DOMAIN events : events[n].source = direction}
LinkLog(direction) ==
    LET entries == LinkEntries(direction)
    IN  [n \in 1..Cardinality(entries) |->
            [edge |-> events[Nth(entries, n)].edge,
             scans |-> events[Nth(entries, n)].scans]]

ReadAlarm == INSTANCE LinkAlarm
                WITH exchanges <- reads, log <- LinkLog("input read")
WriteAlarm == INSTANCE LinkAlarm
                WITH exchanges <- writes, log <- LinkLog("output write")

\* Each direction of the link, read through the shared event log, implements
\* the alarm promise of LinkAlarm: one entry when an outage begins, one with its
\* length when it ends.
OutagesAreAlarmed == ReadAlarm!Spec /\ WriteAlarm!Spec
=============================================================================
