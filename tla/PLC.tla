-------------------------------- MODULE PLC ---------------------------------
(***************************************************************************)
(* The programmable controller (digitwin/plc.py): its tag table, the three *)
(* phase scan cycle (freeze the inputs, run the program, flush the staged  *)
(* outputs) and its cold and warm restarts.                                *)
(*                                                                         *)
(* The program is a Python callable the PLC calls back.  Any program that  *)
(* keeps to the documented interface is allowed: it stages physical        *)
(* outputs with write_output and writes memory tags live with write.  It   *)
(* may run over the watchdog budget, and it may raise.                     *)
(***************************************************************************)
EXTENDS Naturals

CONSTANTS
    InputTags,      \* DISCRETE_INPUT and ANALOG_INPUT tags
    OutputTags,     \* DISCRETE_OUTPUT and ANALOG_OUTPUT tags
    WorkTags,       \* INTERNAL_BIT and WORD tags a program uses
    FirstScanTag,   \* the profile's first-scan system bit
    Retentive,      \* the tags kept over a cold start
    Values,         \* the values a tag can hold
    InitialValue    \* each tag's initial_value

Tags == InputTags \cup OutputTags \cup WorkTags \cup {FirstScanTag}

\* Every tag has exactly one type; the first-scan bit is a plain INTERNAL_BIT
\* outside the profiles' retain ranges.
ASSUME TagAssumption ==
    /\ InputTags \cap OutputTags = {}
    /\ InputTags \cap WorkTags = {}
    /\ OutputTags \cap WorkTags = {}
    /\ FirstScanTag \notin InputTags \cup OutputTags \cup WorkTags
    /\ Retentive \subseteq Tags \ {FirstScanTag}

ASSUME ValueAssumption ==
    /\ BOOLEAN \subseteq Values
    /\ InitialValue \in [Tags -> Values]
    /\ InitialValue[FirstScanTag] = FALSE

VARIABLES
    tag,            \* the value of every tag
    inputImage,     \* the inputs frozen for the scan
    outputImage,    \* the outputs the program staged
    scanCount,      \* scans completed since the last (re)start
    firstScan,      \* the first_scan attribute
    tripped         \* watchdog_tripped: latched until a restart

plcVars == <<tag, inputImage, outputImage, scanCount, firstScan, tripped>>

\* A dict with any of the keys S.
PartialOver(S) == UNION {[K -> Values] : K \in SUBSET S}

\* for name, value in update.items(): table[name] = value
Assign(table, update) ==
    [t \in DOMAIN table |->
        IF t \in DOMAIN update THEN update[t] ELSE table[t]]

NoImage == [t \in {} |-> FALSE]

PLCTypeOK ==
    /\ tag \in [Tags -> Values]
    /\ inputImage \in PartialOver(InputTags)
    /\ outputImage \in PartialOver(OutputTags)
    /\ scanCount \in Nat
    /\ firstScan \in BOOLEAN
    /\ tripped \in BOOLEAN

PLCInit ==
    /\ tag = InitialValue
    /\ inputImage = NoImage
    /\ outputImage = NoImage
    /\ scanCount = 0
    /\ firstScan = FALSE
    /\ tripped = FALSE

-----------------------------------------------------------------------------
\* What a scan does before it calls the program, and the program's own live
\* writes to memory tags.
ProgramRuns(live) ==
    /\ firstScan' = (scanCount = 0)
    /\ inputImage' = [t \in InputTags |-> tag[t]]
    /\ live \in PartialOver(WorkTags)

TagsAfterProgram(live) ==
    Assign([tag EXCEPT ![FirstScanTag] = (scanCount = 0)], live)

\* PLC.scan when the program returns, having staged `staged`, written `live`
\* and taken longer than the watchdog budget or not.
Scan(staged, live, overrun) ==
    /\ staged \in PartialOver(OutputTags)
    /\ ProgramRuns(live)
    /\ outputImage' = staged
    /\ tag' = Assign(TagsAfterProgram(live), staged)
    /\ tripped' = (tripped \/ overrun)
    /\ scanCount' = scanCount + 1

\* Mutation: the outputs are flushed in a finally clause.
ScanRaisesFlushes(staged, live) ==
    /\ staged \in PartialOver(OutputTags)
    /\ ProgramRuns(live)
    /\ outputImage' = staged
    /\ tag' = Assign(TagsAfterProgram(live), staged)
    /\ UNCHANGED <<scanCount, tripped>>

\* PLC.scan when the program raises: the staged outputs are never flushed,
\* the watchdog is not evaluated and the scan is not counted.
ScanRaises(staged, live) ==
    /\ staged \in PartialOver(OutputTags)
    /\ ProgramRuns(live)
    /\ outputImage' = staged
    /\ tag' = TagsAfterProgram(live)
    /\ UNCHANGED <<scanCount, tripped>>

\* Mutation: the restart forgets the scan counter.
RestartKeepsCount ==
    /\ firstScan' = FALSE
    /\ tripped' = FALSE
    /\ inputImage' = NoImage
    /\ outputImage' = NoImage
    /\ UNCHANGED scanCount

Restart ==
    /\ scanCount' = 0
    /\ firstScan' = FALSE
    /\ tripped' = FALSE
    /\ inputImage' = NoImage
    /\ outputImage' = NoImage

\* Mutation: a cold start rebuilds the table from the retentive tags alone.
ColdStartKeepsRetentive ==
    /\ tag' = [t \in Retentive |-> tag[t]]
    /\ Restart

\* cold_start, and power_cycle, which is the same call.
ColdStart ==
    /\ tag' = [t \in Tags |->
                 IF t \in Retentive THEN tag[t] ELSE InitialValue[t]]
    /\ Restart

WarmStart ==
    /\ Restart
    /\ UNCHANGED tag
=============================================================================
