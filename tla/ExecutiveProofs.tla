-------------------------- MODULE ExecutiveProofs ---------------------------
(***************************************************************************)
(* The executive's type invariant and its main safety invariants, for any  *)
(* tags, values, wiring and number of ticks.                               *)
(***************************************************************************)
EXTENDS Executive, SequenceTheorems, FiniteSetTheorems, TLAPS

-----------------------------------------------------------------------------
\* A dict over part of S is a function from its own keys.
LEMMA PartialOverType ==
    ASSUME NEW S, NEW u \in PartialOver(S)
    PROVE  /\ DOMAIN u \subseteq S
           /\ \A t \in DOMAIN u : u[t] \in Values
           /\ u \in [DOMAIN u -> Values]
  BY DEF PartialOver

\* Updating a table with a dict leaves a table of the same tags.
LEMMA AssignType ==
    ASSUME NEW T, NEW table \in [T -> Values], NEW u,
           \A t \in DOMAIN u : u[t] \in Values
    PROVE  /\ Assign(table, u) \in [T -> Values]
           /\ \A t \in T : Assign(table, u)[t] =
                  IF t \in DOMAIN u THEN u[t] ELSE table[t]
  BY DEF Assign

LEMMA EmptyImage ==
    ASSUME NEW S
    PROVE  NoImage \in PartialOver(S)
<1>1. NoImage \in [{} -> Values]
  BY DEF NoImage
<1> QED
  BY <1>1 DEF PartialOver

-----------------------------------------------------------------------------
\* The program's live writes keep every tag typed.
LEMMA TagsAfterProgramType ==
    ASSUME PLCTypeOK, NEW live \in PartialOver(WorkTags)
    PROVE  TagsAfterProgram(live) \in [Tags -> Values]
<1>1. [tag EXCEPT ![FirstScanTag] = (scanCount = 0)] \in [Tags -> Values]
  BY ValueAssumption DEF PLCTypeOK, Tags
<1>2. \A t \in DOMAIN live : live[t] \in Values
  BY PartialOverType
<1> QED
  BY <1>1, <1>2, AssignType DEF TagsAfterProgram

\* The inputs frozen for a scan are a dict of input tags.
LEMMA InputImageType ==
    ASSUME PLCTypeOK
    PROVE  [t \in InputTags |-> tag[t]] \in PartialOver(InputTags)
<1>1. [t \in InputTags |-> tag[t]] \in [InputTags -> Values]
  BY DEF PLCTypeOK, Tags
<1> QED
  BY <1>1 DEF PartialOver

LEMMA ScanType ==
    ASSUME PLCTypeOK, NEW staged, NEW live, NEW overrun \in BOOLEAN,
           Scan(staged, live, overrun)
    PROVE  PLCTypeOK'
<1>1. TagsAfterProgram(live) \in [Tags -> Values]
  BY TagsAfterProgramType DEF Scan, ProgramRuns
<1>2. \A t \in DOMAIN staged : staged[t] \in Values
  BY PartialOverType DEF Scan
<1>3. tag' \in [Tags -> Values]
  BY <1>1, <1>2, AssignType DEF Scan
<1>4. inputImage' \in PartialOver(InputTags)
  BY InputImageType DEF Scan, ProgramRuns
<1> QED
  BY <1>3, <1>4 DEF PLCTypeOK, Scan, ProgramRuns

LEMMA ScanRaisesType ==
    ASSUME PLCTypeOK, NEW staged, NEW live, ScanRaises(staged, live)
    PROVE  PLCTypeOK'
<1>1. tag' \in [Tags -> Values]
  BY TagsAfterProgramType DEF ScanRaises, ProgramRuns
<1>2. inputImage' \in PartialOver(InputTags)
  BY InputImageType DEF ScanRaises, ProgramRuns
<1> QED
  BY <1>1, <1>2 DEF PLCTypeOK, ScanRaises, ProgramRuns

LEMMA RestartType ==
    ASSUME PLCTypeOK, ColdStart \/ WarmStart
    PROVE  PLCTypeOK'
<1>1. tag' \in [Tags -> Values]
  <2>1. CASE ColdStart
    BY <2>1, ValueAssumption DEF ColdStart, PLCTypeOK
  <2>2. CASE WarmStart
    BY <2>2 DEF WarmStart, PLCTypeOK
  <2> QED
    BY <2>1, <2>2
<1>2. Restart
  BY DEF ColdStart, WarmStart
<1> QED
  BY <1>1, <1>2, EmptyImage DEF PLCTypeOK, Restart

-----------------------------------------------------------------------------
\* Logging an edge keeps the event log typed.
LEMMA LogType ==
    ASSUME events \in Seq(Events), NEW d \in Directions, NEW n \in Nat,
           LogFailure(d, n) \/ LogRecovery(d, n)
    PROVE  events' \in Seq(Events)
<1>1. [source |-> d, edge |-> "failed", scans |-> 0] \in Events
  BY DEF Events
<1>2. [source |-> d, edge |-> "recovered", scans |-> n] \in Events
  BY DEF Events
<1>3. /\ Append(events, [source |-> d, edge |-> "failed", scans |-> 0])
            \in Seq(Events)
      /\ Append(events, [source |-> d, edge |-> "recovered", scans |-> n])
            \in Seq(Events)
  BY <1>1, <1>2, AppendProperties
<1> QED
  BY <1>3 DEF LogFailure, LogRecovery

\* The type invariant holds of every run of the executive.
THEOREM TypeCorrect == Spec => []TypeOK
<1>1. Init => TypeOK
  <2> SUFFICES ASSUME Init PROVE TypeOK
    OBVIOUS
  <2>1. PLCTypeOK
    BY ValueAssumption, EmptyImage DEF Init, PLCInit, PLCTypeOK
  <2> QED
    BY <2>1, EmptySeq DEF Init, TypeOK
<1>2. TypeOK /\ [Next]_vars => TypeOK'
  <2> SUFFICES ASSUME TypeOK, [Next]_vars PROVE TypeOK'
    OBVIOUS
  <2>0. Wired \subseteq Tags /\ OutputTags \subseteq Tags /\ InputTags \subseteq Tags
    BY ExecutiveAssumption DEF Tags
  <2>1. CASE StepPlant
    BY <2>1 DEF StepPlant, TypeOK, PLCTypeOK, plcVars, history
  <2>2. CASE TransferInputs
    <3>1. tag' \in [Tags -> Values]
      BY <2>2, AssignType DEF TransferInputs, TypeOK, PLCTypeOK
    <3>2. events' \in Seq(Events)
      BY <2>2, LogType DEF TransferInputs, TypeOK, Directions
    <3>7. reads' \in Seq(Outcomes)
      BY <2>2, AppendProperties DEF TransferInputs, TypeOK, Outcomes
    <3> QED
      BY <2>2, <3>1, <3>2, <3>7 DEF TransferInputs, TypeOK, PLCTypeOK
  <2>3. CASE TransferInputsFails
    <3>1. PICK recovered \in SUBSET Wired :
              tag' = Assign(tag, [i \in recovered |-> field[i]])
      BY <2>3 DEF TransferInputsFails
    <3>2. tag' \in [Tags -> Values]
      BY <3>1, AssignType DEF TypeOK, PLCTypeOK
    <3>3. events' \in Seq(Events)
      BY <2>3, LogType DEF TransferInputsFails, TypeOK, Directions
    <3>7. reads' \in Seq(Outcomes)
      BY <2>3, AppendProperties DEF TransferInputsFails, TypeOK, Outcomes
    <3>4. PLCTypeOK'
      BY <2>3, <3>2 DEF TransferInputsFails, TypeOK, PLCTypeOK
    <3>5. readFailures' = readFailures + 1
      BY <2>3 DEF TransferInputsFails
    <3>6. readFailures' \in Nat
      BY <3>5 DEF TypeOK
    <3> QED
      BY <2>3, <3>4, <3>6, <3>3, <3>7 DEF TransferInputsFails, TypeOK
  <2>4. CASE ScanPLC
    <3>1. PLCTypeOK'
      BY <2>4, ScanType DEF ScanPLC, TypeOK
    <3> QED
      BY <2>4, <3>1 DEF ScanPLC, TypeOK
  <2>5. CASE ScanPLCRaises
    <3>1. PLCTypeOK'
      BY <2>5, ScanRaisesType DEF ScanPLCRaises, TypeOK
    <3> QED
      BY <2>5, <3>1 DEF ScanPLCRaises, TypeOK, history
  <2>6. CASE TransferOutputs
    <3>1. device' \in [OutputTags -> Values]
      BY <2>6, <2>0 DEF TransferOutputs, Outputs, TypeOK, PLCTypeOK
    <3>2. events' \in Seq(Events)
      BY <2>6, LogType DEF TransferOutputs, TypeOK, Directions
    <3>7. writes' \in Seq(Outcomes)
      BY <2>6, AppendProperties DEF TransferOutputs, TypeOK, Outcomes
    <3>4. PLCTypeOK'
      BY <2>6 DEF TransferOutputs, TypeOK, PLCTypeOK, plcVars
    <3>5. ticks' = ticks + 1
      BY <2>6 DEF TransferOutputs
    <3>6. ticks' \in Nat
      BY <3>5 DEF TypeOK
    <3> QED
      BY <3>4, <3>6, <2>6, <3>1, <3>2, <3>7 DEF TransferOutputs, TypeOK
  <2>7. CASE TransferOutputsFails
    <3>1. PICK written \in SUBSET OutputTags :
              device' = Assign(device, [o \in written |-> tag[o]])
      BY <2>7 DEF TransferOutputsFails
    <3>2. device' \in [OutputTags -> Values]
      BY <3>1, <2>0, AssignType DEF TypeOK, PLCTypeOK
    <3>3. events' \in Seq(Events)
      BY <2>7, LogType DEF TransferOutputsFails, TypeOK, Directions
    <3>7. writes' \in Seq(Outcomes)
      BY <2>7, AppendProperties DEF TransferOutputsFails, TypeOK, Outcomes
    <3>4. PLCTypeOK'
      BY <2>7 DEF TransferOutputsFails, TypeOK, PLCTypeOK, plcVars
    <3>5. ticks' = ticks + 1 /\ writeFailures' = writeFailures + 1
      BY <2>7 DEF TransferOutputsFails
    <3>6. ticks' \in Nat /\ writeFailures' \in Nat
      BY <3>5 DEF TypeOK
    <3> QED
      BY <3>4, <3>6, <2>7, <3>2, <3>3, <3>7 DEF TransferOutputsFails, TypeOK
  <2>8. CASE Observe
    <3>1. [source |-> "watchdog", edge |-> "tripped", scans |-> 0] \in Events
      BY DEF Events
    <3> QED
      BY <2>8, <3>1 DEF Observe, TypeOK, PLCTypeOK, plcVars, history
  <2>9. CASE RestartPLC
    <3>1. PLCTypeOK'
      BY <2>9, RestartType DEF RestartPLC, TypeOK
    <3> QED
      BY <2>9, <3>1 DEF RestartPLC, TypeOK, execVars
  <2>10. CASE DriveTag
    BY <2>10 DEF DriveTag, TypeOK, PLCTypeOK, execVars, history
  <2>11. CASE UNCHANGED vars
    BY <2>11 DEF vars, plcVars, execVars, history, TypeOK, PLCTypeOK
  <2> QED
    BY <2>1, <2>2, <2>3, <2>4, <2>5, <2>6, <2>7, <2>8, <2>9, <2>10, <2>11
    DEF Next, Tick
<1> QED
  BY <1>1, <1>2, PTL DEF Spec

-----------------------------------------------------------------------------
\* One more failure lengthens the count, one success resets it.
LEMMA CountFailure ==
    ASSUME NEW n \in Nat, NEW h \in Seq(Outcomes), CountsTrailingFailures(n, h)
    PROVE  CountsTrailingFailures(n + 1, Append(h, "failed"))
<1> DEFINE g == Append(h, "failed")
<1>1. /\ g \in Seq(Outcomes)
      /\ Len(g) = Len(h) + 1
      /\ \A i \in 1..Len(h) : g[i] = h[i]
      /\ g[Len(h) + 1] = "failed"
  BY AppendProperties DEF Outcomes
<1>2. Len(h) \in Nat
  BY LenProperties
<1> HIDE DEF g
<1>3. n + 1 <= Len(g)
  BY <1>1, <1>2 DEF CountsTrailingFailures
<1>4. ASSUME NEW k \in (Len(g) - (n + 1) + 1)..Len(g) PROVE g[k] = "failed"
  <2>1. CASE k = Len(h) + 1
    BY <2>1, <1>1
  <2>2. CASE k # Len(h) + 1
    <3>1. k \in (Len(h) - n + 1)..Len(h) /\ k \in 1..Len(h)
      BY <2>2, <1>1, <1>2 DEF CountsTrailingFailures
    <3> QED
      BY <3>1, <1>1 DEF CountsTrailingFailures
  <2> QED
    BY <2>1, <2>2
<1>5. n + 1 < Len(g) => g[Len(g) - (n + 1)] = "ok"
  BY <1>1, <1>2 DEF CountsTrailingFailures
<1> QED
  BY <1>3, <1>4, <1>5 DEF CountsTrailingFailures, g

LEMMA CountSuccess ==
    ASSUME NEW h \in Seq(Outcomes)
    PROVE  CountsTrailingFailures(0, Append(h, "ok"))
<1> DEFINE g == Append(h, "ok")
<1>1. Len(g) = Len(h) + 1 /\ g[Len(h) + 1] = "ok" /\ Len(h) \in Nat
  BY AppendProperties, LenProperties DEF Outcomes
<1> HIDE DEF g
<1>2. CountsTrailingFailures(0, g)
  BY <1>1 DEF CountsTrailingFailures
<1> QED
  BY <1>2 DEF g

\* The health counters measure the present outage of each direction, whatever
\* the transport, the program and the owner of the twin do.
THEOREM CountersCorrect == Spec => []CountersMeasureOutages
<1>1. Init => CountersMeasureOutages
  BY DEF Init, CountersMeasureOutages, CountsTrailingFailures
<1>2. TypeOK /\ CountersMeasureOutages /\ [Next]_vars => CountersMeasureOutages'
  <2> SUFFICES ASSUME TypeOK, CountersMeasureOutages, [Next]_vars
               PROVE  CountersMeasureOutages'
    OBVIOUS
  <2> DEFINE ReadsHold == UNCHANGED <<readFailures, reads>>
             WritesHold == UNCHANGED <<writeFailures, writes>>
  <2>1. ReadsHold => CountsTrailingFailures(readFailures, reads)'
    BY DEF CountersMeasureOutages, CountsTrailingFailures
  <2>2. WritesHold => CountsTrailingFailures(writeFailures, writes)'
    BY DEF CountersMeasureOutages, CountsTrailingFailures
  <2>3. CASE TransferInputs
    <3>1. CountsTrailingFailures(0, Append(reads, "ok"))
      BY CountSuccess DEF TypeOK
    <3>2. readFailures' = 0 /\ reads' = Append(reads, "ok") /\ WritesHold
      BY <2>3 DEF TransferInputs
    <3>3. CountsTrailingFailures(readFailures, reads)'
      BY <3>1, <3>2 DEF CountsTrailingFailures
    <3> QED
      BY <2>2, <3>2, <3>3 DEF CountersMeasureOutages
  <2>4. CASE TransferInputsFails
    <3>1. CountsTrailingFailures(readFailures + 1, Append(reads, "failed"))
      BY CountFailure DEF TypeOK, CountersMeasureOutages
    <3>2. /\ readFailures' = readFailures + 1
          /\ reads' = Append(reads, "failed")
          /\ WritesHold
      BY <2>4 DEF TransferInputsFails
    <3>3. CountsTrailingFailures(readFailures, reads)'
      BY <3>1, <3>2 DEF CountsTrailingFailures
    <3> QED
      BY <2>2, <3>2, <3>3 DEF CountersMeasureOutages
  <2>5. CASE TransferOutputs
    <3>1. CountsTrailingFailures(0, Append(writes, "ok"))
      BY CountSuccess DEF TypeOK
    <3>2. writeFailures' = 0 /\ writes' = Append(writes, "ok") /\ ReadsHold
      BY <2>5 DEF TransferOutputs
    <3>3. CountsTrailingFailures(writeFailures, writes)'
      BY <3>1, <3>2 DEF CountsTrailingFailures
    <3> QED
      BY <2>1, <3>2, <3>3 DEF CountersMeasureOutages
  <2>6. CASE TransferOutputsFails
    <3>1. CountsTrailingFailures(writeFailures + 1, Append(writes, "failed"))
      BY CountFailure DEF TypeOK, CountersMeasureOutages
    <3>2. /\ writeFailures' = writeFailures + 1
          /\ writes' = Append(writes, "failed")
          /\ ReadsHold
      BY <2>6 DEF TransferOutputsFails
    <3>3. CountsTrailingFailures(writeFailures, writes)'
      BY <3>1, <3>2 DEF CountsTrailingFailures
    <3> QED
      BY <2>1, <3>2, <3>3 DEF CountersMeasureOutages
  <2>7. CASE \/ StepPlant \/ ScanPLC \/ ScanPLCRaises \/ Observe
             \/ RestartPLC \/ DriveTag \/ UNCHANGED vars
    <3>1. ReadsHold /\ WritesHold
      BY <2>7 DEF StepPlant, ScanPLC, ScanPLCRaises, Observe, RestartPLC,
                  DriveTag, vars, execVars, history
    <3> QED
      BY <2>1, <2>2, <3>1 DEF CountersMeasureOutages
  <2> QED
    BY <2>3, <2>4, <2>5, <2>6, <2>7 DEF Next, Tick
<1> QED
  BY <1>1, <1>2, TypeCorrect, PTL DEF Spec

-----------------------------------------------------------------------------
\* A zero counter means a coherent image, on either side of the scan.
THEOREM LinkCoherent == Spec => []HealthyLinkIsCoherent
<1>1. Init => HealthyLinkIsCoherent
  BY DEF Init, HealthyLinkIsCoherent
<1>2. TypeOK /\ HealthyLinkIsCoherent /\ [Next]_vars => HealthyLinkIsCoherent'
  <2> SUFFICES ASSUME TypeOK, HealthyLinkIsCoherent, [Next]_vars
               PROVE  HealthyLinkIsCoherent'
    OBVIOUS
  <2>1. CASE TransferInputs
    <3>1. tag' = Assign(tag, field) /\ field' = field /\ pc' = "scan"
      BY <2>1 DEF TransferInputs
    <3>2. \A i \in Wired : Assign(tag, field)[i] = field[i]
      BY AssignType, ExecutiveAssumption DEF TypeOK, PLCTypeOK, Tags
    <3> QED
      BY <3>1, <3>2 DEF HealthyLinkIsCoherent
  <2>2. CASE TransferInputsFails
    <3>1. readFailures' = readFailures + 1 /\ pc' = "scan"
      BY <2>2 DEF TransferInputsFails
    <3>2. readFailures' # 0
      BY <3>1 DEF TypeOK
    <3> QED
      BY <3>1, <3>2 DEF HealthyLinkIsCoherent
  <2>3. CASE TransferOutputs
    <3>1. device' = Outputs /\ Outputs' = Outputs /\ pc' = "observe"
      BY <2>3 DEF TransferOutputs, plcVars, Outputs
    <3> QED
      BY <3>1 DEF HealthyLinkIsCoherent
  <2>4. CASE TransferOutputsFails
    <3>1. writeFailures' = writeFailures + 1 /\ pc' = "observe"
      BY <2>4 DEF TransferOutputsFails
    <3>2. writeFailures' # 0
      BY <3>1 DEF TypeOK
    <3> QED
      BY <3>1, <3>2 DEF HealthyLinkIsCoherent
  <2>5. CASE \/ StepPlant \/ ScanPLC \/ ScanPLCRaises \/ Observe
             \/ RestartPLC \/ DriveTag
    <3>1. pc' \notin {"scan", "observe"}
      BY <2>5 DEF StepPlant, ScanPLC, ScanPLCRaises, Observe, RestartPLC,
                  DriveTag, execVars
    <3> QED
      BY <3>1 DEF HealthyLinkIsCoherent
  <2>6. CASE UNCHANGED vars
    BY <2>6 DEF vars, plcVars, execVars, HealthyLinkIsCoherent, Outputs
  <2> QED
    BY <2>1, <2>2, <2>3, <2>4, <2>5, <2>6 DEF Next, Tick
<1> QED
  BY <1>1, <1>2, TypeCorrect, PTL DEF Spec

-----------------------------------------------------------------------------
\* Exactly one completed scan after each restart sees the first-scan bit.
THEOREM FirstScanOnce == Spec => []OneFirstScan
<1>1. Init => OneFirstScan
  BY DEF Init, PLCInit, OneFirstScan
<1>2. TypeOK /\ OneFirstScan /\ [Next]_vars => OneFirstScan'
  <2> SUFFICES ASSUME TypeOK, OneFirstScan, [Next]_vars PROVE OneFirstScan'
    OBVIOUS
  <2>0. scanCount \in Nat
    BY DEF TypeOK, PLCTypeOK
  <2>1. CASE ScanPLC
    <3>1. scanCount' = scanCount + 1
      BY <2>1 DEF ScanPLC, Scan
    <3>2. CASE scanCount = 0
      <4>1. firstScans' = firstScans + 1
        BY <2>1, <3>2 DEF ScanPLC, Scan, ProgramRuns
      <4> QED
        BY <3>1, <3>2, <4>1 DEF OneFirstScan
    <3>3. CASE scanCount # 0
      <4>1. firstScan' = FALSE /\ firstScans' = firstScans
        BY <2>1, <3>3 DEF ScanPLC, Scan, ProgramRuns
      <4> QED
        BY <3>1, <3>3, <4>1, <2>0 DEF OneFirstScan
    <3> QED
      BY <3>2, <3>3
  <2>2. CASE ScanPLCRaises
    <3>1. scanCount' = scanCount /\ firstScans' = firstScans
      BY <2>2 DEF ScanPLCRaises, ScanRaises, history
    <3>2. scanCount # 0 => firstScan' = FALSE
      BY <2>2 DEF ScanPLCRaises, ScanRaises, ProgramRuns
    <3> QED
      BY <3>1, <3>2, <2>0 DEF OneFirstScan
  <2>3. CASE RestartPLC
    <3>1. Restart /\ firstScans' = 0
      BY <2>3 DEF RestartPLC, ColdStart, WarmStart
    <3> QED
      BY <3>1 DEF Restart, OneFirstScan
  <2>4. CASE \/ StepPlant \/ TransferInputs \/ TransferInputsFails
             \/ TransferOutputs \/ TransferOutputsFails \/ Observe
             \/ DriveTag \/ UNCHANGED vars
    <3>1. UNCHANGED <<scanCount, firstScan, firstScans>>
      BY <2>4 DEF StepPlant, TransferInputs, TransferInputsFails,
                  TransferOutputs, TransferOutputsFails, Observe, DriveTag,
                  vars, plcVars, history
    <3> QED
      BY <3>1 DEF OneFirstScan
  <2> QED
    BY <2>1, <2>2, <2>3, <2>4 DEF Next, Tick
<1> QED
  BY <1>1, <1>2, TypeCorrect, PTL DEF Spec

-----------------------------------------------------------------------------
\* Neither the inputs nor the first-scan bit nor memory is an output.
LEMMA NotAnOutput ==
    \A o \in OutputTags : /\ o \notin InputTags
                          /\ o \notin WorkTags
                          /\ o # FirstScanTag
  BY TagAssumption

\* Writing other tags leaves the outputs alone.
LEMMA AssignElsewhere ==
    ASSUME TypeOK, NEW u, DOMAIN u \cap OutputTags = {}
    PROVE  \A o \in OutputTags : Assign(tag, u)[o] = tag[o]
  BY DEF TypeOK, PLCTypeOK, Assign, Tags

\* No exchange, no raising program and nothing done between ticks short of a
\* cold start moves a physical output.
THEOREM OutputsAtomic == Spec => OutputsMoveTogether
<1> DEFINE A == Outputs' # Outputs =>
                  \/ scanCount' = scanCount + 1
                  \/ scanCount' = 0 /\ outputImage' = NoImage
<1>1. TypeOK /\ [Next]_vars => [A]_vars
  <2> SUFFICES ASSUME TypeOK, Next PROVE A
    OBVIOUS
  <2>1. CASE TransferInputs
    <3>1. tag' = Assign(tag, field) /\ DOMAIN field = Wired
      BY <2>1 DEF TransferInputs, TypeOK
    <3>2. \A o \in OutputTags : tag'[o] = tag[o]
      BY <3>1, NotAnOutput, ExecutiveAssumption, AssignElsewhere
    <3> QED
      BY <3>2 DEF Outputs
  <2>2. CASE TransferInputsFails
    <3>1. PICK recovered \in SUBSET Wired :
              tag' = Assign(tag, [i \in recovered |-> field[i]])
      BY <2>2 DEF TransferInputsFails
    <3>2. \A o \in OutputTags : tag'[o] = tag[o]
      BY <3>1, NotAnOutput, ExecutiveAssumption, AssignElsewhere
    <3> QED
      BY <3>2 DEF Outputs
  <2>3. CASE ScanPLC
    BY <2>3 DEF ScanPLC, Scan
  <2>4. CASE ScanPLCRaises
    <3>1. PICK staged, live \in PartialOver(WorkTags) :
              tag' = TagsAfterProgram(live)
      BY <2>4 DEF ScanPLCRaises, ScanRaises
    <3>2. DOMAIN live \subseteq WorkTags
      BY PartialOverType
    <3>3. \A o \in OutputTags : tag'[o] = tag[o]
      BY <3>1, <3>2, NotAnOutput
      DEF TagsAfterProgram, Assign, TypeOK, PLCTypeOK, Tags
    <3> QED
      BY <3>3 DEF Outputs
  <2>5. CASE RestartPLC
    BY <2>5 DEF RestartPLC, ColdStart, WarmStart, Restart
  <2>6. CASE DriveTag
    <3>1. PICK t \in InputTags \cup WorkTags, v \in Values :
              tag' = [tag EXCEPT ![t] = v]
      BY <2>6 DEF DriveTag
    <3>2. \A o \in OutputTags : tag'[o] = tag[o]
      BY <3>1, NotAnOutput DEF TypeOK, PLCTypeOK, Tags
    <3> QED
      BY <3>2 DEF Outputs
  <2>7. CASE StepPlant \/ TransferOutputs \/ TransferOutputsFails \/ Observe
    BY <2>7 DEF StepPlant, TransferOutputs, TransferOutputsFails, Observe,
                plcVars, Outputs
  <2> QED
    BY <2>1, <2>2, <2>3, <2>4, <2>5, <2>6, <2>7 DEF Next, Tick
<1> QED
  BY <1>1, TypeCorrect, PTL DEF Spec, OutputsMoveTogether

-----------------------------------------------------------------------------
\* A new entry at the end of the log, seen through a set of its positions.
LEMMA EntriesAfterAppend ==
    ASSUME events \in Seq(Events), NEW e \in Events, NEW source,
           events' = Append(events, e)
    PROVE  LET old == {n \in DOMAIN events : events[n].source = source}
               new == {n \in DOMAIN events : events[n].source = source}'
           IN  /\ IsFiniteSet(old) /\ Cardinality(old) \in Nat
               /\ Len(events) + 1 \notin old
               /\ e.source = source => new = old \cup {Len(events) + 1}
               /\ e.source # source => new = old
<1> DEFINE old == {n \in DOMAIN events : events[n].source = source}
<1>1. /\ DOMAIN events = 1 .. Len(events) /\ Len(events) \in Nat
      /\ DOMAIN events' = 1 .. Len(events) + 1
      /\ \A n \in 1 .. Len(events) : events'[n] = events[n]
      /\ events'[Len(events) + 1] = e
  BY AppendProperties, LenProperties
<1>2. IsFiniteSet(old) /\ Cardinality(old) \in Nat
  <2>0. 1 \in Int /\ Len(events) \in Int
    BY <1>1
  <2>1. IsFiniteSet(1 .. Len(events))
    BY <2>0, FS_Interval
  <2>2. old \subseteq 1 .. Len(events)
    BY <1>1
  <2> QED
    BY <2>1, <2>2, FS_Subset, FS_CardinalityType
<1>3. DOMAIN events' = DOMAIN events \cup {Len(events) + 1}
  BY <1>1
<1> QED
  BY <1>1, <1>2, <1>3

LEMMA WatchdogInvariant == Spec => []WatchdogInv
<1>1. Init => WatchdogInv
  <2> SUFFICES ASSUME Init PROVE WatchdogInv
    OBVIOUS
  <2>1. WatchdogEntries = {}
    BY DEF Init, WatchdogEntries
  <2>2. Cardinality(WatchdogEntries) = 0
    BY <2>1, FS_EmptySet
  <2> QED
    <3>1. /\ trips = 0 /\ watchdogSeen = FALSE /\ tripped = FALSE
          /\ Unlogged = 0
      BY DEF Init, PLCInit, Unlogged
    <3>2. Cardinality(WatchdogEntries) + Unlogged = trips
      BY <2>2, <3>1
    <3>3. Cardinality(WatchdogEntries) + Unlogged <= trips
      BY <3>1, <3>2
    <3> QED
      BY <3>1, <3>2, <3>3 DEF WatchdogInv
<1>2. TypeOK /\ WatchdogInv /\ [Next]_vars => WatchdogInv'
  <2> SUFFICES ASSUME TypeOK, WatchdogInv, [Next]_vars PROVE WatchdogInv'
    OBVIOUS
  <2>0. /\ events \in Seq(Events) /\ trips \in Nat /\ tripped \in BOOLEAN
        /\ watchdogSeen \in BOOLEAN /\ restarted \in BOOLEAN
        /\ readFailures \in Nat /\ writeFailures \in Nat
    BY DEF TypeOK, PLCTypeOK
  <2>1. \A d \in Directions, n \in Nat :
           LogFailure(d, n) \/ LogRecovery(d, n) =>
              WatchdogEntries' = WatchdogEntries
    <3> SUFFICES ASSUME NEW d \in Directions, NEW n \in Nat,
                        LogFailure(d, n) \/ LogRecovery(d, n),
                        events' # events
                 PROVE  WatchdogEntries' = WatchdogEntries
      BY DEF WatchdogEntries
    <3>1. PICK e \in Events : e.source = d /\ events' = Append(events, e)
      BY DEF LogFailure, LogRecovery, Events
    <3>2. e.source # "watchdog"
      BY <3>1 DEF Directions
    <3> QED
      BY <3>1, <3>2, <2>0, EntriesAfterAppend DEF WatchdogEntries
  <2>2. Cardinality(WatchdogEntries) \in Nat
    <3>1. IsFiniteSet(1 .. Len(events)) /\ DOMAIN events = 1 .. Len(events)
      BY <2>0, LenProperties, FS_Interval
    <3>2. WatchdogEntries \subseteq 1 .. Len(events)
      BY <3>1 DEF WatchdogEntries
    <3> QED
      BY <3>1, <3>2, FS_Subset, FS_CardinalityType
  <2>3. CASE TransferInputs \/ TransferInputsFails
    <3>1. LogRecovery("input read", readFailures)
            \/ LogFailure("input read", readFailures)
      BY <2>3 DEF TransferInputs, TransferInputsFails
    <3>2. WatchdogEntries' = WatchdogEntries
      BY <3>1, <2>0, <2>1 DEF Directions
    <3>3. UNCHANGED <<tripped, watchdogSeen, trips, restarted>> /\ pc = "read"
      BY <2>3 DEF TransferInputs, TransferInputsFails
    <3> QED
      BY <3>2, <3>3 DEF WatchdogInv, Unlogged
  <2>4. CASE TransferOutputs \/ TransferOutputsFails
    <3>1. LogRecovery("output write", writeFailures)
            \/ LogFailure("output write", writeFailures)
      BY <2>4 DEF TransferOutputs, TransferOutputsFails
    <3>2. WatchdogEntries' = WatchdogEntries
      BY <3>1, <2>0, <2>1 DEF Directions
    <3>3. UNCHANGED <<tripped, watchdogSeen, trips, restarted>>
          /\ pc' = "observe"
      BY <2>4 DEF TransferOutputs, TransferOutputsFails, plcVars
    <3> QED
      BY <3>2, <3>3 DEF WatchdogInv, Unlogged
  <2>5. CASE ScanPLC
    <3>1. /\ events' = events /\ watchdogSeen' = watchdogSeen
          /\ restarted' = restarted /\ pc = "scan" /\ pc' = "write"
          /\ trips' = IF tripped' /\ ~tripped THEN trips + 1 ELSE trips
      BY <2>5 DEF ScanPLC
    <3>2. tripped => tripped'
      BY <2>5 DEF ScanPLC, Scan
    <3>3. WatchdogEntries' = WatchdogEntries
      BY <3>1 DEF WatchdogEntries
    <3>4. tripped' \in BOOLEAN
      BY <2>5, <2>0 DEF ScanPLC, Scan
    <3>5. /\ Cardinality(WatchdogEntries)' + Unlogged' <= trips'
          /\ ~restarted => Cardinality(WatchdogEntries)' + Unlogged' = trips'
      BY <3>1, <3>2, <3>3, <3>4, <2>0, <2>2 DEF WatchdogInv, Unlogged
    <3> QED
      BY <3>1, <3>2, <3>5 DEF WatchdogInv
  <2>6. CASE Observe
    <3> DEFINE e == [source |-> "watchdog", edge |-> "tripped", scans |-> 0]
    <3>1. /\ events' = IF tripped /\ ~watchdogSeen THEN Append(events, e) ELSE events
          /\ watchdogSeen' = tripped
          /\ UNCHANGED <<tripped, trips, restarted>>
      BY <2>6 DEF Observe, plcVars, history
    <3>2. e \in Events /\ e.source = "watchdog"
      BY DEF Events
    <3> HIDE DEF e
    <3>3. CASE tripped /\ ~watchdogSeen
      <4>1. events' = Append(events, e)
        BY <3>1, <3>3
      <4>2. /\ WatchdogEntries' = WatchdogEntries \cup {Len(events) + 1}
            /\ Len(events) + 1 \notin WatchdogEntries
            /\ IsFiniteSet(WatchdogEntries)
        BY <4>1, <3>2, <2>0, EntriesAfterAppend DEF WatchdogEntries
      <4>3. Cardinality(WatchdogEntries)' = Cardinality(WatchdogEntries) + 1
        BY <4>2, FS_AddElement
      <4>4. Unlogged = 1 /\ Unlogged' = 0
        BY <3>1, <3>3 DEF Unlogged
      <4> QED
        BY <4>3, <4>4, <3>1, <2>2, <2>0 DEF WatchdogInv
    <3>4. CASE ~(tripped /\ ~watchdogSeen)
      <4>1. WatchdogEntries' = WatchdogEntries
        BY <3>1, <3>4 DEF WatchdogEntries
      <4>2. Unlogged = 0 /\ Unlogged' = 0
        BY <3>1, <3>4 DEF Unlogged
      <4> QED
        BY <4>1, <4>2, <3>1, <2>0 DEF WatchdogInv
    <3> QED
      BY <3>3, <3>4
  <2>7. CASE RestartPLC
    <3>1. /\ tripped' = FALSE /\ restarted' = TRUE
          /\ events' = events /\ trips' = trips
      BY <2>7 DEF RestartPLC, ColdStart, WarmStart, Restart, execVars
    <3>2. Unlogged' = 0 /\ Unlogged \in Nat
      BY <3>1 DEF Unlogged
    <3>3. WatchdogEntries' = WatchdogEntries
      BY <3>1 DEF WatchdogEntries
    <3> QED
      BY <3>1, <3>2, <3>3, <2>0, <2>2 DEF WatchdogInv
  <2>8. CASE StepPlant \/ ScanPLCRaises \/ DriveTag \/ UNCHANGED vars
    <3>1. UNCHANGED <<tripped, watchdogSeen, trips, restarted, events>>
      BY <2>8 DEF StepPlant, ScanPLCRaises, ScanRaises, DriveTag, plcVars,
                  execVars, history, vars
    <3>2. /\ WatchdogEntries' = WatchdogEntries /\ Unlogged' = Unlogged
      BY <3>1 DEF WatchdogEntries, Unlogged
    <3>3. pc' \in {"idle", "read", "scan"} => pc \in {"idle", "read", "scan"}
      BY <2>8 DEF StepPlant, ScanPLCRaises, DriveTag, execVars, vars
    <3> QED
      BY <3>1, <3>2, <3>3 DEF WatchdogInv
  <2> QED
    BY <2>3, <2>4, <2>5, <2>6, <2>7, <2>8 DEF Next, Tick
<1> QED
  BY <1>1, <1>2, TypeCorrect, PTL DEF Spec

\* No watchdog entry is spurious, and up to the first restart every trip has
\* its entry at the end of its tick: for any program and any overruns.
THEOREM WatchdogIsLogged == Spec => []WatchdogEntriesMatchTrips
<1>1. TypeOK /\ WatchdogInv => WatchdogEntriesMatchTrips
  <2> SUFFICES ASSUME TypeOK, WatchdogInv PROVE WatchdogEntriesMatchTrips
    OBVIOUS
  <2>1. Cardinality(WatchdogEntries) \in Nat
    <3>1. IsFiniteSet(1 .. Len(events)) /\ DOMAIN events = 1 .. Len(events)
      BY LenProperties, FS_Interval DEF TypeOK
    <3>2. WatchdogEntries \subseteq 1 .. Len(events)
      BY <3>1 DEF WatchdogEntries
    <3> QED
      BY <3>1, <3>2, FS_Subset, FS_CardinalityType
  <2>2. trips \in Nat /\ Unlogged \in Nat
    BY DEF TypeOK, Unlogged
  <2>3. pc = "idle" /\ ~restarted => Unlogged = 0
    BY DEF WatchdogInv, Unlogged
  <2>4. Cardinality(WatchdogEntries) <= trips
    BY <2>1, <2>2 DEF WatchdogInv
  <2>5. pc = "idle" /\ ~restarted => Cardinality(WatchdogEntries) = trips
    BY <2>1, <2>2, <2>3 DEF WatchdogInv
  <2> QED
    BY <2>4, <2>5 DEF WatchdogEntriesMatchTrips
<1> QED
  BY <1>1, WatchdogInvariant, TypeCorrect, PTL

-----------------------------------------------------------------------------
(***************************************************************************)
(* The event log implements LinkAlarm for each direction of the link.      *)
(***************************************************************************)

\* Each rank of a set of numbers is taken by a member.
Ranked(S) ==
    /\ IsFiniteSet(S) /\ S \subseteq Nat
    /\ \A n \in 1 .. Cardinality(S) : Nth(S, n) \in S

LEMMA NoneRanked == Ranked({}) /\ Cardinality({}) = 0
<1>1. Cardinality({}) = 0 /\ IsFiniteSet({})
  BY FS_EmptySet
<1>2. 1 .. 0 = {}
  OBVIOUS
<1> QED
  BY <1>1, <1>2 DEF Ranked

\* A new largest member takes the last rank and moves no other.
LEMMA LargestIsLast ==
    ASSUME NEW S, Ranked(S), NEW k \in Nat, \A i \in S : i < k,
           NEW T, T = S \cup {k}
    PROVE  LET size == Cardinality(S)
           IN  /\ size \in Nat /\ Cardinality(T) = size + 1
               /\ \A n \in 1 .. size : Nth(T, n) = Nth(S, n)
               /\ Nth(T, size + 1) = k
               /\ Ranked(T)
<1> DEFINE size == Cardinality(S)
<1>0. IsFiniteSet(S) /\ S \subseteq Nat
  BY DEF Ranked
<1>1. k \notin S /\ size \in Nat
  BY <1>0, FS_CardinalityType
<1>2. IsFiniteSet(T) /\ Cardinality(T) = size + 1
  BY <1>0, <1>1, FS_AddElement
<1>3. \A i \in S : {j \in T : j <= i} = {j \in S : j <= i}
  BY <1>0
<1>4. {j \in T : j <= k} = T
  <2>1. \A j \in T : j <= k
    BY <1>0
  <2> QED
    BY <2>1
<1>5. \A i \in S : Cardinality({j \in S : j <= i}) \in Nat
                   /\ Cardinality({j \in S : j <= i}) <= size
  <2> TAKE i \in S
  <2>1. {j \in S : j <= i} \subseteq S
    OBVIOUS
  <2> QED
    BY <1>0, <2>1, FS_Subset, FS_CardinalityType
<1>6. ASSUME NEW n \in 1 .. size
      PROVE  Nth(T, n) = Nth(S, n)
  <2>1. n # size + 1
    BY <1>1
  <2>2. {i \in T : Cardinality({j \in T : j <= i}) = n}
          = {i \in S : Cardinality({j \in S : j <= i}) = n}
    BY <2>1, <1>2, <1>3, <1>4
  <2> QED
    BY <2>2 DEF Nth
<1>7. Nth(T, size + 1) = k
  <2>1. \A i \in S : Cardinality({j \in T : j <= i}) # size + 1
    BY <1>1, <1>3, <1>5
  <2>2. {i \in T : Cardinality({j \in T : j <= i}) = size + 1} = {k}
    BY <2>1, <1>2, <1>4
  <2> QED
    BY <2>2 DEF Nth, TheOne
<1>8. Ranked(T)
  <2>1. ASSUME NEW n \in 1 .. Cardinality(T) PROVE Nth(T, n) \in T
    <3>1. n \in 1 .. size \/ n = size + 1
      BY <1>1, <1>2
    <3>2. n \in 1 .. size => Nth(S, n) \in S
      BY DEF Ranked
    <3> QED
      BY <3>1, <3>2, <1>6, <1>7
  <2> QED
    BY <1>0, <1>2, <2>1 DEF Ranked
<1> QED
  BY <1>1, <1>2, <1>6, <1>7, <1>8

-----------------------------------------------------------------------------
\* What one more exchange adds to a history.
LEMMA OneMoreExchange ==
    ASSUME NEW h \in Seq(Outcomes), NEW o \in Outcomes
    PROVE  LET g == Append(h, o)
               last == Len(h) + 1
           IN  /\ Len(h) \in Nat /\ DOMAIN h = 1 .. Len(h)
               /\ DOMAIN g = 1 .. last
               /\ \A i \in 1 .. Len(h) : g[i] = h[i]
               /\ g[last] = o
               /\ \A i \in 1 .. Len(h) : h[i] \in Outcomes
  BY AppendProperties, LenProperties, ElementOfSeq

\* The edges among the old exchanges stay; the new exchange is one if it ends
\* an outage or begins one.
LEMMA NewEdge ==
    ASSUME NEW h \in Seq(Outcomes), NEW o \in Outcomes, NEW c \in Nat,
           CountsTrailingFailures(c, h)
    PROVE  LET g == Append(h, o)
               last == Len(h) + 1
           IN  /\ Begins(g) = Begins(h) \cup
                                 (IF o = "failed" /\ c = 0 THEN {last} ELSE {})
               /\ Ends(g) = Ends(h) \cup
                               (IF o = "ok" /\ c > 0 THEN {last} ELSE {})
<1> DEFINE g == Append(h, o)
           last == Len(h) + 1
<1>1. /\ Len(h) \in Nat /\ DOMAIN h = 1 .. Len(h) /\ DOMAIN g = 1 .. last
      /\ \A i \in 1 .. Len(h) : g[i] = h[i]
      /\ g[last] = o
  BY OneMoreExchange
<1>2. /\ c <= Len(h)
      /\ \A k \in (Len(h) - c + 1) .. Len(h) : h[k] = "failed"
      /\ c < Len(h) => h[Len(h) - c] = "ok"
  BY DEF CountsTrailingFailures
<1>3. c > 0 => Len(h) > 0 /\ h[Len(h)] = "failed"
  BY <1>1, <1>2
<1>4. c = 0 /\ Len(h) > 0 => h[Len(h)] = "ok"
  BY <1>1, <1>2
<1> HIDE DEF g
<1>5. ASSUME NEW i \in 1 .. Len(h)
      PROVE  (i \in Begins(g) <=> i \in Begins(h)) /\ (i \in Ends(g) <=> i \in Ends(h))
  <2>1. g[i] = h[i] /\ (i > 1 => g[i - 1] = h[i - 1])
    BY <1>1
  <2> QED
    BY <1>1, <2>1 DEF Begins, Ends
<1>6. last > 1 => g[last - 1] = h[Len(h)]
  BY <1>1
<1>7. last \in Begins(g) <=> o = "failed" /\ c = 0
  BY <1>1, <1>3, <1>4, <1>6 DEF Begins
<1>8. last \in Ends(g) <=> o = "ok" /\ c > 0
  BY <1>1, <1>3, <1>4, <1>6 DEF Ends
<1>9. /\ Begins(g) \subseteq 1 .. last /\ Ends(g) \subseteq 1 .. last
      /\ Begins(h) \subseteq 1 .. Len(h) /\ Ends(h) \subseteq 1 .. Len(h)
  BY <1>1 DEF Begins, Ends
<1>10. 1 .. last = (1 .. Len(h)) \cup {last} /\ last \notin 1 .. Len(h)
  BY <1>1
<1> HIDE DEF last
<1>11. Begins(g) = Begins(h) \cup (IF o = "failed" /\ c = 0 THEN {last} ELSE {})
  BY <1>5, <1>7, <1>9, <1>10
<1>12. Ends(g) = Ends(h) \cup (IF o = "ok" /\ c > 0 THEN {last} ELSE {})
  BY <1>5, <1>8, <1>9, <1>10
<1> QED
  BY <1>11, <1>12 DEF g, last

\* The entries owed to the old edges stay.
LEMMA OldEntriesStay ==
    ASSUME NEW h \in Seq(Outcomes), NEW o \in Outcomes, NEW c \in Nat,
           CountsTrailingFailures(c, h), NEW i \in 1 .. Len(h)
    PROVE  EntryAt(Append(h, o), i) = EntryAt(h, i)
<1> DEFINE g == Append(h, o)
           last == Len(h) + 1
           After(s) == {b \in Begins(s) : b < i /\ \A d \in Begins(s) : d < i => d <= b}
<1>1. Len(h) \in Nat
  BY OneMoreExchange
<1>2. Begins(g) = Begins(h) \/ Begins(g) = Begins(h) \cup {last}
  BY NewEdge
<1>3. ~(last < i) /\ i # last
  BY <1>1
<1> HIDE DEF g, last
<1>4. After(g) = After(h)
  BY <1>2, <1>3
<1>5. i \in Begins(g) <=> i \in Begins(h)
  BY <1>2, <1>3
<1> QED
  BY <1>4, <1>5 DEF EntryAt, BeginOf, g

\* The outage that a good exchange ends began as many exchanges ago as the
\* counter says.
LEMMA OutageLength ==
    ASSUME NEW h \in Seq(Outcomes), NEW c \in Nat, c > 0,
           CountsTrailingFailures(c, h)
    PROVE  EntryAt(Append(h, "ok"), Len(h) + 1) = [edge |-> "recovered", scans |-> c]
<1> DEFINE g == Append(h, "ok")
           last == Len(h) + 1
           begin == Len(h) - c + 1
<1>0. "ok" \in Outcomes
  BY DEF Outcomes
<1>1. /\ Len(h) \in Nat /\ DOMAIN h = 1 .. Len(h)
      /\ \A i \in 1 .. Len(h) : h[i] \in Outcomes
  BY <1>0, OneMoreExchange
<1>2. /\ c <= Len(h)
      /\ \A k \in (Len(h) - c + 1) .. Len(h) : h[k] = "failed"
      /\ c < Len(h) => h[Len(h) - c] = "ok"
  BY DEF CountsTrailingFailures
<1>3. Begins(g) = Begins(h)
  <2>1. "ok" # "failed"
    OBVIOUS
  <2> QED
    BY <2>1, <1>0, NewEdge
<1>4. begin \in Nat /\ begin >= 1 /\ begin <= Len(h) /\ begin < last
      /\ last - begin = c
  BY <1>1, <1>2
<1>5. begin \in Begins(h)
  <2>1. h[begin] = "failed" /\ begin \in 1 .. Len(h)
    BY <1>1, <1>2, <1>4
  <2>2. begin > 1 => h[begin - 1] = "ok"
    BY <1>1, <1>2, <1>4
  <2> QED
    BY <2>1, <2>2, <1>1 DEF Begins
<1>6. ASSUME NEW d \in Begins(h) PROVE d <= begin /\ d \in Nat /\ d < last
  <2>1. d \in 1 .. Len(h) /\ (d > 1 => h[d - 1] = "ok")
    BY <1>1 DEF Begins
  <2>2. d > begin => h[d - 1] = "failed"
    BY <2>1, <1>1, <1>2, <1>4
  <2>3. d > begin => d > 1
    BY <2>1, <1>4
  <2> QED
    BY <2>1, <2>2, <2>3, <1>1, <1>4
<1>7. last \notin Begins(g)
  BY <1>3, <1>6, <1>1
<1> HIDE DEF g, last, begin
<1>8. {b \in Begins(g) : b < last /\ \A d \in Begins(g) : d < last => d <= b} = {begin}
  <2>1. begin \in {b \in Begins(g) : b < last /\ \A d \in Begins(g) : d < last => d <= b}
    BY <1>3, <1>4, <1>5, <1>6
  <2>2. ASSUME NEW b \in Begins(g), b < last, \A d \in Begins(g) : d < last => d <= b
        PROVE  b = begin
    BY <2>2, <1>3, <1>4, <1>5, <1>6
  <2> QED
    BY <2>1, <2>2
<1>9. BeginOf(g, last) = begin
  BY <1>8 DEF BeginOf, TheOne
<1>10. EntryAt(g, last) = [edge |-> "recovered", scans |-> c]
  BY <1>4, <1>7, <1>9 DEF EntryAt
<1> QED
  BY <1>10 DEF g, last

-----------------------------------------------------------------------------
\* An exchange adds the entry of its edge to the log that is owed, or none.
LEMMA AlarmLogGrows ==
    ASSUME NEW h \in Seq(Outcomes), NEW o \in Outcomes, NEW c \in Nat,
           CountsTrailingFailures(c, h), Ranked(Edges(h))
    PROVE  LET g == Append(h, o)
               size == Cardinality(Edges(h))
           IN  /\ size \in Nat /\ Ranked(Edges(g))
               /\ (o = "failed" /\ c = 0) \/ (o = "ok" /\ c > 0) =>
                     /\ Cardinality(Edges(g)) = size + 1
                     /\ \A n \in 1 .. size : AlarmLog(g)[n] = AlarmLog(h)[n]
                     /\ AlarmLog(g)[size + 1] =
                           IF o = "failed" THEN [edge |-> "failed", scans |-> 0]
                           ELSE [edge |-> "recovered", scans |-> c]
               /\ ~((o = "failed" /\ c = 0) \/ (o = "ok" /\ c > 0)) =>
                     Edges(g) = Edges(h) /\ AlarmLog(g) = AlarmLog(h)
<1> DEFINE g == Append(h, o)
           last == Len(h) + 1
           size == Cardinality(Edges(h))
           isEdge == (o = "failed" /\ c = 0) \/ (o = "ok" /\ c > 0)
<1>1. /\ Len(h) \in Nat /\ DOMAIN h = 1 .. Len(h)
  BY OneMoreExchange
<1>2. size \in Nat
  BY FS_CardinalityType DEF Ranked
<1>3. Edges(h) \subseteq 1 .. Len(h)
  BY <1>1 DEF Edges, Begins, Ends
<1>4. \A n \in 1 .. size : Nth(Edges(h), n) \in 1 .. Len(h)
  BY <1>3 DEF Ranked
<1>5. \A i \in 1 .. Len(h) : EntryAt(g, i) = EntryAt(h, i)
  BY OldEntriesStay
<1>6. /\ Begins(g) = Begins(h) \cup (IF o = "failed" /\ c = 0 THEN {last} ELSE {})
      /\ Ends(g) = Ends(h) \cup (IF o = "ok" /\ c > 0 THEN {last} ELSE {})
  BY NewEdge
<1>7. ASSUME isEdge
      PROVE  /\ Ranked(Edges(g)) /\ Cardinality(Edges(g)) = size + 1
             /\ \A n \in 1 .. size : AlarmLog(g)[n] = AlarmLog(h)[n]
             /\ AlarmLog(g)[size + 1] =
                   IF o = "failed" THEN [edge |-> "failed", scans |-> 0]
                   ELSE [edge |-> "recovered", scans |-> c]
  <2>1. Edges(g) = Edges(h) \cup {last}
    <3>1. CASE o = "failed" /\ c = 0
      BY <3>1, <1>6 DEF Edges
    <3>2. CASE o = "ok" /\ c > 0
      BY <3>2, <1>6 DEF Edges
    <3> QED
      BY <1>7, <3>1, <3>2
  <2>2. last \in Nat /\ \A i \in Edges(h) : i < last
    BY <1>1, <1>3
  <2>3. /\ Cardinality(Edges(g)) = size + 1
        /\ \A n \in 1 .. size : Nth(Edges(g), n) = Nth(Edges(h), n)
        /\ Nth(Edges(g), size + 1) = last
        /\ Ranked(Edges(g))
    <3> PICK old : old = Edges(h)
      OBVIOUS
    <3> PICK new : new = Edges(g)
      OBVIOUS
    <3> PICK k : k = last
      OBVIOUS
    <3>1. Ranked(old) /\ new = old \cup {k}
      BY <2>1
    <3>2. k \in Nat /\ \A i \in old : i < k
      BY <2>2
    <3> HIDE DEF g, last
    <3>3. /\ Cardinality(new) = Cardinality(old) + 1
          /\ \A n \in 1 .. Cardinality(old) : Nth(new, n) = Nth(old, n)
          /\ Nth(new, Cardinality(old) + 1) = k
          /\ Ranked(new)
      <4>1. Ranked(old)
        BY <3>1
      <4>2. new = old \cup {k}
        BY <3>1
      <4>3. k \in Nat
        BY <3>2
      <4>4. \A i \in old : i < k
        BY <3>2
      <4>5. Ranked(new)
        BY <4>1, <4>2, <4>3, <4>4, LargestIsLast
      <4>6. Cardinality(new) = Cardinality(old) + 1
        BY <4>1, <4>2, <4>3, <4>4, LargestIsLast
      <4>7. Nth(new, Cardinality(old) + 1) = k
        BY <4>1, <4>2, <4>3, <4>4, LargestIsLast
      <4>8. \A n \in 1 .. Cardinality(old) : Nth(new, n) = Nth(old, n)
        BY <4>1, <4>2, <4>3, <4>4, LargestIsLast
      <4> QED
        BY <4>5, <4>6, <4>7, <4>8
    <3> QED
      BY <3>3
  <2>4. ASSUME NEW n \in 1 .. size PROVE AlarmLog(g)[n] = AlarmLog(h)[n]
    <3>1. n \in 1 .. size + 1
      BY <1>2
    <3>2. /\ AlarmLog(g)[n] = EntryAt(g, Nth(Edges(g), n))
          /\ AlarmLog(h)[n] = EntryAt(h, Nth(Edges(h), n))
      BY <2>3, <3>1 DEF AlarmLog
    <3> QED
      BY <3>2, <2>3, <1>4, <1>5
  <2>5. AlarmLog(g)[size + 1] = EntryAt(g, last)
    <3>1. size + 1 \in 1 .. size + 1
      BY <1>2
    <3> QED
      BY <3>1, <2>3 DEF AlarmLog
  <2>6. EntryAt(g, last) = IF o = "failed" THEN [edge |-> "failed", scans |-> 0]
                           ELSE [edge |-> "recovered", scans |-> c]
    <3>1. CASE o = "failed" /\ c = 0
      <4>1. last \in Begins(g)
        BY <3>1, <1>6
      <4> QED
        BY <4>1, <3>1 DEF EntryAt
    <3>2. CASE o = "ok" /\ c > 0
      BY <3>2, OutageLength
    <3> QED
      BY <1>7, <3>1, <3>2
  <2> QED
    BY <2>3, <2>4, <2>5, <2>6
<1>8. ASSUME ~isEdge
      PROVE  Edges(g) = Edges(h) /\ AlarmLog(g) = AlarmLog(h)
  <2>1. Edges(g) = Edges(h)
    BY <1>6, <1>8 DEF Edges
  <2>2. \A n \in 1 .. size : EntryAt(g, Nth(Edges(h), n)) = EntryAt(h, Nth(Edges(h), n))
    BY <1>4, <1>5
  <2> HIDE DEF g
  <2>3. AlarmLog(g) = AlarmLog(h)
    BY <2>1, <2>2 DEF AlarmLog
  <2> QED
    BY <2>1, <2>3
<1> QED
  BY <1>2, <1>7, <1>8

\* An entry appended to the event log appears at the end of its direction's
\* log and nowhere else.
LEMMA LinkLogGrows ==
    ASSUME events \in Seq(Events), NEW e \in Events, NEW d,
           events' = Append(events, e), Ranked(LinkEntries(d))
    PROVE  LET size == Cardinality(LinkEntries(d))
           IN  /\ size \in Nat /\ Ranked(LinkEntries(d))'
               /\ e.source = d =>
                     /\ Cardinality(LinkEntries(d))' = size + 1
                     /\ \A n \in 1 .. size : LinkLog(d)'[n] = LinkLog(d)[n]
                     /\ LinkLog(d)'[size + 1] = [edge |-> e.edge, scans |-> e.scans]
               /\ e.source # d =>
                     /\ Cardinality(LinkEntries(d))' = size
                     /\ LinkLog(d)' = LinkLog(d)
<1> DEFINE last == Len(events) + 1
<1> PICK size \in Nat : size = Cardinality(LinkEntries(d))
  BY FS_CardinalityType DEF Ranked
<1> PICK old : old = LinkEntries(d)
  OBVIOUS
<1> PICK past : past = events
  OBVIOUS
<1>1. /\ DOMAIN events = 1 .. Len(events) /\ Len(events) \in Nat
      /\ \A n \in 1 .. Len(events) : events'[n] = events[n]
      /\ events'[last] = e
  BY AppendProperties, LenProperties
<1>2. old \subseteq 1 .. Len(events)
  BY <1>1 DEF LinkEntries
<1>3. \A n \in 1 .. size : Nth(old, n) \in 1 .. Len(events)
  BY <1>2 DEF Ranked
<1>4. /\ e.source = d => LinkEntries(d)' = old \cup {last}
      /\ e.source # d => LinkEntries(d)' = old
  BY EntriesAfterAppend DEF LinkEntries
<1>5. \A n \in 1 .. size : LinkLog(d)[n] =
          [edge |-> past[Nth(old, n)].edge, scans |-> past[Nth(old, n)].scans]
  BY DEF LinkLog
<1>6. \A n \in 1 .. Cardinality(LinkEntries(d))' :
         LinkLog(d)'[n] = [edge |-> events'[Nth(LinkEntries(d)', n)].edge,
                           scans |-> events'[Nth(LinkEntries(d)', n)].scans]
  BY DEF LinkLog
<1>7. ASSUME e.source = d
      PROVE  /\ Ranked(LinkEntries(d))'
             /\ Cardinality(LinkEntries(d))' = size + 1
             /\ \A n \in 1 .. size : LinkLog(d)'[n] = LinkLog(d)[n]
             /\ LinkLog(d)'[size + 1] = [edge |-> e.edge, scans |-> e.scans]
  <2>1. last \in Nat /\ \A i \in old : i < last
    BY <1>1, <1>2
  <2>2. /\ Cardinality(LinkEntries(d)') = size + 1
        /\ \A n \in 1 .. size : Nth(LinkEntries(d)', n) = Nth(old, n)
        /\ Nth(LinkEntries(d)', size + 1) = last
        /\ Ranked(LinkEntries(d)')
    BY <1>4, <1>7, <2>1, LargestIsLast
  <2>3. Ranked(LinkEntries(d))'
    BY <2>2 DEF Ranked, Nth, TheOne
  <2>4. ASSUME NEW n \in 1 .. size PROVE LinkLog(d)'[n] = LinkLog(d)[n]
    <3>1. n \in 1 .. size + 1 /\ Nth(old, n) \in 1 .. Len(events)
      BY <1>3
    <3>2. LinkLog(d)'[n] = [edge |-> events'[Nth(old, n)].edge,
                            scans |-> events'[Nth(old, n)].scans]
      BY <3>1, <2>2, <1>6
    <3>3. events'[Nth(old, n)] = past[Nth(old, n)]
      BY <3>1, <1>1
    <3> QED
      BY <3>2, <3>3, <1>5
  <2>5. LinkLog(d)'[size + 1] = [edge |-> e.edge, scans |-> e.scans]
    <3>1. size + 1 \in 1 .. size + 1
      OBVIOUS
    <3> QED
      BY <3>1, <2>2, <1>1, <1>6
  <2> QED
    BY <2>2, <2>3, <2>4, <2>5
<1>8. ASSUME e.source # d
      PROVE  /\ Ranked(LinkEntries(d))'
             /\ Cardinality(LinkEntries(d))' = size
             /\ LinkLog(d)' = LinkLog(d)
  <2>1. LinkEntries(d)' = LinkEntries(d)
    BY <1>4, <1>8
  <2>2. \A n \in 1 .. size : events'[Nth(old, n)] = events[Nth(old, n)]
    BY <1>1, <1>3
  <2>3. LinkLog(d)' = LinkLog(d)
    BY <2>1, <2>2 DEF LinkLog
  <2> QED
    BY <2>1, <2>3 DEF Ranked, Nth, TheOne
<1> QED
  BY <1>7, <1>8

\* The log of a direction is the one its history is owed.
LinkInv(d, h) ==
    /\ Ranked(LinkEntries(d)) /\ Ranked(Edges(h))
    /\ Cardinality(LinkEntries(d)) = Cardinality(Edges(h))
    /\ LinkLog(d) = AlarmLog(h)

\* A failed and a good exchange, with what the executive logs of them.
LEMMA ExchangeIsLogged ==
    ASSUME events \in Seq(Events), NEW d \in Directions,
           NEW h \in Seq(Outcomes), NEW c \in Nat,
           CountsTrailingFailures(c, h), LinkInv(d, h),
           NEW o \in Outcomes,
           o = "failed" => LogFailure(d, c),
           o = "ok" => LogRecovery(d, c)
    PROVE  LinkLog(d)' = AlarmLog(Append(h, o))
           /\ Ranked(LinkEntries(d))' /\ Ranked(Edges(Append(h, o)))
           /\ Cardinality(LinkEntries(d))' = Cardinality(Edges(Append(h, o)))
<1> DEFINE isEdge == (o = "failed" /\ c = 0) \/ (o = "ok" /\ c > 0)
<1> PICK g : g = Append(h, o)
  OBVIOUS
<1> PICK size : size = Cardinality(Edges(h))
  OBVIOUS
<1>1. /\ Ranked(LinkEntries(d)) /\ Ranked(Edges(h))
      /\ Cardinality(LinkEntries(d)) = size
      /\ LinkLog(d) = AlarmLog(h)
  BY DEF LinkInv
<1>2. /\ size \in Nat /\ Ranked(Edges(g))
      /\ isEdge => /\ Cardinality(Edges(g)) = size + 1
                   /\ \A n \in 1 .. size : AlarmLog(g)[n] = AlarmLog(h)[n]
                   /\ AlarmLog(g)[size + 1] =
                         IF o = "failed" THEN [edge |-> "failed", scans |-> 0]
                         ELSE [edge |-> "recovered", scans |-> c]
      /\ ~isEdge => Edges(g) = Edges(h) /\ AlarmLog(g) = AlarmLog(h)
  BY <1>1, AlarmLogGrows
<1>3. CASE isEdge
  <2> DEFINE e == IF o = "failed"
                  THEN [source |-> d, edge |-> "failed", scans |-> 0]
                  ELSE [source |-> d, edge |-> "recovered", scans |-> c]
  <2>1. e \in Events /\ e.source = d
        /\ [edge |-> e.edge, scans |-> e.scans] =
              IF o = "failed" THEN [edge |-> "failed", scans |-> 0]
              ELSE [edge |-> "recovered", scans |-> c]
    BY DEF Events
  <2>2. events' = Append(events, e)
    BY <1>3 DEF LogFailure, LogRecovery
  <2> HIDE DEF e
  <2>3. /\ Ranked(LinkEntries(d))'
        /\ Cardinality(LinkEntries(d))' = size + 1
        /\ \A n \in 1 .. size : LinkLog(d)'[n] = LinkLog(d)[n]
        /\ LinkLog(d)'[size + 1] = [edge |-> e.edge, scans |-> e.scans]
    BY <1>1, <2>1, <2>2, LinkLogGrows
  <2>4. \A n \in 1 .. size + 1 : LinkLog(d)'[n] = AlarmLog(g)[n]
    <3> TAKE n \in 1 .. size + 1
    <3>1. n \in 1 .. size \/ n = size + 1
      BY <1>2
    <3> QED
      BY <3>1, <1>1, <1>2, <1>3, <2>1, <2>3
  <2>5. LinkLog(d)' = [n \in 1 .. size + 1 |-> LinkLog(d)'[n]]
    BY <2>3 DEF LinkLog
  <2>6. AlarmLog(g) = [n \in 1 .. size + 1 |-> AlarmLog(g)[n]]
    BY <1>2, <1>3 DEF AlarmLog
  <2>7. LinkLog(d)' = AlarmLog(g)
    BY <2>4, <2>5, <2>6
  <2> QED
    BY <2>3, <2>7, <1>2, <1>3
<1>4. CASE ~isEdge
  <2>1. events' = events
    BY <1>4 DEF LogFailure, LogRecovery, Outcomes
  <2>2. LinkEntries(d)' = LinkEntries(d) /\ LinkLog(d)' = LinkLog(d)
    BY <2>1 DEF LinkEntries, LinkLog
  <2> QED
    <3>1. Ranked(LinkEntries(d))'
      <4>1. Ranked(LinkEntries(d)')
        BY <1>1, <2>2
      <4> QED
        BY <4>1 DEF Ranked, Nth, TheOne
    <3>2. Cardinality(LinkEntries(d))' = size
      BY <1>1, <2>2
    <3>3. LinkLog(d)' = AlarmLog(g) /\ Cardinality(Edges(g)) = size
      BY <1>1, <1>2, <1>4, <2>2
    <3> QED
      BY <3>1, <3>2, <3>3, <1>2
<1> QED
  BY <1>3, <1>4

\* What leaves the event log alone leaves every direction's log alone.
LEMMA LogsHold ==
    ASSUME events' = events, NEW d, Ranked(LinkEntries(d))
    PROVE  /\ Ranked(LinkEntries(d))' /\ LinkLog(d)' = LinkLog(d)
           /\ Cardinality(LinkEntries(d))' = Cardinality(LinkEntries(d))
<1>1. LinkEntries(d)' = LinkEntries(d) /\ LinkLog(d)' = LinkLog(d)
  BY DEF LinkEntries, LinkLog
<1>2. Ranked(LinkEntries(d)')
  BY <1>1
<1> QED
  BY <1>1, <1>2 DEF Ranked, Nth, TheOne

\* So does an entry of another source.
LEMMA OtherEntriesHold ==
    ASSUME events \in Seq(Events), NEW d, Ranked(LinkEntries(d)),
           NEW e \in Events, e.source # d,
           events' = events \/ events' = Append(events, e)
    PROVE  /\ Ranked(LinkEntries(d))' /\ LinkLog(d)' = LinkLog(d)
           /\ Cardinality(LinkEntries(d))' = Cardinality(LinkEntries(d))
<1>1. CASE events' = events
  BY <1>1, LogsHold
<1>2. CASE events' = Append(events, e)
  BY <1>2, LinkLogGrows
<1> QED
  BY <1>1, <1>2

\* The exchange of one direction leaves the other direction's log alone.
LEMMA OtherDirectionHolds ==
    ASSUME events \in Seq(Events), NEW d \in Directions, NEW other \in Directions,
           d # other, NEW c \in Nat, Ranked(LinkEntries(d)),
           LogFailure(other, c) \/ LogRecovery(other, c)
    PROVE  /\ Ranked(LinkEntries(d))' /\ LinkLog(d)' = LinkLog(d)
           /\ Cardinality(LinkEntries(d))' = Cardinality(LinkEntries(d))
<1>1. CASE LogFailure(other, c)
  <2> DEFINE e == [source |-> other, edge |-> "failed", scans |-> 0]
  <2>1. e \in Events /\ e.source # d
    BY DEF Events
  <2>2. events' = events \/ events' = Append(events, e)
    BY <1>1 DEF LogFailure
  <2> HIDE DEF e
  <2> QED
    BY <2>1, <2>2, OtherEntriesHold
<1>2. CASE LogRecovery(other, c)
  <2> DEFINE e == [source |-> other, edge |-> "recovered", scans |-> c]
  <2>1. e \in Events /\ e.source # d
    BY DEF Events
  <2>2. events' = events \/ events' = Append(events, e)
    BY <1>2 DEF LogRecovery
  <2> HIDE DEF e
  <2> QED
    BY <2>1, <2>2, OtherEntriesHold
<1> QED
  BY <1>1, <1>2

-----------------------------------------------------------------------------
\* Nothing that says more about one direction's log than the history it mirrors
\* and the counter that measures its present outage: the invariant behind the
\* refinement.
LogsInv == LinkInv("input read", reads) /\ LinkInv("output write", writes)

\* A step either exchanges with one direction or leaves its log and its history
\* as they are; either way the log stays the one that is owed.
LEMMA EachStepIsAnExchange ==
    ASSUME TypeOK, CountersMeasureOutages, LogsInv, [Next]_vars
    PROVE  /\ \/ \E o \in Outcomes : reads' = Append(reads, o)
              \/ reads' = reads /\ LinkLog("input read")' = LinkLog("input read")
           /\ \/ \E o \in Outcomes : writes' = Append(writes, o)
              \/ writes' = writes /\ LinkLog("output write")' = LinkLog("output write")
           /\ LogsInv'
<1> DEFINE Same(d) == /\ Ranked(LinkEntries(d))' /\ LinkLog(d)' = LinkLog(d)
                      /\ Cardinality(LinkEntries(d))' = Cardinality(LinkEntries(d))
           Owed(d, h) == /\ Ranked(LinkEntries(d))' /\ Ranked(Edges(h))
                         /\ Cardinality(LinkEntries(d))' = Cardinality(Edges(h))
                         /\ LinkLog(d)' = AlarmLog(h)
<1>0. /\ events \in Seq(Events) /\ reads \in Seq(Outcomes) /\ writes \in Seq(Outcomes)
      /\ readFailures \in Nat /\ writeFailures \in Nat
      /\ CountsTrailingFailures(readFailures, reads)
      /\ CountsTrailingFailures(writeFailures, writes)
      /\ LinkInv("input read", reads) /\ LinkInv("output write", writes)
      /\ Ranked(LinkEntries("input read")) /\ Ranked(LinkEntries("output write"))
  BY DEF TypeOK, CountersMeasureOutages, LogsInv, LinkInv
<1>1. /\ "input read" \in Directions /\ "output write" \in Directions
      /\ "ok" \in Outcomes /\ "failed" \in Outcomes
      /\ "input read" # "output write" /\ "ok" # "failed"
  BY DEF Directions, Outcomes
<1>2. ASSUME Owed("input read", reads'), Owed("output write", writes')
      PROVE  LogsInv'
  BY <1>2 DEF LogsInv, LinkInv, Ranked, Nth, TheOne
<1>3. /\ Same("input read") /\ reads' = reads => Owed("input read", reads')
      /\ Same("output write") /\ writes' = writes => Owed("output write", writes')
  BY <1>0 DEF LinkInv
<1>4. CASE TransferInputs \/ TransferInputsFails
  <2>1. writes' = writes
    BY <1>4 DEF TransferInputs, TransferInputsFails
  <2>2. PICK o \in Outcomes :
            /\ reads' = Append(reads, o)
            /\ o = "failed" => LogFailure("input read", readFailures)
            /\ o = "ok" => LogRecovery("input read", readFailures)
    BY <1>1, <1>4 DEF TransferInputs, TransferInputsFails
  <2>3. LogFailure("input read", readFailures) \/ LogRecovery("input read", readFailures)
    BY <2>2 DEF Outcomes
  <2>4. Same("output write")
    BY <1>0, <1>1, <2>3, OtherDirectionHolds
  <2>5. Owed("input read", Append(reads, o))
    BY <1>0, <1>1, <2>2, ExchangeIsLogged
  <2> QED
    BY <2>1, <2>2, <2>4, <2>5, <1>2, <1>3
<1>5. CASE TransferOutputs \/ TransferOutputsFails
  <2>1. reads' = reads
    BY <1>5 DEF TransferOutputs, TransferOutputsFails
  <2>2. PICK o \in Outcomes :
            /\ writes' = Append(writes, o)
            /\ o = "failed" => LogFailure("output write", writeFailures)
            /\ o = "ok" => LogRecovery("output write", writeFailures)
    BY <1>1, <1>5 DEF TransferOutputs, TransferOutputsFails
  <2>3. LogFailure("output write", writeFailures) \/ LogRecovery("output write", writeFailures)
    BY <2>2 DEF Outcomes
  <2>4. Same("input read")
    BY <1>0, <1>1, <2>3, OtherDirectionHolds
  <2>5. Owed("output write", Append(writes, o))
    BY <1>0, <1>1, <2>2, ExchangeIsLogged
  <2> QED
    BY <2>1, <2>2, <2>4, <2>5, <1>2, <1>3
<1>6. CASE Observe
  <2> DEFINE e == [source |-> "watchdog", edge |-> "tripped", scans |-> 0]
  <2>1. reads' = reads /\ writes' = writes
    BY <1>6 DEF Observe, history
  <2>2. e \in Events /\ e.source # "input read" /\ e.source # "output write"
    BY DEF Events
  <2>3. events' = events \/ events' = Append(events, e)
    BY <1>6 DEF Observe
  <2> HIDE DEF e
  <2>4. Same("input read") /\ Same("output write")
    BY <1>0, <2>2, <2>3, OtherEntriesHold
  <2> QED
    BY <2>1, <2>4, <1>2, <1>3
<1>7. CASE \/ StepPlant \/ ScanPLC \/ ScanPLCRaises
           \/ RestartPLC \/ DriveTag \/ UNCHANGED vars
  <2>1. events' = events /\ reads' = reads /\ writes' = writes
    BY <1>7 DEF StepPlant, ScanPLC, ScanPLCRaises, RestartPLC,
                DriveTag, vars, execVars, history
  <2>2. Same("input read") /\ Same("output write")
    BY <1>0, <2>1, LogsHold
  <2> QED
    BY <2>1, <2>2, <1>2, <1>3
<1> QED
  BY <1>4, <1>5, <1>6, <1>7 DEF Next, Tick

LEMMA LogsInvariant == Spec => []LogsInv
<1>1. Init => LogsInv
  <2> SUFFICES ASSUME Init PROVE LogsInv
    OBVIOUS
  <2>1. events = <<>> /\ reads = <<>> /\ writes = <<>>
    BY DEF Init
  <2>2. \A d : LinkEntries(d) = {}
    BY <2>1 DEF LinkEntries
  <2>3. Edges(<<>>) = {}
    BY DEF Edges, Begins, Ends
  <2>4. 1 .. 0 = {}
    OBVIOUS
  <2>5. \A d : LinkLog(d) = AlarmLog(<<>>)
    BY <2>2, <2>3, <2>4, NoneRanked DEF LinkLog, AlarmLog
  <2> QED
    BY <2>1, <2>2, <2>3, <2>5, NoneRanked DEF LogsInv, LinkInv
<1>2. TypeOK /\ CountersMeasureOutages /\ LogsInv /\ [Next]_vars => LogsInv'
  BY EachStepIsAnExchange
<1> QED
  BY <1>1, <1>2, TypeCorrect, CountersCorrect, PTL DEF Spec

\* The instances of LinkAlarm speak of the same log.
LEMMA SameAlarm ==
    ASSUME NEW h
    PROVE  ReadAlarm!AlarmLog(h) = AlarmLog(h) /\ WriteAlarm!AlarmLog(h) = AlarmLog(h)
<1>1. ReadAlarm!AlarmLog(h) = AlarmLog(h)
  BY DEF AlarmLog, ReadAlarm!AlarmLog, Edges, ReadAlarm!Edges,
         Begins, ReadAlarm!Begins, Ends, ReadAlarm!Ends, Nth, ReadAlarm!Nth,
         TheOne, ReadAlarm!TheOne, EntryAt, ReadAlarm!EntryAt,
         BeginOf, ReadAlarm!BeginOf, Cardinality, ReadAlarm!Cardinality
<1>2. WriteAlarm!AlarmLog(h) = AlarmLog(h)
  BY DEF AlarmLog, WriteAlarm!AlarmLog, Edges, WriteAlarm!Edges,
         Begins, WriteAlarm!Begins, Ends, WriteAlarm!Ends, Nth, WriteAlarm!Nth,
         TheOne, WriteAlarm!TheOne, EntryAt, WriteAlarm!EntryAt,
         BeginOf, WriteAlarm!BeginOf, Cardinality, WriteAlarm!Cardinality
<1> QED
  BY <1>1, <1>2

\* The executive's shared event log implements the alarm promise of each
\* direction: for every interleaving of outages of the two directions, watchdog
\* trips, restarts and programs that raise, an operator reading one direction
\* sees one entry where an outage begins and one, with its length, where it
\* ends, and nothing else.
THEOREM LinkAlarmImplemented == Spec => OutagesAreAlarmed
<1>1. Init => ReadAlarm!Init /\ WriteAlarm!Init
  <2> SUFFICES ASSUME Init PROVE ReadAlarm!Init /\ WriteAlarm!Init
    OBVIOUS
  <2>1. events = <<>> /\ reads = <<>> /\ writes = <<>>
    BY DEF Init
  <2>2. \A d : LinkEntries(d) = {}
    BY <2>1 DEF LinkEntries
  <2>3. \A d : LinkLog(d) = <<>>
    <3>1. 1 .. 0 = {} /\ DOMAIN <<>> = {}
      OBVIOUS
    <3> QED
      BY <2>2, <3>1, NoneRanked DEF LinkLog
  <2> QED
    BY <2>1, <2>3 DEF ReadAlarm!Init, WriteAlarm!Init
<1>2. TypeOK /\ CountersMeasureOutages /\ LogsInv /\ [Next]_vars
        => /\ [ReadAlarm!Next]_<<reads, LinkLog("input read")>>
           /\ [WriteAlarm!Next]_<<writes, LinkLog("output write")>>
  <2> SUFFICES ASSUME TypeOK, CountersMeasureOutages, LogsInv, [Next]_vars
               PROVE  /\ [ReadAlarm!Next]_<<reads, LinkLog("input read")>>
                      /\ [WriteAlarm!Next]_<<writes, LinkLog("output write")>>
    OBVIOUS
  <2>1. /\ \/ \E o \in Outcomes : reads' = Append(reads, o)
           \/ reads' = reads /\ LinkLog("input read")' = LinkLog("input read")
        /\ \/ \E o \in Outcomes : writes' = Append(writes, o)
           \/ writes' = writes /\ LinkLog("output write")' = LinkLog("output write")
        /\ LogsInv'
    BY EachStepIsAnExchange
  <2>2. /\ LinkLog("input read")' = AlarmLog(reads')
        /\ LinkLog("output write")' = AlarmLog(writes')
    BY <2>1 DEF LogsInv, LinkInv
  <2>3. [ReadAlarm!Next]_<<reads, LinkLog("input read")>>
    BY <2>1, <2>2, SameAlarm DEF ReadAlarm!Next, ReadAlarm!Exchange, Outcomes
  <2>4. [WriteAlarm!Next]_<<writes, LinkLog("output write")>>
    BY <2>1, <2>2, SameAlarm DEF WriteAlarm!Next, WriteAlarm!Exchange, Outcomes
  <2> QED
    BY <2>3, <2>4
<1> QED
  BY <1>1, <1>2, TypeCorrect, CountersCorrect, LogsInvariant, PTL
     DEF Spec, OutagesAreAlarmed, ReadAlarm!Spec, WriteAlarm!Spec
=============================================================================
