------------------------------ MODULE RunProofs ------------------------------
(***************************************************************************)
(* A run: how the wall clock paces it, for any modes, any duration of any  *)
(* tick and any oversleep, and what a replay of its recording shows, for   *)
(* any inputs, program and failures.                                       *)
(***************************************************************************)
EXTENDS Pacing, Recording, SequenceTheorems, TLAPS

-----------------------------------------------------------------------------
(***************************************************************************)
(* The wall clock neither drifts nor catches up in a burst.                *)
(***************************************************************************)

\* Nothing but a paced tick of the present interval is a steady cadence, and
\* each kind of such a tick leaves its deadline where the cadence says.
LEMMA CadenceInductive == CadenceInv /\ [PacingNext]_pacingVars => CadenceInv'
<1> SUFFICES ASSUME CadenceInv, [PacingNext]_pacingVars PROVE CadenceInv'
  OBVIOUS
<1> USE PacingAssumption
<1>1. CASE Work
  <2>1. OnCadence'
    BY <1>1 DEF Work, paceVars, CadenceInv, OnCadence
  <2> QED
    BY <1>1, <2>1 DEF Work, CadenceInv, PacingTypeOK, paceVars
<1>2. CASE FreeRun
  <2>1. OnCadence'
    BY <1>2 DEF FreeRun, TickEnds, paceVars, CadenceInv, OnCadence
  <2> QED
    BY <1>2, <2>1 DEF FreeRun, TickEnds, CadenceInv, PacingTypeOK, paceVars
<1>3. CASE Establish
  <2>1. OnCadence'
    <3>1. 0 * interval = 0
      BY DEF CadenceInv, PacingTypeOK
    <3> QED
      BY <1>3, <3>1 DEF Establish, TickEnds, CadenceInv, PacingTypeOK, OnCadence
  <2> QED
    BY <1>3, <2>1 DEF Establish, TickEnds, CadenceInv, PacingTypeOK
<1>4. CASE Sleep
  <2>1. deadline \in Nat /\ interval \in Nat
    BY <1>4 DEF Sleep, CadenceInv, PacingTypeOK
  <2>2. /\ deadline' = deadline + interval /\ deadline' \in Nat
        /\ ended' = now' /\ now' \in Nat
        /\ deadline' <= now' /\ now' <= deadline' + MaxOversleep
    BY <1>4, <2>1 DEF Sleep, TickEnds
  <2>3. anchor' = anchor /\ slots' = slots + 1 /\ interval' = interval
    BY <1>4 DEF Sleep, TickEnds
  <2>4. (slots + 1) * interval = slots * interval + interval
    BY <2>1 DEF CadenceInv
  <2>5. OnCadence'
    BY <1>4, <2>1, <2>2, <2>3, <2>4 DEF Sleep, CadenceInv, OnCadence
  <2> QED
    BY <1>4, <2>1, <2>2, <2>3, <2>5 DEF Sleep, TickEnds, CadenceInv, PacingTypeOK
<1>5. CASE Resync
  <2>1. OnCadence'
    <3>1. 0 * interval = 0
      BY DEF CadenceInv, PacingTypeOK
    <3> QED
      BY <1>5, <3>1 DEF Resync, TickEnds, CadenceInv, PacingTypeOK, OnCadence
  <2> QED
    BY <1>5, <2>1 DEF Resync, TickEnds, CadenceInv, PacingTypeOK
<1>6. CASE SetMode
  <2>1. PICK i \in WallIntervals : interval' = i
    BY <1>6 DEF SetMode
  <2>2. 0 * i = 0
    BY <2>1
  <2>3. OnCadence'
    BY <1>6, <2>1, <2>2 DEF SetMode, paceVars, CadenceInv, PacingTypeOK, OnCadence
  <2> QED
    BY <1>6, <2>3 DEF SetMode, CadenceInv, PacingTypeOK, paceVars
<1>7. CASE ResetPacing
  <2>1. OnCadence'
    BY <1>7 DEF ResetPacing, OnCadence
  <2> QED
    BY <1>7, <2>1 DEF ResetPacing, CadenceInv, PacingTypeOK
<1>8. CASE UNCHANGED pacingVars
  <2>1. OnCadence'
    BY <1>8 DEF pacingVars, paceVars, history, CadenceInv, OnCadence
  <2> QED
    BY <1>8, <2>1 DEF pacingVars, paceVars, history, CadenceInv, PacingTypeOK
<1> QED
  BY <1>1, <1>2, <1>3, <1>4, <1>5, <1>6, <1>7, <1>8 DEF PacingNext, Pace

LEMMA CadenceInvariant == PacingSpec => []CadenceInv
<1>1. PacingInit => OnCadence
  BY DEF PacingInit, OnCadence
<1>2. PacingInit => PacingTypeOK
  BY PacingAssumption DEF PacingInit, PacingTypeOK
<1>3. PacingInit => steady = FALSE /\ anchor \in Nat /\ slots \in Nat /\ ended \in Nat
  BY DEF PacingInit
<1>4. PacingInit => CadenceInv
  BY <1>1, <1>2, <1>3 DEF CadenceInv
<1> QED
  BY <1>4, CadenceInductive, PTL DEF PacingSpec

\* The n-th tick of a cadence is over n intervals after its origin, for every
\* n: oversleeping once never delays the ticks after it.
THEOREM CadenceDoesNotDrift == PacingSpec => []NoDrift
<1>1. CadenceInv => NoDrift
  <2> SUFFICES ASSUME CadenceInv, steady
               PROVE  ended - (anchor + slots * interval) \in 0 .. MaxOversleep
    BY DEF NoDrift
  <2>1. deadline = anchor + slots * interval
    BY PacingAssumption DEF CadenceInv, OnCadence
  <2>2. ended - deadline \in 0 .. MaxOversleep
    BY PacingAssumption DEF CadenceInv
  <2> QED
    BY <2>1, <2>2
<1> QED
  BY <1>1, CadenceInvariant, PTL

\* A tick that ends no sooner than its deadline is an interval away from one
\* that overslept its own.
LEMMA OneOversleep ==
    ASSUME NEW d \in Nat, NEW i \in Nat, NEW before \in Nat, NEW after \in Nat,
           NEW oversleep \in Nat,
           before <= d + oversleep, d + i <= after
    PROVE  after - before >= i - oversleep
  OBVIOUS

\* However late a tick was, the next one of its cadence keeps its distance.
THEOREM NoTickCatchesUp == PacingSpec => NoCatchUpBurst
<1> DEFINE Distance == steady /\ pc = "pace" /\ pc' = "work"
                           => now' - ended >= interval - MaxOversleep
<1>1. CadenceInv /\ [PacingNext]_pacingVars => [Distance]_pacingVars
  <2> SUFFICES ASSUME CadenceInv, [PacingNext]_pacingVars, steady, pc = "pace", pc' = "work",
                      pacingVars' # pacingVars
               PROVE  now' - ended >= interval - MaxOversleep
    OBVIOUS
  <2>0. /\ now \in Nat /\ ended \in Nat /\ deadline \in Nat /\ deadline # None
        /\ interval \in Nat \ {0} /\ deadline <= ended /\ ended <= deadline + MaxOversleep
    BY PacingAssumption DEF CadenceInv, PacingTypeOK
  <2>1. ~Work /\ ~SetMode /\ ~ResetPacing
    BY DEF Work, SetMode, ResetPacing
  <2>2. ~FreeRun /\ ~Establish
    BY <2>0 DEF FreeRun, Establish
  <2>3. CASE Sleep
    <3>1. now' \in Nat /\ deadline + interval <= now'
      BY <2>0, <2>3, PacingAssumption DEF Sleep
    <3>2. MaxOversleep \in Nat
      BY PacingAssumption
    <3> QED
      BY <2>0, <3>1, <3>2, OneOversleep
  <2>4. CASE Resync
    BY <2>0, <2>4, PacingAssumption DEF Resync
  <2> QED
    BY <2>1, <2>2, <2>3, <2>4 DEF PacingNext, Pace
<1> QED
  BY <1>1, CadenceInvariant, PTL DEF PacingSpec, NoCatchUpBurst

-----------------------------------------------------------------------------
(***************************************************************************)
(* A replay reproduces the recorded run.                                   *)
(***************************************************************************)

\* A longer past recalls the shorter one.
LEMMA RecallLonger ==
    ASSUME NEW S, NEW s \in Seq(S), NEW e \in S, NEW n, n = Len(s),
           NEW longer, longer = Append(s, e)
    PROVE  /\ n \in Nat /\ longer \in Seq(S) /\ Len(longer) = n + 1
           /\ longer[n + 1] = e /\ \A i \in 1 .. n : longer[i] = s[i]
<1>1. n \in Nat
  BY LenProperties
<1>2. /\ longer \in Seq(S) /\ Len(longer) = n + 1
      /\ longer[n + 1] = e /\ \A i \in 1 .. n : longer[i] = s[i]
  BY AppendProperties
<1> QED
  BY <1>1, <1>2

LEMMA RecallSame ==
    ASSUME NEW n \in Nat, NEW s, NEW longer, \A i \in 1 .. n : longer[i] = s[i]
    PROVE  \A k \in 1 .. n : Recalled(longer, k) = Recalled(s, k)
<1> TAKE k \in 1 .. n
<1>1. \A i \in 1 .. k : i \in 1 .. n
  BY ONLY n \in Nat, k \in 1 .. n
<1>2. \A i \in 1 .. k : longer[i] = s[i]
  BY <1>1
<1> QED
  BY <1>2 DEF Recalled

LEMMA RecallAll ==
    ASSUME NEW S, NEW s \in Seq(S), NEW k, k = Len(s)
    PROVE  Recalled(s, k) = s
<1>1. s \in [1 .. k -> S]
  BY LenProperties
<1> QED
  BY <1>1 DEF Recalled

\* A whole frame is the image the scan sees.
LEMMA FrameIsSeen ==
    ASSUME WholeFrames, input \in Images, NEW values \in [Wired -> Values]
    PROVE  Frame(values) \in Images
<1>1. Wired \subseteq Inputs /\ (Unwired = {} => Wired = Inputs)
  BY DEF Inputs
<1>2. (IF WithPlc THEN Inputs ELSE DOMAIN values) = Inputs
  BY <1>1 DEF WholeFrames
<1>3. Frame(values) = [i \in Inputs |-> IF i \in Wired THEN values[i] ELSE input[i]]
  BY <1>2 DEF Frame
<1> QED
  BY <1>3 DEF Images

LEMMA AppliedIsImage ==
    ASSUME NEW tags \in Images, NEW R \in SUBSET Inputs, NEW values \in [R -> Values]
    PROVE  /\ Applied(tags, values) \in Images
           /\ R = Inputs => Applied(tags, values) = values
BY DEF Applied, Images

LEMMA RecordedInit == Init => RecordedInv
<1> SUFFICES ASSUME Init PROVE RecordedInv
  OBVIOUS
<1>1. /\ input = AllInitial /\ memory = <<>> /\ recorded.inputs = <<>>
      /\ recorded.outputs = <<>> /\ clean = 0
  BY DEF Init
<1>2. AllInitial \in Images
  BY RecordingAssumption DEF AllInitial, Images
<1>3. /\ memory \in Seq(Images \cup {RestartMark}) /\ recorded.inputs \in Seq(Images)
      /\ recorded.outputs \in Seq(Seq(Images \cup {RestartMark}))
      /\ Len(memory) = 0 /\ Len(recorded.inputs) = 0 /\ Len(recorded.outputs) = 0
  BY <1>1, EmptySeq
<1> QED
  BY <1>1, <1>2, <1>3 DEF RecordedInv

\* A scan that is stored with its frame.
LEMMA RecordedTick ==
    ASSUME RecordedInv, WholeFrames, Tick
    PROVE  RecordedInv'
<1> PICK frames : frames = recorded.inputs
  OBVIOUS
<1> PICK outputs : outputs = recorded.outputs
  OBVIOUS
<1> PICK past : past = memory
  OBVIOUS
<1> PICK c : c = clean
  OBVIOUS
<1> PICK Past : Past = Images \cup {RestartMark}
  OBVIOUS
<1> PICK n : n = Len(frames)
  OBVIOUS
<1> PICK l : l = Len(outputs)
  OBVIOUS
<1>1. PICK values \in [Wired -> Values] :
         ScanAndWrite(Applied(input, Frame(values)), Append(recorded.inputs, Frame(values)))
  BY DEF Tick
<1> PICK frame : frame = Frame(values)
  OBVIOUS
<1>2. /\ input \in Images /\ past \in Seq(Past) /\ frames \in Seq(Images)
      /\ outputs \in Seq(Seq(Past)) /\ c \in 0 .. n /\ c <= l
      /\ \A k \in 1 .. c : outputs[k] = Recalled(frames, k)
      /\ ~incident => /\ Len(past) = c /\ n = c /\ l = c
                      /\ \A k \in 1 .. c : past[k] = frames[k]
  BY DEF RecordedInv
<1>3. frame \in Images /\ frame \in Past
  BY <1>2, FrameIsSeen
<1>4. Applied(input, frame) = frame
  <2>1. frame \in [Inputs -> Values] /\ Inputs \in SUBSET Inputs
    BY <1>3 DEF Images
  <2> QED
    BY <1>2, <2>1, AppliedIsImage
<1> PICK longer : longer = Append(frames, frame)
  OBVIOUS
<1> PICK more : more = Append(past, frame)
  OBVIOUS
<1> PICK written : written = Append(outputs, more)
  OBVIOUS
<1>5. /\ input' = frame /\ memory' = more
      /\ recorded'.inputs = longer /\ recorded'.outputs = written
  BY <1>1, <1>4 DEF ScanAndWrite
<1>6. /\ n \in Nat /\ longer \in Seq(Images) /\ Len(longer) = n + 1
      /\ longer[n + 1] = frame /\ \A i \in 1 .. n : longer[i] = frames[i]
      /\ \A k \in 1 .. n : Recalled(longer, k) = Recalled(frames, k)
      /\ Recalled(longer, n + 1) = longer
  <2>1. /\ n \in Nat /\ longer \in Seq(Images) /\ Len(longer) = n + 1
        /\ longer[n + 1] = frame /\ \A i \in 1 .. n : longer[i] = frames[i]
    <3>1. frames \in Seq(Images) /\ frame \in Images
      BY <1>2, <1>3
    <3> QED
      BY ONLY <3>1, RecallLonger, n = Len(frames), longer = Append(frames, frame)
  <2>2. \A k \in 1 .. n : Recalled(longer, k) = Recalled(frames, k)
    <3>1. n \in Nat /\ \A i \in 1 .. n : longer[i] = frames[i]
      BY <2>1
    <3> QED
      BY ONLY <3>1, RecallSame
  <2>3. Recalled(longer, n + 1) = longer
    BY <2>1, RecallAll
  <2> QED
    BY <2>1, <2>2, <2>3
<1> PICK q : q = Len(past)
  OBVIOUS
<1>7. /\ q \in Nat /\ more \in Seq(Past) /\ Len(more) = q + 1
      /\ more[q + 1] = frame /\ \A i \in 1 .. q : more[i] = past[i]
  BY ONLY <1>2, <1>3, RecallLonger, q = Len(past), more = Append(past, frame)
<1>8. /\ l \in Nat /\ written \in Seq(Seq(Past)) /\ Len(written) = l + 1
      /\ written[l + 1] = more /\ \A i \in 1 .. l : written[i] = outputs[i]
  BY ONLY <1>2, <1>7, RecallLonger, l = Len(outputs), written = Append(outputs, more)
<1>9. CASE incident
  <2>1. clean' = c /\ incident'
    BY <1>9 DEF Tick
  <2>2. c \in 0 .. n + 1 /\ c <= l + 1
    BY ONLY <1>2, <1>6, <1>8
  <2>3. \A k \in 1 .. c : k \in 1 .. n /\ k \in 1 .. l
    BY ONLY <1>2, <1>6, <1>8
  <2>4. \A k \in 1 .. c : written[k] = Recalled(longer, k)
    BY <1>2, <1>6, <1>8, <2>3
  <2> QED
    BY <1>3, <1>5, <1>6, <1>7, <1>8, <2>1, <2>2, <2>4 DEF RecordedInv
<1>10. CASE ~incident
  <2>1. clean' = c + 1 /\ n = c /\ l = c /\ q = c /\ c \in Nat /\ ~incident'
    BY <1>2, <1>6, <1>10 DEF Tick
  <2>2. c + 1 \in 0 .. n + 1 /\ c + 1 <= l + 1 /\ \A k \in 1 .. c + 1 : k \in 1 .. c \/ k = c + 1
    BY ONLY <2>1
  <2>3. \A k \in 1 .. c + 1 : more[k] = longer[k]
    <3> TAKE k \in 1 .. c + 1
    <3>1. CASE k \in 1 .. c
      BY <1>2, <1>6, <1>7, <1>10, <2>1, <3>1
    <3>2. CASE k = c + 1
      BY <1>6, <1>7, <2>1, <3>2
    <3> QED
      BY <2>2, <3>1, <3>2
  <2>4. more = longer
    <3>1. more \in [1 .. c + 1 -> Past] /\ longer \in [1 .. c + 1 -> Images]
      BY <1>6, <1>7, <2>1, LenProperties
    <3>2. /\ more = [k \in 1 .. c + 1 |-> more[k]]
          /\ longer = [k \in 1 .. c + 1 |-> longer[k]]
      BY <3>1
    <3>3. [k \in 1 .. c + 1 |-> more[k]] = [k \in 1 .. c + 1 |-> longer[k]]
      BY <2>3
    <3> QED
      BY <3>2, <3>3
  <2>5. \A k \in 1 .. c + 1 : written[k] = Recalled(longer, k)
    <3> TAKE k \in 1 .. c + 1
    <3>1. CASE k \in 1 .. c
      BY <1>2, <1>6, <1>8, <2>1, <3>1
    <3>2. CASE k = c + 1
      BY <1>6, <1>8, <2>1, <2>4, <3>2
    <3> QED
      BY <2>2, <3>1, <3>2
  <2>6. Len(more) = c + 1 /\ Len(longer) = c + 1 /\ Len(written) = c + 1
    BY <1>6, <1>7, <1>8, <2>1
  <2> QED
    BY <1>3, <1>5, <1>6, <1>7, <1>8, <2>1, <2>2, <2>3, <2>5, <2>6 DEF RecordedInv
<1> QED
  BY <1>9, <1>10

\* A scan stored without a frame ends the part that can be replayed.
LEMMA RecordedReadFails ==
    ASSUME RecordedInv, TickReadFails
    PROVE  RecordedInv'
<1> PICK frames : frames = recorded.inputs
  OBVIOUS
<1> PICK outputs : outputs = recorded.outputs
  OBVIOUS
<1> PICK past : past = memory
  OBVIOUS
<1> PICK c : c = clean
  OBVIOUS
<1> PICK Past : Past = Images \cup {RestartMark}
  OBVIOUS
<1> PICK l : l = Len(outputs)
  OBVIOUS
<1> PICK n : n = Len(frames)
  OBVIOUS
<1>1. PICK recovered \in SUBSET Wired : \E values \in [recovered -> Values] :
         ScanAndWrite(Applied(input, values), recorded.inputs)
  BY DEF TickReadFails
<1>2. PICK values \in [recovered -> Values] :
         ScanAndWrite(Applied(input, values), recorded.inputs)
  BY <1>1
<1> PICK image : image = Applied(input, values)
  OBVIOUS
<1>3. /\ input \in Images /\ past \in Seq(Past) /\ frames \in Seq(Images)
      /\ outputs \in Seq(Seq(Past)) /\ c \in 0 .. n /\ c <= l
      /\ \A k \in 1 .. c : outputs[k] = Recalled(frames, k)
  BY DEF RecordedInv
<1>4. image \in Images /\ image \in Past
  <2>1. recovered \in SUBSET Inputs
    BY DEF Inputs
  <2> QED
    BY <1>3, <2>1, AppliedIsImage
<1> PICK more : more = Append(past, image)
  OBVIOUS
<1> PICK written : written = Append(outputs, more)
  OBVIOUS
<1>5. /\ input' = image /\ memory' = more
      /\ recorded'.inputs = frames /\ recorded'.outputs = written
      /\ clean' = c /\ incident'
  BY <1>2 DEF ScanAndWrite, TickReadFails
<1>6. more \in Seq(Past)
  BY <1>3, <1>4, AppendProperties
<1>7. /\ l \in Nat /\ written \in Seq(Seq(Past)) /\ Len(written) = l + 1
      /\ \A i \in 1 .. l : written[i] = outputs[i]
  BY ONLY <1>3, <1>6, RecallLonger, l = Len(outputs), written = Append(outputs, more)
<1>8. n \in Nat
  BY <1>3, LenProperties
<1>9. c <= l + 1 /\ \A k \in 1 .. c : k \in 1 .. l
  BY ONLY <1>3, <1>7, <1>8
<1>10. \A k \in 1 .. c : written[k] = Recalled(frames, k)
  BY <1>3, <1>7, <1>9
<1> QED
  BY <1>3, <1>4, <1>5, <1>6, <1>7, <1>9, <1>10 DEF RecordedInv

LEMMA RecordedStep ==
    ASSUME RecordedInv, WholeFrames, [Next]_vars
    PROVE  RecordedInv'
<1>1. CASE Tick
  BY <1>1, RecordedTick
<1>2. CASE TickReadFails
  BY <1>2, RecordedReadFails
<1>3. CASE DriveInput
  <2>1. input' \in Images
    BY <1>3 DEF DriveInput, RecordedInv, Images, Inputs
  <2> QED
    BY <1>3, <2>1 DEF DriveInput, RecordedInv
<1>4. CASE ColdStart
  <2>1. input' \in Images
    BY <1>4, RecordingAssumption DEF ColdStart, AllInitial, Images
  <2>2. memory' \in Seq(Images \cup {RestartMark})
    <3> PICK Past : Past = Images \cup {RestartMark}
      OBVIOUS
    <3>1. memory \in Seq(Past) /\ RestartMark \in Past /\ memory' = Append(memory, RestartMark)
      BY <1>4 DEF ColdStart, RecordedInv
    <3>2. Append(memory, RestartMark) \in Seq(Past)
      BY ONLY <3>1, AppendProperties
    <3> QED
      BY <3>1, <3>2
  <2> QED
    BY <1>4, <2>1, <2>2 DEF ColdStart, RecordedInv
<1>5. CASE BuildReplay \/ ReplayFrame \/ ReplayLastFrame \/ ReplayExhausted \/ UNCHANGED vars
  <2>1. UNCHANGED recordVars
    BY <1>5 DEF BuildReplay, ReplayFrame, ReplayLastFrame, ReplayExhausted,
               ReplayScan, vars
  <2> QED
    BY <2>1 DEF recordVars, RecordedInv
<1> QED
  BY <1>1, <1>2, <1>3, <1>4, <1>5 DEF Next

LEMMA ReplayedInit == Init => ReplayedInv
<1> SUFFICES ASSUME Init PROVE ReplayedInv
  OBVIOUS
<1>1. /\ replayMemory = <<>> /\ replayed = <<>> /\ recorded.inputs = <<>>
      /\ index = 0 /\ readFailures = 0 /\ replayInput = AllInitial
  BY DEF Init
<1>2. AllInitial \in Images
  BY RecordingAssumption DEF AllInitial, Images
<1>3. /\ replayMemory \in Seq(Images) /\ replayed \in Seq(Seq(Images))
      /\ Len(replayMemory) = 0 /\ Len(replayed) = 0 /\ Len(recorded.inputs) = 0
  BY <1>1, EmptySeq
<1> QED
  BY <1>1, <1>2, <1>3 DEF ReplayedInv

\* The replay has not begun while anything is recorded.
LEMMA ReplayedWhileRecording ==
    ASSUME RecordedInv, RecordedInv', ReplayedInv, mode = "record", UNCHANGED replayVars
    PROVE  ReplayedInv'
<1> PICK n : n = Len(recorded'.inputs)
  OBVIOUS
<1>1. /\ replayMemory \in Seq(Images) /\ Len(replayMemory) = 0
      /\ replayed \in Seq(Seq(Images)) /\ Len(replayed) = 0 /\ replayInput \in Images
  BY DEF ReplayedInv
<1>2. index = 0 /\ readFailures = 0
  <2> PICK p : p = Len(recorded.inputs)
    OBVIOUS
  <2>1. index = (IF 0 < p THEN 0 ELSE p) /\ readFailures = IF 0 > p /\ (~holdLast \/ p = 0) THEN 0 - p ELSE 0
    BY <1>1 DEF ReplayedInv
  <2>2. p \in Nat
    BY LenProperties DEF RecordedInv
  <2> QED
    BY <2>1, <2>2
<1>3. n \in Nat
  BY LenProperties DEF RecordedInv
<1> QED
  BY <1>1, <1>2, <1>3 DEF ReplayedInv, replayVars

\* A replayed scan: what the replaying program saw and what it sees now, of the
\* frame at hand, the last one, or nothing.
LEMMA ReplayedScan ==
    ASSUME RecordedInv, ReplayedInv, ReplayFrame \/ ReplayLastFrame \/ ReplayExhausted
    PROVE  ReplayedInv'
<1> PICK frames : frames = recorded.inputs
  OBVIOUS
<1> PICK past : past = replayMemory
  OBVIOUS
<1> PICK outputs : outputs = replayed
  OBVIOUS
<1> PICK image : image = replayInput'
  OBVIOUS
<1> PICK n : n = Len(frames)
  OBVIOUS
<1> PICK m : m = Len(past)
  OBVIOUS
<1> PICK more : more = Append(past, image)
  OBVIOUS
<1> PICK written : written = Append(outputs, more)
  OBVIOUS
<1>1. /\ n \in Nat /\ frames \in Seq(Images) /\ \A k \in 1 .. n : frames[k] \in Images
  BY LenProperties, ElementOfSeq DEF RecordedInv
<1>2. /\ past \in Seq(Images) /\ outputs \in Seq(Seq(Images)) /\ Len(outputs) = m
      /\ index = IF m < n THEN m ELSE n
      /\ m > 0 => replayInput = past[m]
      /\ \A k \in 1 .. m : k <= n => past[k] = frames[k]
      /\ \A k \in 1 .. m : n > 0 /\ k > n => past[k] = frames[n]
      /\ \A k \in 1 .. m : outputs[k] = Recalled(past, k)
      /\ readFailures = IF m > n /\ (~holdLast \/ n = 0) THEN m - n ELSE 0
      /\ replayInput \in Images
  BY DEF ReplayedInv
<1>3. m \in Nat
  BY <1>2, LenProperties
<1>4. /\ replayMemory' = more /\ replayed' = written /\ recorded' = recorded
      /\ mode' = mode /\ mode = "replay" /\ holdLast' = holdLast
  BY DEF ReplayFrame, ReplayLastFrame, ReplayExhausted, ReplayScan, CanReplay, recordVars
<1>5. \A f \in Images : Applied(replayInput, f) = f
  <2> TAKE f \in Images
  <2>1. f \in [Inputs -> Values] /\ Inputs \in SUBSET Inputs
    BY DEF Images
  <2> QED
    BY <1>2, <2>1, AppliedIsImage
<1>6. \/ /\ m < n /\ index' = m + 1 /\ readFailures' = 0 /\ image = frames[m + 1]
      \/ /\ m >= n /\ n > 0 /\ holdLast /\ index' = n /\ readFailures' = 0
         /\ image = frames[n]
      \/ /\ m >= n /\ (~holdLast \/ n = 0) /\ index' = n
         /\ readFailures' = readFailures + 1 /\ image = replayInput
  <2>1. CASE ReplayFrame
    <3>1. /\ ~(index >= n) /\ index' = index + 1 /\ readFailures' = 0
          /\ image = Applied(replayInput, frames[index + 1])
      BY <2>1 DEF ReplayFrame, Exhausted, ReplayScan
    <3>2. m < n /\ index = m
      BY <1>1, <1>2, <1>3, <3>1
    <3>3. m + 1 \in 1 .. n
      BY ONLY <1>1, <1>3, <3>2
    <3> QED
      BY <1>1, <1>5, <3>1, <3>2, <3>3
  <2>2. CASE ReplayLastFrame
    <3>1. /\ index >= n /\ holdLast /\ frames # <<>> /\ index' = index /\ readFailures' = 0
          /\ image = Applied(replayInput, frames[n])
      BY <2>2 DEF ReplayLastFrame, Exhausted, ReplayScan, Last
    <3>2. m >= n /\ index = n
      BY <1>1, <1>2, <1>3, <3>1
    <3>3. n > 0 /\ n \in 1 .. n
      <4>1. n # 0
        BY <1>1, <3>1, EmptySeq
      <4> QED
        BY ONLY <1>1, <4>1
    <3> QED
      BY <1>1, <1>5, <3>1, <3>2, <3>3
  <2>3. CASE ReplayExhausted
    <3>1. /\ index >= n /\ (~holdLast \/ frames = <<>>) /\ index' = index
          /\ readFailures' = readFailures + 1 /\ image = replayInput
      BY <2>3 DEF ReplayExhausted, Exhausted, ReplayScan
    <3>2. m >= n /\ index = n
      BY <1>1, <1>2, <1>3, <3>1
    <3>3. frames = <<>> => n = 0
      BY EmptySeq
    <3> QED
      BY <3>1, <3>2, <3>3
  <2> QED
    BY <2>1, <2>2, <2>3
<1>7. image \in Images
  <2>1. m < n => m + 1 \in 1 .. n
    BY ONLY <1>1, <1>3
  <2>2. n > 0 => n \in 1 .. n
    BY ONLY <1>1
  <2> QED
    BY <1>1, <1>2, <1>6, <2>1, <2>2
<1>8. /\ more \in Seq(Images) /\ Len(more) = m + 1 /\ more[m + 1] = image
      /\ \A i \in 1 .. m : more[i] = past[i]
      /\ \A k \in 1 .. m : Recalled(more, k) = Recalled(past, k)
      /\ Recalled(more, m + 1) = more
  <2>1. /\ more \in Seq(Images) /\ Len(more) = m + 1 /\ more[m + 1] = image
        /\ \A i \in 1 .. m : more[i] = past[i]
    <3>1. past \in Seq(Images)
      BY <1>2
    <3> QED
      BY ONLY <3>1, <1>7, RecallLonger, m = Len(past), more = Append(past, image)
  <2>2. \A k \in 1 .. m : Recalled(more, k) = Recalled(past, k)
    <3>1. m \in Nat /\ \A i \in 1 .. m : more[i] = past[i]
      BY <1>3, <2>1
    <3> QED
      BY ONLY <3>1, RecallSame
  <2>3. Recalled(more, m + 1) = more
    BY <2>1, RecallAll
  <2> QED
    BY <2>1, <2>2, <2>3
<1>9. /\ written \in Seq(Seq(Images)) /\ Len(written) = m + 1
      /\ written[m + 1] = more /\ \A i \in 1 .. m : written[i] = outputs[i]
  <2> PICK l : l = Len(outputs)
    OBVIOUS
  <2>1. outputs \in Seq(Seq(Images)) /\ more \in Seq(Images) /\ l = m
    BY <1>2, <1>8
  <2>2. /\ written \in Seq(Seq(Images)) /\ Len(written) = l + 1
        /\ written[l + 1] = more /\ \A i \in 1 .. l : written[i] = outputs[i]
    BY ONLY <2>1, RecallLonger, l = Len(outputs), written = Append(outputs, more)
  <2> QED
    BY <2>1, <2>2
<1>10. \A k \in 1 .. m + 1 : k \in 1 .. m \/ k = m + 1
  BY ONLY <1>3
<1>11. index' = IF m + 1 < n THEN m + 1 ELSE n
  <2> PICK i : i = index'
    OBVIOUS
  <2>1. (m < n /\ i = m + 1) \/ (m >= n /\ i = n)
    BY <1>6
  <2>2. i = IF m + 1 < n THEN m + 1 ELSE n
    BY ONLY <1>1, <1>3, <2>1
  <2> QED
    BY <2>2
<1>12. \A k \in 1 .. m + 1 : k <= n => more[k] = frames[k]
  <2> SUFFICES ASSUME NEW k \in 1 .. m + 1, k <= n PROVE more[k] = frames[k]
    OBVIOUS
  <2>1. CASE k \in 1 .. m
    BY <1>2, <1>8, <2>1
  <2>2. CASE k = m + 1
    <3>1. m < n
      BY ONLY <1>1, <1>3, <2>2, k <= n
    <3>2. ~(m >= n)
      BY ONLY <1>1, <1>3, <3>1
    <3> QED
      BY <1>6, <1>8, <2>2, <3>2
  <2> QED
    BY <1>10, <2>1, <2>2
<1>13. \A k \in 1 .. m + 1 : n > 0 /\ k > n => more[k] = frames[n]
  <2> SUFFICES ASSUME NEW k \in 1 .. m + 1, n > 0, k > n PROVE more[k] = frames[n]
    OBVIOUS
  <2>1. CASE k \in 1 .. m
    BY <1>2, <1>8, <2>1
  <2>2. CASE k = m + 1
    <3>1. ~(m < n) /\ n # 0
      BY ONLY <1>1, <1>3, <2>2, k > n, n > 0
    <3>2. more[k] = image
      BY <1>8, <2>2
    <3>3. CASE image = frames[n]
      BY <3>2, <3>3
    <3>4. CASE image = replayInput
      <4>1. m > 0 /\ m \in 1 .. m /\ (m <= n => m = n)
        BY ONLY <1>1, <1>3, <3>1, n > 0
      <4>2. image = past[m]
        BY <1>2, <3>4, <4>1
      <4>3. past[m] = frames[n]
        <5>1. m <= n \/ m > n
          BY ONLY <1>1, <1>3
        <5> QED
          BY <1>2, <4>1, <5>1
      <4> QED
        BY <3>2, <4>2, <4>3
    <3> QED
      BY <1>6, <3>1, <3>3, <3>4
  <2> QED
    BY <1>10, <2>1, <2>2
<1>14. \A k \in 1 .. m + 1 : written[k] = Recalled(more, k)
  <2> TAKE k \in 1 .. m + 1
  <2>1. CASE k \in 1 .. m
    BY <1>2, <1>8, <1>9, <2>1
  <2>2. CASE k = m + 1
    BY <1>8, <1>9, <2>2
  <2> QED
    BY <1>10, <2>1, <2>2
<1>15. readFailures' = IF m + 1 > n /\ (~holdLast \/ n = 0) THEN m + 1 - n ELSE 0
  <2> PICK f : f = readFailures
    OBVIOUS
  <2> PICK g : g = readFailures'
    OBVIOUS
  <2>1. f = IF m > n /\ (~holdLast \/ n = 0) THEN m - n ELSE 0
    BY <1>2
  <2>2. CASE m < n /\ g = 0
    <3>1. ~(m + 1 > n)
      BY <1>1, <1>3, <2>2
    <3> QED
      BY <2>2, <3>1
  <2>3. CASE m >= n /\ n > 0 /\ holdLast /\ g = 0
    BY <1>1, <2>3
  <2>4. CASE m >= n /\ (~holdLast \/ n = 0) /\ g = f + 1
    <3>1. m >= n /\ g = f + 1 /\ f = IF m > n THEN m - n ELSE 0
      BY <2>1, <2>4
    <3>2. m + 1 > n /\ g = m + 1 - n
      BY ONLY n \in Nat, <1>3, <3>1
    <3> QED
      BY <2>4, <3>2
  <2> QED
    BY <1>6, <2>2, <2>3, <2>4
<1>16. m + 1 > 0
  BY <1>3
<1> QED
  BY <1>4, <1>7, <1>8, <1>9, <1>11, <1>12, <1>13, <1>14, <1>15, <1>16
     DEF ReplayedInv

\* A replay agrees with the recorded run on every scan both made, up to the first
\* failed read or restart, then shows its last image over and over, provided the
\* recording holds every input; whatever the program, the field and the failures.
THEOREM ReplaysAreFaithful ==
    ASSUME WholeFrames
    PROVE  Spec => []ReplayReproduces
<1> DEFINE Inv == RecordedInv /\ ReplayedInv
<1>1. Init => Inv
  BY RecordedInit, ReplayedInit
<1>2. Inv /\ [Next]_vars => Inv'
  <2> SUFFICES ASSUME Inv, [Next]_vars PROVE Inv'
    OBVIOUS
  <2>1. RecordedInv'
    BY RecordedStep
  <2>2. CASE Tick \/ TickReadFails \/ DriveInput \/ ColdStart
    <3>1. mode = "record" /\ UNCHANGED replayVars
      BY <2>2 DEF Tick, TickReadFails, DriveInput, ColdStart, CanScan, ScanAndWrite
    <3> QED
      BY <2>1, <3>1, ReplayedWhileRecording
  <2>3. CASE BuildReplay
    <3>1. mode = "record" /\ UNCHANGED replayVars
      BY <2>3 DEF BuildReplay
    <3> QED
      BY <2>1, <3>1, ReplayedWhileRecording
  <2>4. CASE ReplayFrame \/ ReplayLastFrame \/ ReplayExhausted
    BY <2>1, <2>4, ReplayedScan
  <2>5. CASE UNCHANGED vars
    BY <2>1, <2>5 DEF vars, recordVars, replayVars, ReplayedInv, Recalled
  <2> QED
    BY <2>2, <2>3, <2>4, <2>5 DEF Next
<1>3. Inv => ReplayReproduces
  <2> SUFFICES ASSUME Inv PROVE ReplayReproduces
    OBVIOUS
  <2> PICK n : n = Len(recorded.inputs)
    OBVIOUS
  <2> PICK m : m = Len(replayMemory)
    OBVIOUS
  <2>1. n \in Nat /\ m \in Nat /\ DOMAIN replayMemory = 1 .. m
    BY LenProperties DEF RecordedInv, ReplayedInv
  <2>2. ASSUME NEW k \in DiffOutputs(recorded.outputs, replayed),
               ~(k > clean), ~(k > Len(replayed))
        PROVE  FALSE
    <3> PICK c : c = clean
      OBVIOUS
    <3> PICK l : l = Len(recorded.outputs)
      OBVIOUS
    <3>1. /\ l \in Nat /\ Len(replayed) = m /\ c \in 0 .. n /\ c <= l
          /\ DOMAIN recorded.outputs = 1 .. l /\ DOMAIN replayed = 1 .. m
      BY LenProperties DEF RecordedInv, ReplayedInv
    <3>2. k \in 1 .. l \/ k \in 1 .. m
      BY <3>1 DEF DiffOutputs
    <3>3. k \in 1 .. l /\ k \in 1 .. m /\ k \in 1 .. c
      <4>1. ~(k > c) /\ ~(k > m)
        BY <2>2, <3>1
      <4> QED
        BY ONLY <2>1, <3>1, <3>2, <4>1
    <3>4. recorded.outputs[k] # replayed[k]
      BY <3>1, <3>3 DEF DiffOutputs, FrameOf
    <3>5. /\ recorded.outputs[k] = Recalled(recorded.inputs, k)
          /\ replayed[k] = Recalled(replayMemory, k)
      BY <3>3 DEF RecordedInv, ReplayedInv
    <3>6. \A i \in 1 .. k : i \in 1 .. m /\ i <= n
      BY ONLY <2>1, <3>1, <3>3
    <3>7. \A i \in 1 .. k : replayMemory[i] = recorded.inputs[i]
      BY <3>6 DEF ReplayedInv
    <3>8. Recalled(recorded.inputs, k) = Recalled(replayMemory, k)
      BY <3>7 DEF Recalled
    <3> QED
      BY <3>4, <3>5, <3>8
  <2>3. ASSUME n > 0, NEW k \in DOMAIN replayMemory, k > n
        PROVE  replayMemory[k] = replayMemory[n]
    <3>1. k \in 1 .. m /\ n \in 1 .. m /\ n <= n
      BY ONLY <2>1, <2>3
    <3>2. replayMemory[k] = recorded.inputs[n] /\ replayMemory[n] = recorded.inputs[n]
      BY <2>3, <3>1 DEF ReplayedInv
    <3> QED
      BY <3>2
  <2>4. readFailures =
           IF Len(replayed) > n /\ (~holdLast \/ n = 0) THEN Len(replayed) - n ELSE 0
    BY DEF ReplayedInv
  <2> QED
    BY <2>2, <2>3, <2>4 DEF ReplayReproduces
<1> HIDE DEF Inv
<1> QED
  BY <1>1, <1>2, <1>3, PTL DEF Spec
=============================================================================
