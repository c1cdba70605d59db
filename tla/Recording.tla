----------------------------- MODULE Recording ------------------------------
(***************************************************************************)
(* Recorded-I/O replay (digitwin/replay.py).  A RecordingTransport around  *)
(* the live transport stores what crosses the I/O boundary of a run; a     *)
(* ReplayTransport then feeds the stored inputs to a PLC built the same    *)
(* way, with no plant, and the outputs of the two are compared.            *)
(*                                                                         *)
(* The program is the most demanding deterministic one: its outputs tell   *)
(* apart any two pasts, so they are represented by its memory, the         *)
(* sequence of everything it has seen.  Any program's outputs are a        *)
(* function of that, and two runs agree for every program exactly when     *)
(* they agree for this one.                                                *)
(***************************************************************************)
EXTENDS Naturals, Sequences, SequencesExt

CONSTANTS
    Wired,          \* the inputs the recorded transport reads
    Unwired,        \* the inputs driven by hand between ticks
    Values,
    Initial,        \* the inputs' initial value
    WithPlc,        \* whether RecordingTransport was given the plc
    Incidents,      \* what may go wrong: "read failure", "restart"
    MaxScans        \* bound on the scans of either run

Inputs == Wired \cup Unwired

ASSUME RecordingAssumption ==
    /\ Wired \cap Unwired = {}
    /\ Initial \in Values
    /\ WithPlc \in BOOLEAN
    /\ Incidents \subseteq {"read failure", "restart"}
    /\ MaxScans \in Nat

Images == [Inputs -> Values]
AllInitial == [i \in Inputs |-> Initial]

\* What a program's memory holds of a restart.
RestartMark == <<>>

VARIABLES
    mode,           \* "record" or "replay"
    input,          \* the input tags of the recorded PLC
    memory,         \* everything its program has seen
    recorded,       \* the IORecording: inputs and outputs, one frame each
    incident,       \* history: whether an incident has happened
    clean           \* history: the scans recorded before the first one

VARIABLES
    holdLast,       \* ReplayTransport.hold_last
    index,          \* ReplayTransport.index
    replayInput,    \* the input tags of the replaying PLC
    replayMemory,   \* everything its program has seen
    replayed,       \* ReplayTransport.outputs
    readFailures    \* the replaying executive's consecutive_read_failures

recordVars == <<input, memory, recorded, incident, clean>>
replayVars == <<holdLast, index, replayInput, replayMemory, replayed,
                readFailures>>
vars == <<mode, recordVars, replayVars>>

TypeOK ==
    /\ mode \in {"record", "replay"}
    /\ input \in Images
    /\ memory \in Seq(Images \cup {RestartMark})
    /\ recorded.inputs \in Seq(UNION {[S -> Values] : S \in SUBSET Inputs})
    /\ recorded.outputs \in Seq(Seq(Images \cup {RestartMark}))
    /\ incident \in BOOLEAN
    /\ clean \in 0..MaxScans
    /\ holdLast \in BOOLEAN
    /\ index \in 0..Len(recorded.inputs)
    /\ replayInput \in Images
    /\ replayMemory \in Seq(Images)
    /\ replayed \in Seq(Seq(Images))
    /\ readFailures \in Nat

Init ==
    /\ mode = "record"
    /\ input = AllInitial
    /\ memory = <<>>
    /\ recorded = [inputs |-> <<>>, outputs |-> <<>>]
    /\ incident = FALSE
    /\ clean = 0
    /\ holdLast \in BOOLEAN
    /\ index = 0
    /\ replayInput = AllInitial
    /\ replayMemory = <<>>
    /\ replayed = <<>>
    /\ readFailures = 0

-----------------------------------------------------------------------------
(***************************************************************************)
(* The recorded run                                                        *)
(***************************************************************************)
\* The executive applies the values a read hands it to the input tags.
Applied(tags, values) ==
    [i \in Inputs |-> IF i \in DOMAIN values THEN values[i] ELSE tags[i]]

\* Mutation: the hand-driven inputs are not recorded.
FrameWithoutPlc(values) == values

\* The frame a successful read_inputs stores and hands on: the transport's
\* values over, when the plc is known, those its inputs hold.
Frame(values) ==
    [i \in IF WithPlc THEN Inputs ELSE DOMAIN values |->
        IF i \in DOMAIN values THEN values[i] ELSE input[i]]

CanScan == mode = "record" /\ Len(recorded.outputs) < MaxScans

\* The scan, and write_outputs, which stores the outputs before it hands them
\* to the live transport: whether that one raises makes no difference.
ScanAndWrite(image, frames) ==
    /\ input' = image
    /\ memory' = Append(memory, image)
    /\ recorded' = [inputs |-> frames,
                    outputs |-> Append(recorded.outputs, memory')]
    /\ UNCHANGED <<mode, replayVars>>

Tick ==
    /\ CanScan
    /\ \E values \in [Wired -> Values] :
           ScanAndWrite(Applied(input, Frame(values)),
                        Append(recorded.inputs, Frame(values)))
    /\ clean' = IF incident THEN clean ELSE clean + 1
    /\ UNCHANGED incident

\* The live read raises after recovering some inputs: the exception passes
\* through the recorder before it stores a frame.  The scan runs regardless.
TickReadFails ==
    /\ CanScan
    /\ "read failure" \in Incidents
    /\ \E recovered \in SUBSET Wired :
           \E values \in [recovered -> Values] :
               ScanAndWrite(Applied(input, values), recorded.inputs)
    /\ incident' = TRUE
    /\ UNCHANGED clean

\* A pushbutton or an HMI drives an input the transport does not.
DriveInput ==
    /\ mode = "record"
    /\ \E i \in Unwired, v \in Values : input' = [input EXCEPT ![i] = v]
    /\ UNCHANGED <<mode, memory, recorded, incident, clean, replayVars>>

\* A cold start, which the program notices and the recording does not.
ColdStart ==
    /\ mode = "record"
    /\ "restart" \in Incidents
    /\ memory # <<>> /\ Last(memory) # RestartMark
    /\ input' = AllInitial
    /\ memory' = Append(memory, RestartMark)
    /\ incident' = TRUE
    /\ UNCHANGED <<mode, recorded, clean, replayVars>>

-----------------------------------------------------------------------------
(***************************************************************************)
(* The replay                                                              *)
(***************************************************************************)
\* build_replay, with a new PLC.
BuildReplay ==
    /\ mode = "record"
    /\ mode' = "replay"
    /\ UNCHANGED <<recordVars, replayVars>>

Exhausted == index >= Len(recorded.inputs)

CanReplay == mode = "replay" /\ Len(replayed) < MaxScans

ReplayScan(image) ==
    /\ replayInput' = image
    /\ replayMemory' = Append(replayMemory, image)
    /\ replayed' = Append(replayed, replayMemory')
    /\ UNCHANGED <<mode, recordVars, holdLast>>

ReplayFrame ==
    /\ CanReplay
    /\ ~Exhausted
    /\ index' = index + 1
    /\ readFailures' = 0
    /\ ReplayScan(Applied(replayInput, recorded.inputs[index']))

\* Past the end with hold_last: the last frame again.
ReplayLastFrame ==
    /\ CanReplay
    /\ Exhausted /\ holdLast /\ recorded.inputs # <<>>
    /\ readFailures' = 0
    /\ UNCHANGED index
    /\ ReplayScan(Applied(replayInput, Last(recorded.inputs)))

\* Past the end otherwise: TransportError, so the executive holds its inputs.
ReplayExhausted ==
    /\ CanReplay
    /\ Exhausted /\ (~holdLast \/ recorded.inputs = <<>>)
    /\ readFailures' = readFailures + 1
    /\ UNCHANGED index
    /\ ReplayScan(replayInput)

Next ==
    \/ Tick
    \/ TickReadFails
    \/ DriveInput
    \/ ColdStart
    \/ BuildReplay
    \/ ReplayFrame
    \/ ReplayLastFrame
    \/ ReplayExhausted

Spec == Init /\ [][Next]_vars

-----------------------------------------------------------------------------
(***************************************************************************)
(* Properties                                                              *)
(***************************************************************************)

\* diff_outputs: the scans on which two runs disagree.
FrameOf(run, n) == IF n \in DOMAIN run THEN run[n] ELSE <<>>
DiffOutputs(original, current) ==
    {n \in DOMAIN original \cup DOMAIN current :
        FrameOf(original, n) # FrameOf(current, n)}

\* A replay agrees with the recorded run on every scan both have made, up to
\* the first failed read or restart, whatever the program, the field and the
\* hands on the unwired inputs did.  Past the end of the recording the replaying
\* PLC sees its last image over and over, whether the transport repeats it or
\* gives up, and the executive reports an outage in the second case alone.
ReplayReproduces ==
    LET n == Len(recorded.inputs) IN
    /\ \A k \in DiffOutputs(recorded.outputs, replayed) :
           k > clean \/ k > Len(replayed)
    /\ n > 0 => \A k \in DOMAIN replayMemory :
                    k > n => replayMemory[k] = replayMemory[n]
    /\ readFailures =
          IF Len(replayed) > n /\ (~holdLast \/ n = 0) THEN Len(replayed) - n ELSE 0

-----------------------------------------------------------------------------
\* A recording holds every input: those of the transport are all there are, or
\* the recorder was told of the plc.
WholeFrames == Unwired = {} \/ WithPlc

\* What a program remembers of the first k images it saw, those of s.
Recalled(s, k) == [i \in 1 .. k |-> s[i]]

\* Up to the first incident the recorded program saw the frames stored.
RecordedInv ==
    /\ input \in Images
    /\ memory \in Seq(Images \cup {RestartMark})
    /\ recorded.inputs \in Seq(Images)
    /\ recorded.outputs \in Seq(Seq(Images \cup {RestartMark}))
    /\ clean \in 0 .. Len(recorded.inputs) /\ clean <= Len(recorded.outputs)
    /\ ~incident => /\ Len(memory) = clean
                    /\ Len(recorded.inputs) = clean /\ Len(recorded.outputs) = clean
                    /\ \A k \in 1 .. clean : memory[k] = recorded.inputs[k]
    /\ \A k \in 1 .. clean : recorded.outputs[k] = Recalled(recorded.inputs, k)

\* The replaying one sees them again, then the last one over and over.
ReplayedInv ==
    LET n == Len(recorded.inputs)
        m == Len(replayMemory)
    IN  /\ replayMemory \in Seq(Images)
        /\ replayed \in Seq(Seq(Images)) /\ Len(replayed) = m
        /\ mode = "record" => m = 0
        /\ index = IF m < n THEN m ELSE n
        /\ m > 0 => replayInput = replayMemory[m]
        /\ \A k \in 1 .. m : k <= n => replayMemory[k] = recorded.inputs[k]
        /\ \A k \in 1 .. m : n > 0 /\ k > n => replayMemory[k] = recorded.inputs[n]
        /\ \A k \in 1 .. m : replayed[k] = Recalled(replayMemory, k)
        /\ readFailures = IF m > n /\ (~holdLast \/ n = 0) THEN m - n ELSE 0
        /\ replayInput \in Images
=============================================================================
