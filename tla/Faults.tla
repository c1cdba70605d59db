------------------------------- MODULE Faults --------------------------------
(***************************************************************************)
(* Fault injection (digitwin/faults.py): the list of signal faults the     *)
(* executive steps between the plant and the PLC's input read, the dropout *)
(* wrapped around the transport, and what a snapshot does to the list.     *)
(*                                                                         *)
(* A signal's value counts in fractions of an engineering unit, Unit to    *)
(* the unit.  Faults are attached in the order of plan and removed from    *)
(* the end; `active` flags are assigned between ticks, as are captures and *)
(* restores.                                                               *)
(***************************************************************************)
EXTENDS Integers, Sequences, FiniteSetsExt

CONSTANTS
    Signals,        \* the bus signals the plant writes, all wired to inputs
    PlantValues,    \* what it writes
    Unit,           \* fractions per engineering unit
    Plans,          \* the lists of faults to attach: [kind, signal, amount],
                    \* amount per tick for a drift, not used by a freeze
    MaxTicks,       \* bound on the ticks run
    None            \* Python's None

Kinds == {"stuck", "offset", "drift", "frozen"}

ASSUME FaultsAssumption ==
    /\ PlantValues \subseteq Int
    /\ Unit \in Nat \ {0}
    /\ Plans \subseteq Seq([kind : Kinds, signal : Signals, amount : Int])
    /\ MaxTicks \in Nat
    /\ None \notin Int

VARIABLES
    plan,           \* the faults the owner attaches, one by one
    io,             \* the bus
    seen,           \* the PLC's input tags
    faults,         \* Executive.faults
    dropout,        \* DropoutFault.active
    ticks,          \* the ticks run, on any branch
    saved           \* the snapshot taken, or None

\* History, for the properties; only Capture reads it.
VARIABLES
    written,        \* what the plant wrote at the last tick
    activeTicks,    \* for each fault, the ticks of this branch it was active
    quiet,          \* whether no fault was switched since the last tick
    heard           \* whether the last tick read the inputs

branch == <<io, seen, faults>>
history == <<written, activeTicks, quiet, heard>>
vars == <<plan, branch, dropout, ticks, saved, history>>

\* An entry of the list: a fault object, or, not live, a plain dict with its
\* attributes in it.
NewFault ==
    [live |-> TRUE, active |-> FALSE, bias |-> 0, held |-> None, was |-> FALSE]

Init ==
    /\ plan \in Plans
    /\ io = [s \in Signals |-> 0]
    /\ seen = [s \in Signals |-> 0]
    /\ faults = <<>>
    /\ dropout = FALSE
    /\ ticks = 0
    /\ saved = None
    /\ written = io
    /\ activeTicks = [i \in DOMAIN plan |-> 0]
    /\ quiet = TRUE
    /\ heard = FALSE

-----------------------------------------------------------------------------
\* Mutation: a drift that is switched off starts over.
SteppedDriftRestarts(p, f, value) ==
    [f EXCEPT
        !.bias = IF p.kind # "drift" THEN @
                 ELSE IF f.active THEN @ + p.amount ELSE 0,
        !.held = IF p.kind = "frozen" /\ f.active /\ ~f.was THEN value ELSE @,
        !.was = (p.kind = "frozen" /\ f.active)]

\* A fault p after its step found `value` on its signal.
Stepped(p, f, value) ==
    [f EXCEPT
        !.bias = IF p.kind = "drift" /\ f.active THEN @ + p.amount ELSE @,
        !.held = IF p.kind = "frozen" /\ f.active /\ ~f.was THEN value ELSE @,
        !.was = (p.kind = "frozen" /\ f.active)]

\* What it leaves there, f being the fault after the step.
Perturbed(p, f, value) ==
    IF ~f.active THEN value
    ELSE CASE p.kind = "stuck" -> p.amount
           [] p.kind = "offset" -> value + p.amount
           [] p.kind = "drift" -> value + f.bias
           [] p.kind = "frozen" -> f.held

\* Mutation: every fault perturbs what the plant wrote.
BusUnderParallel(bus) ==
    LET under[i \in 0 .. Len(faults)] ==
            IF i = 0 THEN bus
            ELSE LET p == plan[i]
                     value == bus[p.signal]
                 IN  [under[i - 1] EXCEPT ![p.signal] =
                        Perturbed(p, Stepped(p, faults[i], value), value)]
    IN  under

\* The bus under the first i faults of the list, each stepped in turn, the
\* plant having left it as `bus`.
BusUnder(bus) ==
    LET under[i \in 0 .. Len(faults)] ==
            IF i = 0 THEN bus
            ELSE LET p == plan[i]
                     value == under[i - 1][p.signal]
                 IN  [under[i - 1] EXCEPT ![p.signal] =
                        Perturbed(p, Stepped(p, faults[i], value), value)]
    IN  under

\* InProcessTransport.read_inputs: int() of what is on the bus.
Truncated(value) ==
    IF value >= 0 THEN value \div Unit ELSE -((-value) \div Unit)

\* A dropout raises TransportError and the executive holds the last values.
TransferInputs(bus) ==
    seen' = IF dropout THEN seen ELSE [s \in Signals |-> Truncated(bus[s])]

AllLive == \A i \in DOMAIN faults : faults[i].live

\* A tick up to the end of the input read, the last of it to matter here.
Tick(w) ==
    /\ ticks < MaxTicks
    /\ AllLive
    /\ LET under == BusUnder(w)
       IN  /\ faults' = [i \in DOMAIN faults |->
                            Stepped(plan[i], faults[i],
                                    under[i - 1][plan[i].signal])]
           /\ io' = under[Len(faults)]
           /\ TransferInputs(under[Len(faults)])
    /\ ticks' = ticks + 1
    /\ written' = w
    /\ activeTicks' = [i \in DOMAIN plan |->
                          IF i \in DOMAIN faults /\ faults[i].active
                          THEN activeTicks[i] + 1 ELSE activeTicks[i]]
    /\ quiet' = TRUE
    /\ heard' = ~dropout
    /\ UNCHANGED <<dropout, saved>>

\* A dict has no step: the tick raises after the plant's turn.  A restore turns
\* the whole list into dicts, so the first entry is one and no fault steps.
TickRaises(w) ==
    /\ ~AllLive
    /\ io' = w
    /\ heard' = FALSE
    /\ UNCHANGED <<seen, faults, ticks, dropout, saved, written, activeTicks,
                   quiet>>

Attach ==
    /\ Len(faults) < Len(plan)
    /\ faults' = Append(faults, NewFault)
    /\ quiet' = FALSE
    /\ UNCHANGED <<io, seen, ticks, dropout, saved, written, activeTicks,
                   heard>>

Remove ==
    /\ faults # <<>>
    /\ faults' = SubSeq(faults, 1, Len(faults) - 1)
    /\ quiet' = FALSE
    /\ activeTicks' = [activeTicks EXCEPT ![Len(faults)] = 0]
    /\ UNCHANGED <<io, seen, ticks, dropout, saved, written, heard>>

\* sim.faults[i].active = not ...
Switch(i) ==
    /\ faults[i].live
    /\ faults' = [faults EXCEPT ![i].active = ~@]
    /\ quiet' = FALSE
    /\ UNCHANGED <<io, seen, ticks, dropout, saved, written, activeTicks, heard>>

\* sim.transport.active = not ...
SwitchDropout ==
    /\ dropout' = ~dropout
    /\ UNCHANGED <<branch, ticks, saved, history>>

\* SnapshotRecorder captures at the end of a tick, before anyone can switch a
\* fault.  One snapshot is taken; it may be restored any number of times.
Capture ==
    /\ saved = None
    /\ quiet
    /\ saved' = [branch |-> [io |-> io, seen |-> seen, faults |-> faults],
                 history |-> [written |-> written, activeTicks |-> activeTicks,
                              heard |-> heard]]
    /\ UNCHANGED <<branch, dropout, ticks, history>>

\* _restore_sequence: object by object where the list has kept its length, or
\* else the captured attributes in place of the objects.
RestoredSequence(state) ==
    IF Len(state) # Len(faults)
    THEN [i \in DOMAIN state |-> [state[i] EXCEPT !.live = FALSE]]
    ELSE [i \in DOMAIN state |-> [state[i] EXCEPT !.live = faults[i].live]]

Restore ==
    /\ saved # None
    /\ io' = saved.branch.io
    /\ seen' = saved.branch.seen
    /\ faults' = RestoredSequence(saved.branch.faults)
    /\ written' = saved.history.written
    /\ activeTicks' = saved.history.activeTicks
    /\ heard' = saved.history.heard
    /\ quiet' = TRUE
    /\ UNCHANGED <<dropout, ticks, saved>>

Next ==
    /\ \/ \E w \in [Signals -> PlantValues] : Tick(w) \/ TickRaises(w)
       \/ Attach
       \/ Remove
       \/ \E i \in DOMAIN faults : Switch(i)
       \/ SwitchDropout
       \/ Capture
       \/ Restore
    /\ UNCHANGED plan

Spec == Init /\ [][Next]_vars

-----------------------------------------------------------------------------
(***************************************************************************)
(* Properties                                                              *)
(***************************************************************************)

Entry ==
    [live : BOOLEAN, active : BOOLEAN, bias : Int, held : Int \cup {None},
     was : BOOLEAN]

\* The types of the state; a list never longer than what was attached to it.
TypeOK ==
    /\ plan \in Plans
    /\ io \in [Signals -> Int]
    /\ seen \in [Signals -> Int]
    /\ faults \in Seq(Entry)
    /\ Len(faults) <= Len(plan)
    /\ ticks \in 0 .. MaxTicks
    /\ {dropout, heard, quiet} \subseteq BOOLEAN
    /\ activeTicks \in [DOMAIN plan -> Nat]

\* The faults switched on that act on s.
On(s) == {i \in DOMAIN faults : faults[i].active /\ plan[i].signal = s}

\* Those that discard what they find on the signal.
Holding(s) == {i \in On(s) : plan[i].kind \in {"stuck", "frozen"}}

\* What a fault adds, and what it holds.
Bias(i) == IF plan[i].kind = "offset" THEN plan[i].amount ELSE faults[i].bias
Hold(i) == IF plan[i].kind = "stuck" THEN plan[i].amount ELSE faults[i].held

\* The PLC reads what the last holding fault holds, or what the plant wrote,
\* plus the biases of the faults after it in the list; a restored snapshot
\* included.
PlcSeesTheFaults ==
    heard /\ quiet /\ AllLive =>
        \A s \in Signals :
            LET last == Max(Holding(s) \cup {0})
                base == IF last = 0 THEN written[s] ELSE Hold(last)
                biases == {i \in On(s) : i > last}
            IN  seen[s] = Truncated(base + MapThenSumSet(Bias, biases))

\* A drift's bias is its rate times the ticks it was active on this branch:
\* it holds over pauses, dropouts and other faults, and rewinds with the rest.
DriftIsItsActiveTime ==
    \A i \in DOMAIN faults :
        faults[i].live /\ plan[i].kind = "drift" =>
            faults[i].bias = plan[i].amount * activeTicks[i]

-----------------------------------------------------------------------------
\* A list of faults and the ticks each has been active agree, on the branch at
\* hand and in the snapshot: the entries are fault states, a fault no longer or
\* not yet attached has no ticks, and a drift, live or captured, has drifted by
\* its rate at each of its ticks.
Fields == {"live", "active", "bias", "held", "was"}
Agree(p, list, active) ==
    /\ \E n \in 0 .. Len(p) : DOMAIN list = 1 .. n
    /\ list = [i \in DOMAIN list |-> list[i]]
    /\ active \in [DOMAIN p -> Nat]
    /\ \A i \in DOMAIN list : list[i] = [k \in Fields |-> list[i][k]]
    /\ \A i \in DOMAIN p \ DOMAIN list : active[i] = 0
    /\ \A i \in DOMAIN list :
          p[i].kind = "drift" => list[i].bias = p[i].amount * active[i]
DriftInv ==
    /\ plan \in Plans
    /\ Agree(plan, faults, activeTicks)
    /\ saved # None => Agree(plan, saved.branch.faults, saved.history.activeTicks)
=============================================================================
