-------------------------- MODULE InstructionBlocks --------------------------
(***************************************************************************)
(* One instruction block of each kind, called every scan with any inputs,  *)
(* against what the blocks promise in terms of the history of those        *)
(* inputs.  An owner may skip a call: a program that raises, or that calls *)
(* a block in one branch only, leaves the block as it was.                 *)
(***************************************************************************)
EXTENDS Instructions, Sequences, FiniteSets

CONSTANTS
    Preset,         \* the timers' preset, in units of time
    Dt,             \* the scan period; Preset need not be a multiple of it
    CountPreset,
    MaxCalls        \* bound on the history

ASSUME BlockAssumption ==
    /\ Preset \in Nat
    /\ Dt \in Nat \ {0}
    /\ CountPreset \in Nat
    /\ MaxCalls \in Nat

VARIABLES
    ton, tof, ctu,  \* the blocks
    ons,            \* what ONS remembers
    edge,           \* what the last call of ONS returned
    history         \* the inputs of every call, oldest first

blockVars == <<ton, tof, ctu, ons, edge, history>>

BlockInit ==
    /\ ton = IdleTimer
    /\ tof = IdleTimer
    /\ ctu = IdleCounter
    /\ ons = FALSE
    /\ edge = FALSE
    /\ history = <<>>

Call(in, reset) ==
    /\ Len(history) < MaxCalls
    /\ ton' = TON(ton, Preset, in, Dt)
    /\ tof' = TOF(tof, Preset, in, Dt)
    /\ ctu' = CTU(ctu, CountPreset, in, reset)
    /\ edge' = ONS(ons, in)
    /\ ons' = in
    /\ history' = Append(history, [in |-> in, reset |-> reset])

\* The bound on the history is reached: the owner calls the blocks no more.
CallsEnd == Len(history) = MaxCalls /\ UNCHANGED blockVars

BlockNext == (\E in, reset \in BOOLEAN : Call(in, reset)) \/ CallsEnd

BlockSpec == BlockInit /\ [][BlockNext]_blockVars

-----------------------------------------------------------------------------
(***************************************************************************)
(* Properties                                                              *)
(***************************************************************************)

\* Every block's record keeps its shape and range; a timer is never past its
\* preset.
BlockTypeOK ==
    /\ ton \in Timer(Preset)
    /\ tof \in Timer(Preset)
    /\ ctu \in [count : Nat, q : BOOLEAN, prev : BOOLEAN]
    /\ ons \in BOOLEAN

Calls == 1 .. Len(history)

\* The input was on at each of the last n calls.
HeldFor(n) ==
    /\ n <= Len(history)
    /\ \A i \in Calls : i > Len(history) - n => history[i].in

\* The output of a TON is on exactly while its input has been on for the
\* preset: for the first n calls with n * dt >= preset, and no shorter pulses
\* add up.  The output of a TOF is on exactly while its input is on or was on
\* less than the preset ago.
TimersAreDelays ==
    /\ ton.q <=> \E n \in Calls : n * Dt >= Preset /\ HeldFor(n)
    /\ tof.q <=> \E i \in Calls :
                    /\ history[i].in
                    /\ (Len(history) - i) * Dt < Preset \/ i = Len(history)

\* Input i rose.
Rise(i) == history[i].in /\ (i = 1 \/ ~history[i - 1].in)

LastReset == {i \in Calls : history[i].reset /\
                             \A j \in Calls : j > i => ~history[j].reset}
Counted == {i \in Calls : Rise(i) /\ \A r \in LastReset : i > r}

\* A counter counts each rise since the last reset once, and an input held
\* over a reset is not a rise; a one-shot is on for the call of a rise alone.
RisesAreSeenOnce ==
    /\ ctu.count = Cardinality(Counted)
    /\ edge <=> history # <<>> /\ Rise(Len(history))

\* What a timer keeps of the history.  The TON has added up the last n calls,
\* all with the input on; the TOF what passed since the last such call.
OnFor(n) == HeldFor(n) /\ (n < Len(history) => ~history[Len(history) - n].in)
LastOn(i) == /\ i > 0 => history[i].in
             /\ \A j \in Calls : j > i => ~history[j].in
TimersInv ==
    /\ {ton.q, tof.q} \subseteq BOOLEAN
    /\ \E n \in 0 .. Len(history) :
          /\ OnFor(n)
          /\ ton.elapsed = Smaller(Preset, n * Dt)
          /\ ton.q <=> n > 0 /\ n * Dt >= Preset
    /\ \E i \in 0 .. Len(history) :
          /\ LastOn(i)
          /\ tof.q <=> i > 0 /\ ((Len(history) - i) * Dt < Preset \/ i = Len(history))
          /\ tof.q => tof.elapsed = (Len(history) - i) * Dt

\* What a counter and a one-shot keep of it: the last input.
RisesInv ==
    /\ RisesAreSeenOnce
    /\ ctu.prev <=> history # <<>> /\ history[Len(history)].in
    /\ ons <=> ctu.prev
=============================================================================
