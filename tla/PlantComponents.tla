-------------------------- MODULE PlantComponents ---------------------------
(***************************************************************************)
(* The plant components with a memory (digitwin/plant): a TransportDelay,  *)
(* a DiscreteSensor, a PIDLoop and a Valve, each stepped once a tick on    *)
(* any signals, against what they promise in terms of the history of those *)
(* signals.                                                                *)
(*                                                                         *)
(* Signals are small integers, time counts in ticks: the physics is left   *)
(* out, the memory is not.                                                 *)
(***************************************************************************)
EXTENDS Integers, Sequences

CONSTANTS
    MaxSignal,      \* signals are 0 .. MaxSignal
    Slots,          \* round(delay_s / dt)
    On, Off,        \* threshold, and threshold - hysteresis
    Kp, Ki, Kd,     \* the PID's gains, per tick
    OutMin, OutMax,
    DeadTime,       \* the valve's switch_delay_s, in ticks
    Reach,          \* what the valve travels in a tick
    MaxSteps        \* bound on the history

ASSUME ComponentAssumption ==
    /\ MaxSignal \in Nat /\ Slots \in Nat /\ MaxSteps \in Nat
    /\ On \in Int /\ Off \in Int /\ Off <= On
    /\ Kp \in Int /\ Ki \in Int /\ Kd \in Int
    /\ OutMin \in Int /\ OutMax \in Int
    /\ DeadTime \in Nat /\ Reach \in Nat \ {0}

VARIABLES
    buffer, delayed,        \* TransportDelay: its FIFO, its output
    switch,                 \* DiscreteSensor
    integral, previous,     \* PIDLoop: the integral, the process one tick ago
    output,
    position, target, left, \* Valve: left is the dead time still to pass
    steps                   \* the signals of every tick, oldest first

componentVars ==
    <<buffer, delayed, switch, integral, previous, output, position, target,
      left, steps>>

NoSample == -1      \* no process value seen yet

ComponentInit ==
    /\ buffer = <<>> /\ delayed = 0
    /\ switch = FALSE
    /\ integral = 0 /\ previous = NoSample /\ output = 0
    /\ position = 0 /\ target = 0 /\ left = 0
    /\ steps = <<>>

-----------------------------------------------------------------------------
\* Mutation: the FIFO is read as soon as it is full.
StepDelayEarly(sample) ==
    LET queue == Append(buffer, sample)
        ready == Len(queue) >= Slots
    IN  /\ delayed' = IF ready THEN Head(queue) ELSE 0
        /\ buffer' = IF ready THEN Tail(queue) ELSE queue

\* With no slots the sample passes straight through.
StepDelay(sample) ==
    LET queue == Append(buffer, sample)
        ready == Len(queue) > Slots
    IN  /\ delayed' = IF ready THEN Head(queue) ELSE 0
        /\ buffer' = IF ready THEN Tail(queue) ELSE queue

StepSwitch(sample) == switch' = IF switch THEN sample >= Off ELSE sample >= On

Clamp(lo, hi, x) == IF x < lo THEN lo ELSE IF x > hi THEN hi ELSE x

\* Mutation: the integral runs on while the output is clamped.
HeldNever(raw, error) == FALSE

\* The integral is held when the error is to the side the output is clamped on.
Held(raw, error) == (raw > OutMax /\ error > 0) \/ (raw < OutMin /\ error < 0)

\* The derivative is that of the process alone.
StepPID(setpoint, process) ==
    LET error == setpoint - process
        slope == IF previous = NoSample THEN 0 ELSE process - previous
        candidate == integral + Ki * error
        raw == Kp * error + candidate - Kd * slope
    IN  /\ output' = Clamp(OutMin, OutMax, raw)
        /\ integral' = IF Held(raw, error) THEN integral ELSE candidate
        /\ previous' = process

\* Mutation: the dead time is counted from the first change of a burst.
DeadTimeLeftRunsOn(command) ==
    IF command # target /\ left = 0 THEN DeadTime ELSE left

\* A change of the command starts the dead time anew.
DeadTimeLeft(command) == IF command # target THEN DeadTime ELSE left

\* No travel in a tick that spends dead time.
StepValve(command) ==
    LET wait == DeadTimeLeft(command)
    IN  /\ target' = command
        /\ left' = IF wait > 0 THEN wait - 1 ELSE 0
        /\ position' = IF wait > 0 THEN position
                       ELSE Clamp(position - Reach, position + Reach, command)

\* One tick: signal feeds all of them, and is the PID's process variable.
StepComponents(signal, setpoint) ==
    /\ Len(steps) < MaxSteps
    /\ StepDelay(signal)
    /\ StepSwitch(signal)
    /\ StepPID(setpoint, signal)
    /\ StepValve(signal)
    /\ steps' = Append(steps, signal)

\* The bound on the history is reached.
StepsEnd == Len(steps) = MaxSteps /\ UNCHANGED componentVars

ComponentNext ==
    \/ \E signal, setpoint \in 0 .. MaxSignal : StepComponents(signal, setpoint)
    \/ StepsEnd

ComponentSpec == ComponentInit /\ [][ComponentNext]_componentVars

-----------------------------------------------------------------------------
(***************************************************************************)
(* Properties                                                              *)
(***************************************************************************)

\* A delay puts out the sample of Slots ticks ago, neither one early nor one
\* late, and its initial value before there is one.
DelayIsExact ==
    steps # <<>> =>
        delayed = IF Len(steps) > Slots THEN steps[Len(steps) - Slots] ELSE 0

\* A switch is on exactly if the signal has reached the threshold and not been
\* below the hysteresis since: what it does in between depends on how the
\* signal got there.
SwitchHasHysteresis ==
    switch <=> \E i \in DOMAIN steps :
                  /\ steps[i] >= On
                  /\ \A j \in DOMAIN steps : j > i => steps[j] >= Off

\* The two components that pass a signal on do it as its history says.
SignalsKeepTheirHistory == DelayIsExact /\ SwitchHasHysteresis

\* What the derivative, and a proportional part against the integral's, can keep
\* the output off its clamp by.
Magnitude(k) == IF k < 0 THEN -k ELSE k
Slack == (Magnitude(Kd) + (IF Kp < 0 THEN -Kp ELSE 0)) * MaxSignal

\* The integral does not wind up: however long the error lasts it goes no further
\* from where it started than to the output's limit and that slack beyond, so
\* that the output follows when the error changes sign.  For a negative ki it
\* does: what holds the integral asks for the error's sign alone, and with
\* that gain the error drives the output the other way.
NoWindup ==
    Ki >= 0 =>
        /\ integral <= 0 \/ integral <= OutMax + Slack
        /\ integral >= 0 \/ integral >= OutMin - Slack

\* The valve travels only on a command that has been steady for the dead time,
\* whatever it did before, and gets there.
SteadyIn(h, n) ==
    /\ n <= Len(h)
    /\ \A i \in DOMAIN h : i > Len(h) - n => h[i] = h[Len(h)]
Steady(n) == SteadyIn(steps, n)
ValveTravelsWhenSteady ==
    [][/\ position' # position => Steady(DeadTime + 1)'
       /\ Steady(DeadTime + MaxSignal)' => position' = target']_componentVars

-----------------------------------------------------------------------------
\* The FIFO holds the last samples, as many as fit.
DelayInv ==
    /\ buffer \in Seq(0 .. MaxSignal) /\ steps \in Seq(0 .. MaxSignal)
    /\ Len(buffer) = (IF Len(steps) < Slots THEN Len(steps) ELSE Slots)
    /\ \A k \in 1 .. Len(buffer) : buffer[k] = steps[Len(steps) - Len(buffer) + k]
    /\ DelayIsExact

\* The integral's range, and that of what it is computed from.
PIDInv ==
    /\ previous \in (0 .. MaxSignal) \cup {NoSample}
    /\ integral \in Int
    /\ NoWindup

\* The dead time still to pass is what is missing to a command that steady;
\* from there on the valve gets nearer to it by a signal level a tick.
ValveInv ==
    /\ position \in 0 .. MaxSignal /\ target \in 0 .. MaxSignal
    /\ left \in 0 .. DeadTime
    /\ steps \in Seq(0 .. MaxSignal)
    /\ steps = <<>> => position = 0 /\ target = 0 /\ left = 0
    /\ steps # <<>> => target = steps[Len(steps)]
    /\ \/ left = 0 /\ position = target
       \/ Steady(DeadTime - left)
    /\ left > 0 => ~Steady(DeadTime - left + 1)
    /\ \A k \in 0 .. MaxSignal :
          Steady(DeadTime + k) =>
              \/ position = target
              \/ position - target + k <= MaxSignal /\ target - position + k <= MaxSignal
=============================================================================
