---------------------------- MODULE MotorConveyor ----------------------------
(***************************************************************************)
(* The conveyor twin of examples/motor_conveyor.toml, closed loop: the     *)
(* program (programs/motor_conveyor.py) on a PLC, the plant's Motor        *)
(* (plant/actuators.py) and the StuckFault wired to the motor's feedback   *)
(* contact, exchanged once a tick over the bus by the executive.           *)
(*                                                                         *)
(* The bus of this twin lives in the process and cannot fail, and nothing  *)
(* sees a tick half done: a tick is one action.  Between ticks an operator *)
(* works the buttons, the fault is switched and the PLC is restarted.      *)
(***************************************************************************)
EXTENDS Instructions

CONSTANTS
    ProveTime,      \* prove_time_s, in scans
    TopSpeed,       \* full speed; speeds count in steps of one ramp
    SpinUp, Coast,  \* the speed gained and lost per tick
    Threshold       \* the speed at which the run contact closes

ASSUME ConveyorAssumption ==
    /\ ProveTime \in Nat \ {0}
    /\ TopSpeed \in Nat \ {0}
    /\ SpinUp \in Nat \ {0}
    /\ Coast \in Nat \ {0}
    /\ Threshold \in 1 .. TopSpeed

VARIABLES
    speed,          \* Motor.speed
    running,        \* Motor._running
    motorCmd,       \* the bus signal the PLC's motor_run is wired to
    stuck,          \* StuckFault.active, on the contact's signal
    start, stop,    \* the buttons' tags
    feedback,       \* the running_feedback tag
    motorRun, faultLamp,    \* the output tags
    runLatch, faultLatch,   \* the internal bits
    proving         \* the program's TON

\* History, for the properties alone.
VARIABLES
    unproven,       \* scans in a row that left the motor commanded and
                    \* unproven, counted up to ProveTime
    everStuck,      \* whether the contact ever stuck
    carried         \* a cold start has left the timer expired for the next scan

plantVars == <<speed, running, motorCmd, stuck>>
tags == <<start, stop, feedback, motorRun, faultLamp, runLatch, faultLatch>>
history == <<unproven, everStuck, carried>>
motorVars == <<plantVars, tags, proving, history>>

MotorInit ==
    /\ speed = 0
    /\ running = FALSE
    /\ motorCmd = FALSE
    /\ stuck = FALSE
    /\ start = FALSE /\ stop = FALSE /\ feedback = FALSE
    /\ motorRun = FALSE /\ faultLamp = FALSE
    /\ runLatch = FALSE /\ faultLatch = FALSE
    /\ proving = IdleTimer
    /\ unproven = 0
    /\ everStuck = FALSE
    /\ carried = FALSE

-----------------------------------------------------------------------------
\* _ramp_speed
RampSpeed(s, commanded) ==
    IF commanded THEN Smaller(TopSpeed, s + SpinUp)
    ELSE s - Smaller(s, Coast)

\* _run_contact
RunContact(wasRunning, s) == s >= Threshold \/ (wasRunning /\ s > 0)

\* Motor.step
StepMotor ==
    /\ speed' = RampSpeed(speed, motorCmd)
    /\ running' = RunContact(running, speed')

\* What the StuckFault leaves of the contact is what read_inputs carries.
TransferFeedback == feedback' = (running' /\ ~stuck)

\* The latches as the program has them before it looks at the timer.
Latched == IF stop THEN FALSE ELSE start \/ runLatch
Faulted == faultLatch /\ ~stop

\* Mutation: the timer runs on after the motor has been proven.
ConveyorProgramProvesForever ==
    LET runCmd == Latched /\ ~Faulted
        timer == TON(proving, ProveTime, runCmd, 1)
    IN  /\ proving' = timer
        /\ runLatch' = (Latched /\ ~timer.q)
        /\ faultLatch' = (Faulted \/ timer.q)
        /\ motorRun' = (runCmd /\ ~timer.q)
        /\ faultLamp' = (Faulted \/ timer.q)

\* MotorConveyorProgram.__call__, and the flush of its outputs.
ConveyorProgram ==
    LET runCmd == Latched /\ ~Faulted
        timer == TON(proving, ProveTime, runCmd /\ ~feedback', 1)
    IN  /\ proving' = timer
        /\ runLatch' = (Latched /\ ~timer.q)
        /\ faultLatch' = (Faulted \/ timer.q)
        /\ motorRun' = (runCmd /\ ~timer.q)
        /\ faultLamp' = (Faulted \/ timer.q)

TransferCommand == motorCmd' = motorRun'

\* Executive.tick: plant, fault, inputs, scan, outputs.
MotorTick ==
    /\ StepMotor
    /\ TransferFeedback
    /\ ConveyorProgram
    /\ TransferCommand
    /\ unproven' = IF motorRun' /\ ~feedback'
                   THEN Smaller(unproven + 1, ProveTime) ELSE 0
    /\ carried' = FALSE
    /\ UNCHANGED <<start, stop, stuck, everStuck>>

\* Mutation: a cold start builds the program anew.
MotorColdStartNewProgram ==
    /\ start' = FALSE /\ stop' = FALSE /\ feedback' = FALSE
    /\ motorRun' = FALSE /\ faultLamp' = FALSE
    /\ runLatch' = FALSE /\ faultLatch' = FALSE
    /\ proving' = IdleTimer
    /\ UNCHANGED <<plantVars, history>>

\* PLC.cold_start, all tags non-retentive: the program object, its timer with
\* it, and the bus stay as they are.  A warm start changes nothing of this.
MotorColdStart ==
    /\ start' = FALSE /\ stop' = FALSE /\ feedback' = FALSE
    /\ motorRun' = FALSE /\ faultLamp' = FALSE
    /\ runLatch' = FALSE /\ faultLatch' = FALSE
    /\ carried' = (carried \/ proving.q)
    /\ UNCHANGED <<plantVars, proving, unproven, everStuck>>

\* The operator's hands on the buttons.
PressStartStop ==
    /\ \E b, c \in BOOLEAN : start' = b /\ stop' = c
    /\ UNCHANGED <<plantVars, feedback, motorRun, faultLamp, runLatch,
                   faultLatch, proving, history>>

\* The fault's active flag.
SetStuck ==
    /\ stuck' = ~stuck
    /\ everStuck' = TRUE
    /\ UNCHANGED <<speed, running, motorCmd, tags, proving, unproven, carried>>

MotorNext == MotorTick \/ MotorColdStart \/ PressStartStop \/ SetStuck

MotorSpec == MotorInit /\ [][MotorNext]_motorVars

-----------------------------------------------------------------------------
(***************************************************************************)
(* Properties                                                              *)
(***************************************************************************)

\* The ranges of the state, and that of the timer and the ramp in particular.
MotorTypeOK ==
    /\ speed \in 0 .. TopSpeed
    /\ proving \in Timer(ProveTime)
    /\ running \in BOOLEAN /\ motorCmd \in BOOLEAN
    /\ stuck \in BOOLEAN /\ everStuck \in BOOLEAN
    /\ start \in BOOLEAN /\ stop \in BOOLEAN /\ feedback \in BOOLEAN
    /\ motorRun \in BOOLEAN /\ faultLamp \in BOOLEAN
    /\ runLatch \in BOOLEAN /\ faultLatch \in BOOLEAN
    /\ carried \in BOOLEAN
    /\ unproven \in Nat

\* A motor that gives no feedback is not commanded for as long as the proving
\* time, whatever restarts, presses and intermittent contacts come between,
\* and is not commanded again while the fault lasts.
UnprovenIsDropped ==
    /\ unproven < ProveTime
    /\ faultLatch => ~motorRun /\ ~motorCmd

\* The fault is earned: it latches only at the scan that completes the proving
\* time of a command that was up, unproven, at every scan before; unless a cold
\* start has just left the program an expired timer.
FaultIsEarned ==
    [][~faultLatch /\ faultLatch' =>
          (unproven = ProveTime - 1 /\ ~feedback') \/ carried]_motorVars

\* The feedback of a sound motor comes in time: with no stuck contact the
\* twin never trips, from whatever speed the motor is started again.
SoundMotorNeverTrips == everStuck \/ ~faultLatch

\* A motor at rest reaches the contact's speed within the proving time.
ProvesInTime == Threshold <= SpinUp * (ProveTime - 1)

\* The timer holds what has gone unproven, or has just expired; it expires on
\* to the fault, unless a cold start takes the latch from under it.
TimerCountsUnproven ==
    /\ proving.q => proving.elapsed = ProveTime /\ unproven = 0
    /\ ~proving.q => proving.elapsed = unproven
    /\ ~faultLatch /\ ~carried => ~proving.q

ConveyorInv == MotorTypeOK /\ UnprovenIsDropped /\ TimerCountsUnproven

\* A sound motor has not tripped, and what has gone unproven was spent
\* gaining speed.
SoundInv ==
    ~everStuck =>
        /\ ~stuck /\ ~faultLatch /\ ~proving.q
        /\ unproven > 0 => motorCmd /\ speed >= SpinUp * (unproven - 1)
=============================================================================
