----------------------------- MODULE TwinProofs -----------------------------
(***************************************************************************)
(* The three program twins, for any timing, any tank and any operator.     *)
(***************************************************************************)
EXTENDS MotorConveyor, TankTwin, LabTwin, TLAPS

-----------------------------------------------------------------------------
(***************************************************************************)
(* The conveyor                                                            *)
(***************************************************************************)

\* What an enabled and a disabled TON do in one scan.
LEMMA ProvingStep ==
    ASSUME NEW t \in Timer(ProveTime), NEW enable \in BOOLEAN
    PROVE  LET after == TON(t, ProveTime, enable, 1)
           IN  /\ after \in Timer(ProveTime)
               /\ ~enable => after.elapsed = 0 /\ ~after.q
               /\ enable /\ ~t.q /\ t.elapsed < ProveTime =>
                     /\ after.elapsed = t.elapsed + 1
                     /\ after.q <=> t.elapsed + 1 = ProveTime
               /\ enable /\ t.q /\ t.elapsed = ProveTime =>
                     after.elapsed = ProveTime /\ after.q
<1>1. ProveTime \in Nat /\ ProveTime > 0
  BY ConveyorAssumption
<1>2. t.elapsed \in 0 .. ProveTime /\ t.q \in BOOLEAN
  BY DEF Timer
<1>3. CASE ~enable
  BY <1>1, <1>3 DEF TON, IdleTimer, Timer
<1>4. CASE enable
  <2> DEFINE elapsed == Smaller(ProveTime, t.elapsed + 1)
             after == [elapsed |-> elapsed, q |-> t.q \/ elapsed >= ProveTime]
  <2>1. TON(t, ProveTime, enable, 1) = after
    BY <1>4 DEF TON
  <2>2. elapsed \in 0 .. ProveTime
    BY <1>1, <1>2 DEF Smaller
  <2>3. t.elapsed < ProveTime => elapsed = t.elapsed + 1
    BY <1>1, <1>2 DEF Smaller
  <2>4. t.elapsed = ProveTime => elapsed = ProveTime
    BY <1>1, <1>2 DEF Smaller
  <2>5. after.elapsed = elapsed /\ after.q = (t.q \/ elapsed >= ProveTime)
    OBVIOUS
  <2>6. after \in Timer(ProveTime)
    BY <2>2, <1>2 DEF Timer
  <2>7. t.elapsed < ProveTime => (elapsed >= ProveTime <=> t.elapsed + 1 = ProveTime)
    BY <1>1, <1>2, <2>3
  <2> HIDE DEF elapsed, after
  <2> QED
    BY <1>4, <2>1, <2>3, <2>4, <2>5, <2>6, <2>7
<1> QED
  BY <1>3, <1>4

\* The ramp stays within the motor's range.
LEMMA RampInRange ==
    ASSUME NEW s \in 0 .. TopSpeed, NEW commanded \in BOOLEAN
    PROVE  /\ RampSpeed(s, commanded) \in 0 .. TopSpeed
           /\ commanded /\ RampSpeed(s, commanded) < Threshold =>
                 RampSpeed(s, commanded) = s + SpinUp
  BY ConveyorAssumption DEF RampSpeed, Smaller

\* A tick, and what it means for the timer and for the count of scans that
\* went unproven.
LEMMA ConveyorTick ==
    ASSUME ConveyorInv, MotorTick
    PROVE  /\ ConveyorInv'
           /\ ~faultLatch /\ faultLatch' =>
                 (unproven = ProveTime - 1 /\ ~feedback') \/ carried
<1>1. /\ speed \in 0 .. TopSpeed /\ proving \in Timer(ProveTime)
      /\ running \in BOOLEAN /\ motorCmd \in BOOLEAN /\ stuck \in BOOLEAN
      /\ start \in BOOLEAN /\ stop \in BOOLEAN
      /\ runLatch \in BOOLEAN /\ faultLatch \in BOOLEAN /\ carried \in BOOLEAN
      /\ everStuck \in BOOLEAN /\ unproven \in Nat
  BY DEF ConveyorInv, MotorTypeOK
<1>2. ProveTime \in Nat /\ ProveTime > 0
  BY ConveyorAssumption
<1>3. speed' \in 0 .. TopSpeed
  BY <1>1, RampInRange DEF MotorTick, StepMotor
<1>4. running' \in BOOLEAN
  BY DEF MotorTick, StepMotor, RunContact
<1>5. feedback' = (running' /\ ~stuck) /\ feedback' \in BOOLEAN
  BY <1>4, <1>1 DEF MotorTick, TransferFeedback
<1> DEFINE runCmd == Latched /\ ~Faulted
           timer == TON(proving, ProveTime, runCmd /\ ~feedback', 1)
<1>6. runCmd \in BOOLEAN /\ Latched \in BOOLEAN /\ Faulted \in BOOLEAN
  BY <1>1 DEF Latched, Faulted
<1>7. /\ proving' = timer
      /\ runLatch' = (Latched /\ ~timer.q)
      /\ faultLatch' = (Faulted \/ timer.q)
      /\ motorRun' = (runCmd /\ ~timer.q)
      /\ faultLamp' = (Faulted \/ timer.q)
      /\ motorCmd' = motorRun'
  BY DEF MotorTick, ConveyorProgram, TransferCommand
<1>8. /\ timer \in Timer(ProveTime)
      /\ ~(runCmd /\ ~feedback') => timer.elapsed = 0 /\ ~timer.q
      /\ (runCmd /\ ~feedback') /\ ~proving.q /\ proving.elapsed < ProveTime =>
            /\ timer.elapsed = proving.elapsed + 1
            /\ timer.q <=> proving.elapsed + 1 = ProveTime
      /\ (runCmd /\ ~feedback') /\ proving.q /\ proving.elapsed = ProveTime =>
            timer.elapsed = ProveTime /\ timer.q
  <2>1. (runCmd /\ ~feedback') \in BOOLEAN
    BY <1>5, <1>6
  <2> HIDE DEF runCmd
  <2> QED
    BY <1>1, <2>1, ProvingStep
<1>9. timer.q \in BOOLEAN /\ timer.elapsed \in 0 .. ProveTime
  BY <1>8 DEF Timer
<1> HIDE DEF timer, runCmd
<1>10. /\ unproven' = IF motorRun' /\ ~feedback'
                      THEN Smaller(unproven + 1, ProveTime) ELSE 0
       /\ carried' = FALSE
       /\ start' = start /\ stop' = stop /\ stuck' = stuck
       /\ everStuck' = everStuck
  BY DEF MotorTick
<1>11. /\ unproven < ProveTime
       /\ proving.q => proving.elapsed = ProveTime /\ unproven = 0
       /\ ~proving.q => proving.elapsed = unproven
       /\ ~faultLatch /\ ~carried => ~proving.q
  BY DEF ConveyorInv, UnprovenIsDropped, TimerCountsUnproven
<1>12. Smaller(unproven + 1, ProveTime) = unproven + 1
  BY <1>1, <1>2, <1>11 DEF Smaller
<1>13. MotorTypeOK'
  <2>1. unproven' \in Nat
    BY <1>1, <1>10, <1>12
  <2>2. /\ motorRun' \in BOOLEAN /\ faultLamp' \in BOOLEAN /\ motorCmd' \in BOOLEAN
        /\ runLatch' \in BOOLEAN /\ faultLatch' \in BOOLEAN
    BY <1>6, <1>7, <1>9
  <2>3. carried' \in BOOLEAN
    BY <1>10
  <2> QED
    BY <1>1, <1>3, <1>4, <1>5, <1>7, <1>8, <1>10, <2>1, <2>2, <2>3
    DEF MotorTypeOK
<1>14. /\ timer.q => timer.elapsed = ProveTime /\ unproven' = 0
       /\ ~timer.q => timer.elapsed = unproven' /\ unproven' < ProveTime
  <2>1. CASE ~(runCmd /\ ~feedback')
    BY <2>1, <1>2, <1>7, <1>8, <1>10
  <2>2. CASE runCmd /\ ~feedback' /\ proving.q
    BY <2>2, <1>7, <1>8, <1>10, <1>11
  <2>3. CASE runCmd /\ ~feedback' /\ ~proving.q
    <3>1. /\ timer.elapsed = unproven + 1
          /\ timer.q <=> unproven + 1 = ProveTime
      BY <2>3, <1>8, <1>11
    <3>2. unproven' = IF timer.q THEN 0 ELSE unproven + 1
      BY <2>3, <1>7, <1>9, <1>10, <1>12
    <3>3. unproven + 1 = ProveTime \/ unproven + 1 < ProveTime
      BY <1>1, <1>2, <1>11
    <3> QED
      BY <3>1, <3>2, <3>3
  <2> QED
    BY <2>1, <2>2, <2>3, <1>6, <1>5
<1>15. UnprovenIsDropped'
  <2>1. unproven' < ProveTime
    BY <1>14, <1>2, <1>9
  <2>2. faultLatch' => ~motorRun' /\ ~motorCmd'
    BY <1>7, <1>6, <1>9 DEF runCmd
  <2> QED
    BY <2>1, <2>2 DEF UnprovenIsDropped
<1>16. TimerCountsUnproven'
  BY <1>14, <1>7, <1>9 DEF TimerCountsUnproven
<1>17. ~faultLatch /\ faultLatch' =>
          (unproven = ProveTime - 1 /\ ~feedback') \/ carried
  <2> SUFFICES ASSUME ~faultLatch, faultLatch', ~carried
               PROVE  unproven = ProveTime - 1 /\ ~feedback'
    OBVIOUS
  <2>1. timer.q /\ ~proving.q
    BY <1>7, <1>11 DEF Faulted
  <2>2. runCmd /\ ~feedback'
    BY <2>1, <1>8, <1>5, <1>6
  <2>3. unproven + 1 = ProveTime
    BY <2>1, <2>2, <1>8, <1>11
  <2> QED
    BY <2>2, <2>3, <1>1, <1>2
<1> QED
  BY <1>13, <1>15, <1>16, <1>17 DEF ConveyorInv

\* Presses, restarts and the fault's switch leave the timer to the next scan.
LEMMA ConveyorBetweenTicks ==
    ASSUME ConveyorInv,
           MotorColdStart \/ PressStartStop \/ SetStuck \/ UNCHANGED motorVars
    PROVE  ConveyorInv' /\ (~faultLatch => ~faultLatch')
<1> USE DEF ConveyorInv
<1>1. CASE MotorColdStart
  <2>1. MotorTypeOK'
    BY <1>1 DEF MotorColdStart, MotorTypeOK, plantVars, Timer
  <2>2. proving' = proving /\ unproven' = unproven /\ carried' = (carried \/ proving.q)
        /\ faultLatch' = FALSE
    BY <1>1 DEF MotorColdStart
  <2>3. proving.q \in BOOLEAN /\ carried \in BOOLEAN
    BY DEF MotorTypeOK, Timer
  <2>4. UnprovenIsDropped'
    BY <2>2 DEF UnprovenIsDropped
  <2>5. TimerCountsUnproven'
    BY <2>2, <2>3 DEF TimerCountsUnproven
  <2> QED
    BY <2>1, <2>2, <2>4, <2>5
<1>2. CASE PressStartStop
  BY <1>2 DEF PressStartStop, plantVars, history, MotorTypeOK,
              UnprovenIsDropped, TimerCountsUnproven
<1>3. CASE SetStuck
  BY <1>3 DEF SetStuck, tags, MotorTypeOK, UnprovenIsDropped,
              TimerCountsUnproven
<1>4. CASE UNCHANGED motorVars
  BY <1>4 DEF motorVars, plantVars, tags, history, MotorTypeOK,
              UnprovenIsDropped, TimerCountsUnproven
<1> QED
  BY <1>1, <1>2, <1>3, <1>4

LEMMA ConveyorInvariant == MotorSpec => []ConveyorInv
<1>1. MotorInit => ConveyorInv
  <2> SUFFICES ASSUME MotorInit PROVE ConveyorInv
    OBVIOUS
  <2>1. /\ proving.elapsed = 0 /\ proving.q = FALSE
        /\ proving \in Timer(ProveTime)
    BY ConveyorAssumption DEF MotorInit, IdleTimer, Timer
  <2>2. MotorTypeOK
    <3>1. speed \in 0 .. TopSpeed /\ unproven \in Nat
      BY ConveyorAssumption DEF MotorInit
    <3>2. /\ running \in BOOLEAN /\ motorCmd \in BOOLEAN /\ stuck \in BOOLEAN
          /\ everStuck \in BOOLEAN /\ start \in BOOLEAN /\ stop \in BOOLEAN
          /\ feedback \in BOOLEAN /\ motorRun \in BOOLEAN
          /\ faultLamp \in BOOLEAN /\ runLatch \in BOOLEAN
          /\ faultLatch \in BOOLEAN /\ carried \in BOOLEAN
      BY DEF MotorInit
    <3> QED
      BY <2>1, <3>1, <3>2 DEF MotorTypeOK
  <2>3. UnprovenIsDropped
    BY ConveyorAssumption DEF MotorInit, UnprovenIsDropped
  <2>4. TimerCountsUnproven
    <3>1. proving.elapsed = unproven
      BY <2>1 DEF MotorInit
    <3>2. ~proving.q
      BY <2>1
    <3> QED
      BY <3>1, <3>2 DEF TimerCountsUnproven
  <2> QED
    BY <2>2, <2>3, <2>4 DEF ConveyorInv
<1>2. ConveyorInv /\ [MotorNext]_motorVars => ConveyorInv'
  BY ConveyorTick, ConveyorBetweenTicks DEF MotorNext
<1> QED
  BY <1>1, <1>2, PTL DEF MotorSpec

\* A motor that gives no feedback is dropped within the proving time, and is
\* not commanded while the fault lasts: for any proving time and any ramp.
THEOREM UnprovenMotorIsDropped == MotorSpec => []UnprovenIsDropped
<1>1. ConveyorInv => UnprovenIsDropped
  BY DEF ConveyorInv
<1> QED
  BY <1>1, ConveyorInvariant, PTL

\* The fault latches only at the scan that completes the proving time of a
\* command that was up, unproven, at every scan before; or, as a cold start
\* leaves the program's timer as it is, at the first scan after one.
THEOREM FaultsAreEarned == MotorSpec => FaultIsEarned
<1>1. ConveyorInv /\ [MotorNext]_motorVars =>
        [~faultLatch /\ faultLatch' =>
            (unproven = ProveTime - 1 /\ ~feedback') \/ carried]_motorVars
  BY ConveyorTick, ConveyorBetweenTicks DEF MotorNext
<1> QED
  BY <1>1, ConveyorInvariant, PTL DEF MotorSpec, FaultIsEarned

-----------------------------------------------------------------------------
\* The speed a motor must have gained while the timer ran.
LEMMA GainGrows ==
    ASSUME NEW n \in Nat
    PROVE  /\ SpinUp * (n + 1 - 1) = SpinUp * n
           /\ n > 0 => SpinUp * (n - 1) + SpinUp = SpinUp * n
           /\ SpinUp * n \in Nat
  BY ConveyorAssumption

\* A sound motor that is still unproven has gained a step of speed.
LEMMA SoundTick ==
    ASSUME ProvesInTime, ConveyorInv, SoundInv, MotorTick
    PROVE  SoundInv'
<1> SUFFICES ASSUME ~everStuck'
             PROVE  /\ ~stuck' /\ ~faultLatch' /\ ~proving'.q
                    /\ unproven' > 0 =>
                          motorCmd' /\ speed' >= SpinUp * (unproven' - 1)
  BY DEF SoundInv
<1>1. ~everStuck /\ stuck' = stuck
  BY DEF MotorTick
<1>2. /\ ~stuck /\ ~faultLatch /\ ~proving.q
      /\ unproven > 0 => motorCmd /\ speed >= SpinUp * (unproven - 1)
  BY <1>1 DEF SoundInv
<1>3. /\ ConveyorInv'
      /\ ~faultLatch /\ faultLatch' =>
            (unproven = ProveTime - 1 /\ ~feedback') \/ carried
  BY ConveyorTick
<1>4. /\ speed \in 0 .. TopSpeed /\ unproven \in Nat /\ motorCmd \in BOOLEAN
      /\ feedback' = running' /\ running' \in BOOLEAN
      /\ motorRun' \in BOOLEAN /\ motorCmd' = motorRun'
  <2>1. feedback' = (running' /\ ~stuck) /\ motorCmd' = motorRun'
    BY DEF MotorTick, TransferFeedback, TransferCommand
  <2> QED
    BY <2>1, <1>2, <1>3 DEF ConveyorInv, MotorTypeOK
<1>5. unproven < ProveTime /\ ProveTime \in Nat
  BY ConveyorAssumption DEF ConveyorInv, UnprovenIsDropped
\* The contact is open, so the ramp was not cut off and every scan gained.
<1>6. ~feedback' => speed' >= SpinUp * unproven /\ speed' < Threshold
  <2> SUFFICES ASSUME ~feedback'
               PROVE  speed' >= SpinUp * unproven /\ speed' < Threshold
    OBVIOUS
  <2>1. speed' = RampSpeed(speed, motorCmd) /\ speed' \in 0 .. TopSpeed
    BY <1>4, RampInRange DEF MotorTick, StepMotor
  <2>2. speed' < Threshold
    <3>1. running' = (speed' >= Threshold \/ (running /\ speed' > 0))
      BY DEF MotorTick, StepMotor, RunContact
    <3>2. ~(speed' >= Threshold)
      BY <3>1, <1>4
    <3>3. speed' \in Nat /\ Threshold \in Nat
      BY <2>1, ConveyorAssumption
    <3> QED
      BY <3>2, <3>3
  <2>3. CASE unproven = 0
    <3>1. SpinUp * unproven = 0
      BY <2>3, ConveyorAssumption
    <3> QED
      BY <3>1, <2>1, <2>2
  <2>4. CASE unproven > 0
    <3>1. motorCmd /\ speed >= SpinUp * (unproven - 1)
      BY <2>4, <1>2
    <3>2. speed' = speed + SpinUp
      BY <3>1, <2>1, <2>2, <1>4, RampInRange
    <3>3. SpinUp * (unproven - 1) + SpinUp = SpinUp * unproven
      BY <2>4, <1>4, GainGrows
    <3>4. SpinUp * (unproven - 1) \in Nat /\ SpinUp \in Nat
      BY <2>4, <1>4, GainGrows, ConveyorAssumption
    <3> QED
      BY <3>1, <3>2, <3>3, <3>4, <2>2, <1>4
  <2> QED
    BY <2>3, <2>4, <1>4
<1>7. unproven' > 0 => motorCmd' /\ speed' >= SpinUp * (unproven' - 1)
  <2>1. unproven' = IF motorRun' /\ ~feedback' THEN unproven + 1 ELSE 0
    <3>1. Smaller(unproven + 1, ProveTime) = unproven + 1
      BY <1>4, <1>5 DEF Smaller
    <3> QED
      BY <3>1 DEF MotorTick
  <2>2. unproven + 1 - 1 = unproven
    BY <1>4
  <2> QED
    BY <2>1, <2>2, <1>4, <1>6
\* A timer that expired would have left the motor short of the threshold.
<1>8. ~(unproven = ProveTime - 1 /\ ~feedback')
  <2>1. Threshold <= SpinUp * (ProveTime - 1)
    BY DEF ProvesInTime
  <2>2. (ProveTime - 1) \in Nat /\ SpinUp * (ProveTime - 1) \in Nat
        /\ speed' \in Nat /\ Threshold \in Nat
    <3>1. ProveTime - 1 \in Nat
      BY ConveyorAssumption
    <3>2. SpinUp * (ProveTime - 1) \in Nat
      BY <3>1, GainGrows
    <3> QED
      BY <3>1, <3>2, <1>3, ConveyorAssumption DEF ConveyorInv, MotorTypeOK
  <2>3. unproven = ProveTime - 1 =>
           SpinUp * unproven = SpinUp * (ProveTime - 1)
    OBVIOUS
  <2> QED
    BY <1>6, <2>1, <2>2, <2>3
<1>9. ~faultLatch' /\ ~proving'.q
  <2>1. proving' = TON(proving, ProveTime, Latched /\ ~Faulted /\ ~feedback', 1)
        /\ faultLatch' = (Faulted \/ proving'.q)
    BY DEF MotorTick, ConveyorProgram
  <2>2. ~Faulted
    BY <1>2 DEF Faulted
  <2>3. proving'.q => faultLatch'
    BY <2>1
  <2>4. proving \in Timer(ProveTime) /\ proving.elapsed = unproven
    BY <1>2 DEF ConveyorInv, MotorTypeOK, TimerCountsUnproven
  <2> DEFINE enable == (Latched /\ ~Faulted) /\ ~feedback'
  <2>5. enable \in BOOLEAN /\ (enable => ~feedback')
    <3>1. Latched \in BOOLEAN /\ Faulted \in BOOLEAN
      BY DEF ConveyorInv, MotorTypeOK, Latched, Faulted
    <3> QED
      BY <3>1, <1>4
  <2>6. proving' = TON(proving, ProveTime, enable, 1)
    BY <2>1
  <2> HIDE DEF enable
  <2>7. /\ ~enable => ~proving'.q
        /\ enable => (proving'.q <=> unproven + 1 = ProveTime)
    BY <2>4, <2>5, <2>6, <1>2, <1>5, ProvingStep
  <2>8. unproven + 1 = ProveTime => unproven = ProveTime - 1
    BY <1>4, <1>5
  <2>9. ~proving'.q
    BY <2>5, <2>7, <2>8, <1>8
  <2> QED
    BY <2>9, <2>2, <2>1
<1> QED
  BY <1>1, <1>2, <1>7, <1>9

\* With a contact that never sticks the twin never trips, from whatever speed
\* the motor is started again, through any presses and restarts: on condition
\* that a motor at rest reaches the contact's speed within the proving time.
THEOREM SoundMotorRuns ==
    ASSUME ProvesInTime
    PROVE  MotorSpec => []SoundMotorNeverTrips
<1>1. MotorInit => SoundInv
  BY DEF MotorInit, SoundInv, IdleTimer
<1>2. ConveyorInv /\ SoundInv /\ [MotorNext]_motorVars => SoundInv'
  <2> SUFFICES ASSUME ConveyorInv, SoundInv, [MotorNext]_motorVars
               PROVE  SoundInv'
    OBVIOUS
  <2>1. CASE MotorTick
    BY <2>1, SoundTick
  <2>2. CASE MotorColdStart
    BY <2>2 DEF MotorColdStart, plantVars, SoundInv
  <2>3. CASE PressStartStop
    BY <2>3 DEF PressStartStop, plantVars, history, SoundInv
  <2>4. CASE SetStuck
    BY <2>4 DEF SetStuck, SoundInv
  <2>5. CASE UNCHANGED motorVars
    BY <2>5 DEF motorVars, plantVars, tags, history, SoundInv
  <2> QED
    BY <2>1, <2>2, <2>3, <2>4, <2>5 DEF MotorNext
<1>3. ConveyorInv /\ SoundInv => SoundMotorNeverTrips
  BY DEF ConveyorInv, MotorTypeOK, SoundInv, SoundMotorNeverTrips
<1> QED
  BY <1>1, <1>2, <1>3, ConveyorInvariant, PTL DEF MotorSpec

-----------------------------------------------------------------------------
(***************************************************************************)
(* The tank                                                                *)
(***************************************************************************)

\* The latch as a record and as a function are the same.
LEMMA LatchBits ==
    ASSUME NEW a \in BOOLEAN, NEW b \in BOOLEAN
    PROVE  [start_bit |-> a, stop_bit |-> b]
               \in [{"start_bit", "stop_bit"} -> BOOLEAN]
  OBVIOUS

\* The sensor's rounding never takes the level past the tank's top, nor past
\* the interlock from below it.
LEMMA SensorRounds ==
    ASSUME NEW c \in 0 .. 2 * Capacity
    PROVE  /\ Sensed(c) \in 0 .. Capacity
           /\ Sensed(c) < High => c < 2 * High
<1>1. Capacity \in Nat /\ High \in Nat /\ c \in Nat /\ c <= 2 * Capacity
  BY TankAssumption
<1> DEFINE count == c \div 2
<1>2. count \in Nat /\ (c = 2 * count \/ c = 2 * count + 1)
      /\ (c % 2 = 0 => c = 2 * count)
  BY <1>1
<1> HIDE DEF count
<1>3. Sensed(c) = IF c % 2 = 0 \/ count % 2 = 0 THEN count ELSE count + 1
  BY DEF Sensed, count
<1>4. Sensed(c) = count \/ (Sensed(c) = count + 1 /\ c = 2 * count + 1)
  BY <1>2, <1>3
<1> QED
  BY <1>1, <1>2, <1>4

\* What one tick can do to the level.
LEMMA TankMoves ==
    ASSUME TankTypeOK, StepTank
    PROVE  /\ content' \in 0 .. 2 * Capacity
           /\ content' <= content + Inflow
           /\ content' > content => command["fill"]
<1>1. PICK draw \in 1 .. MaxDraw :
         content' = Clamp(0, 2 * Capacity,
                          content + (IF command["fill"] THEN Inflow ELSE 0)
                                  - (IF command["drain"] THEN draw ELSE 0))
  BY DEF StepTank
<1>2. /\ content \in 0 .. 2 * Capacity /\ Capacity \in Nat
      /\ Inflow \in Nat /\ draw \in Nat
  BY TankAssumption DEF TankTypeOK
<1> DEFINE in == IF command["fill"] THEN Inflow ELSE 0
           out == IF command["drain"] THEN draw ELSE 0
<1>3. in \in 0 .. Inflow /\ out \in Nat /\ (~command["fill"] => in = 0)
  BY <1>2
<1>4. content' = Clamp(0, 2 * Capacity, content + in - out)
  BY <1>1
<1> HIDE DEF in, out
<1>5. content' \in 0 .. 2 * Capacity
  BY <1>2, <1>3, <1>4 DEF Clamp
<1>6. content' <= content + in
  BY <1>2, <1>3, <1>4 DEF Clamp
<1> QED
  BY <1>2, <1>3, <1>5, <1>6

\* One more lost exchange is one more tick of inflow.
LEMMA OutageGrows ==
    ASSUME NEW n \in Nat
    PROVE  /\ Inflow * n \in Nat
           /\ Inflow * (n + 1) = Inflow * n + Inflow
  BY TankAssumption

LEMMA TankTickKeeps ==
    ASSUME TankInv, TankTick
    PROVE  TankInv'
<1>1. /\ TankTypeOK /\ outage \in 0 .. MaxOutage /\ content \in 0 .. 2 * Capacity
      /\ High \in Nat /\ Inflow \in Nat /\ MaxOutage \in Nat /\ Capacity \in Nat
  BY TankAssumption DEF TankInv, TankTypeOK
<1>2. /\ content' \in 0 .. 2 * Capacity
      /\ content' <= content + Inflow
  BY <1>1, TankMoves DEF TankTick
<1>3. /\ reading' \in 0 .. Capacity
      /\ ~dropout => reading' = Sensed(content')
  BY <1>2, SensorRounds DEF TankTick, ReadLevel, TankInv, TankTypeOK
<1>4. /\ latch' \in [{"start_bit", "stop_bit"} -> BOOLEAN]
      /\ latch'["start_bit"] = ~latch'["stop_bit"]
  <2>1. latch' = SealedIn(latch, button["start"], button["stop"])
    BY DEF TankTick
  <2>2. /\ button["start"] \in BOOLEAN /\ button["stop"] \in BOOLEAN
        /\ latch["start_bit"] \in BOOLEAN /\ latch["stop_bit"] \in BOOLEAN
        /\ latch["start_bit"] = ~latch["stop_bit"]
    BY DEF TankInv, TankTypeOK
  <2> DEFINE run == latch["start_bit"]
             go == button["start"]
             halt == button["stop"]
             after == SealedIn(latch, go, halt)
  <2>3. after = [start_bit |-> ~halt /\ (go \/ run),
                 stop_bit |-> halt \/ (~go /\ latch["stop_bit"])]
    BY DEF SealedIn
  <2>5. /\ after["start_bit"] = (~halt /\ (go \/ run))
        /\ after["stop_bit"] = (halt \/ (~go /\ latch["stop_bit"]))
    BY <2>3
  <2>6. after \in [{"start_bit", "stop_bit"} -> BOOLEAN]
    <3>1. /\ (~halt /\ (go \/ run)) \in BOOLEAN
          /\ (halt \/ (~go /\ latch["stop_bit"])) \in BOOLEAN
      BY <2>2
    <3> HIDE DEF run, go, halt, after
    <3> QED
      BY <2>3, <3>1, LatchBits
  <2>4. after["start_bit"] = ~after["stop_bit"]
    BY <2>2, <2>5
  <2> QED
    BY <2>1, <2>6, <2>4
<1>5. /\ command' \in [Valves -> BOOLEAN]
      /\ ~(command'["fill"] /\ command'["drain"])
      /\ dropout => command' = command
      /\ ~dropout /\ command'["fill"] => reading' < High
  <2>1. CASE dropout
    BY <2>1 DEF TankTick, WriteValves, TankInv, TankTypeOK, NeverBothValves
  <2>2. CASE ~dropout
    <3>1. command' = [fill |-> latch'["start_bit"] /\ reading' < High,
                      drain |-> latch'["stop_bit"] /\ reading' > 0]
      BY <2>2 DEF TankTick, WriteValves, Commanded, Permitted
    <3> QED
      BY <2>2, <3>1, <1>4 DEF Valves
  <2> QED
    BY <2>1, <2>2
<1>6. /\ outage' \in 0 .. MaxOutage
      /\ ~dropout => outage' = 0
      /\ dropout /\ outage' < MaxOutage => outage' = outage + 1
  BY <1>1 DEF TankTick, Clamp
<1>7. TankTypeOK'
  BY <1>1, <1>2, <1>3, <1>4, <1>5, <1>6 DEF TankTick, TankTypeOK
<1>8. FillBeganBelow'
  <2> SUFFICES ASSUME command'["fill"], outage' < MaxOutage
               PROVE  content' < 2 * High + Inflow * outage'
    BY DEF FillBeganBelow
  <2>1. CASE ~dropout
    <3>1. Inflow * outage' = 0
      BY <2>1, <1>1, <1>6
    <3>2. content' < 2 * High
      BY <2>1, <1>2, <1>3, <1>5, SensorRounds
    <3> QED
      BY <3>1, <3>2, <1>1, <1>2
  <2>2. CASE dropout
    <3>1. outage' = outage + 1 /\ outage < MaxOutage
      BY <2>2, <1>1, <1>6
    <3>2. content < 2 * High + Inflow * outage
      BY <2>2, <3>1, <1>5 DEF TankInv, FillBeganBelow
    <3>3. Inflow * outage' = Inflow * outage + Inflow /\ Inflow * outage \in Nat
      BY <1>1, <3>1, OutageGrows
    <3> QED
      BY <3>2, <3>3, <1>1, <1>2
  <2> QED
    BY <2>1, <2>2
<1> QED
  BY <1>4, <1>5, <1>7, <1>8 DEF TankInv, NeverBothValves

LEMMA TankBetweenTicks ==
    ASSUME TankInv,
           TankColdStart \/ PressButtons \/ SwitchDropout \/ UNCHANGED tankVars
    PROVE  TankInv' /\ content' = content
<1> USE TankAssumption DEF TankInv, TankTypeOK, NeverBothValves, FillBeganBelow
<1>1. CASE TankColdStart
  BY <1>1 DEF TankColdStart, Restarted, Released
<1>2. CASE PressButtons
  BY <1>2 DEF PressButtons
<1>3. CASE SwitchDropout
  BY <1>3 DEF SwitchDropout
<1>4. CASE UNCHANGED tankVars
  BY <1>4 DEF tankVars
<1> QED
  BY <1>1, <1>2, <1>3, <1>4

LEMMA TankInvariant == TankSpec => []TankInv
<1>1. TankInit => TankInv
  <2> SUFFICES ASSUME TankInit PROVE TankInv
    OBVIOUS
  <2>1. TankTypeOK
    <3>1. latch \in [{"start_bit", "stop_bit"} -> BOOLEAN]
      BY LatchBits DEF TankInit, Stopped
    <3>2. /\ content \in 0 .. 2 * Capacity /\ reading \in 0 .. Capacity
          /\ outage \in 0 .. MaxOutage
      BY TankAssumption DEF TankInit
    <3>3. /\ command \in [Valves -> BOOLEAN] /\ dropout \in BOOLEAN
          /\ button \in [{"start", "stop"} -> BOOLEAN]
      BY DEF TankInit, Released
    <3> QED
      BY <3>1, <3>2, <3>3 DEF TankTypeOK
  <2>2. latch["start_bit"] = ~latch["stop_bit"]
    <3>1. latch = [start_bit |-> FALSE, stop_bit |-> TRUE]
      BY DEF TankInit, Stopped
    <3> QED
      BY <3>1
  <2>3. ~command["fill"]
    BY DEF TankInit, Valves
  <2> QED
    BY <2>1, <2>2, <2>3 DEF TankInv, NeverBothValves, FillBeganBelow
<1>2. TankInv /\ [TankNext]_tankVars => TankInv'
  BY TankTickKeeps, TankBetweenTicks DEF TankNext
<1> QED
  BY <1>1, <1>2, PTL DEF TankSpec

\* The fill and drain valves are never open together on the bus, over lost
\* exchanges, presses and restarts, for any tank.
THEOREM ValvesExclude == TankSpec => []NeverBothValves
<1>1. TankInv => NeverBothValves
  BY DEF TankInv
<1> QED
  BY <1>1, TankInvariant, PTL

\* The tank fills past its interlock for as long as exchanges are lost and one
\* tick more: for any tank, any inflow and any length of the outage.
THEOREM OvershootIsBounded == TankSpec => OvershootIsTheOutage
<1>1. TankInv /\ [TankNext]_tankVars =>
        [content' > content /\ outage < MaxOutage =>
            content < 2 * High + Inflow * outage]_tankVars
  <2> SUFFICES ASSUME TankInv, TankNext, content' > content,
                      outage < MaxOutage
               PROVE  content < 2 * High + Inflow * outage
    OBVIOUS
  <2>1. CASE TankTick
    BY <2>1, TankMoves DEF TankTick, TankInv, FillBeganBelow
  <2>2. CASE TankColdStart \/ PressButtons \/ SwitchDropout
    <3>1. content' = content /\ content \in Nat
      BY <2>2, TankBetweenTicks, TankAssumption DEF TankInv, TankTypeOK
    <3> QED
      BY <3>1
  <2> QED
    BY <2>1, <2>2 DEF TankNext
<1> QED
  BY <1>1, TankInvariant, PTL DEF TankSpec, OvershootIsTheOutage

-----------------------------------------------------------------------------
(***************************************************************************)
(* The laboratory's M221                                                   *)
(***************************************************************************)

LEMMA LabBits ==
    DOMAIN NativeBit = {"oit_start_button", "oit_stop_button", "tank_reset",
                        "start_bit", "stop_bit", "tank_drain", "tank_fill"}
  BY DEF NativeBit

\* What the emulated clock makes of a count within its period.
LEMMA ClockStep ==
    ASSUME NEW c \in 0 .. (Period - 1)
    PROVE  LET timer == TON([elapsed |-> c, q |-> FALSE], Period, TRUE, 1)
           IN  timer.q \in BOOLEAN /\ NextClock(timer) \in 0 .. (Period - 1)
<1> DEFINE idle == [elapsed |-> c, q |-> FALSE]
           elapsed == Smaller(Period, c + 1)
           timer == TON(idle, Period, TRUE, 1)
<1>1. Period \in Nat /\ Period > 1 /\ c \in Nat /\ c < Period
  BY LabAssumption
<1>2. timer = [elapsed |-> elapsed, q |-> FALSE \/ elapsed >= Period]
  BY DEF TON
<1>3. elapsed \in Nat /\ (elapsed >= Period \/ elapsed <= Period - 1)
  BY <1>1 DEF Smaller
<1> HIDE DEF idle, timer, elapsed
<1>4. timer.elapsed = elapsed /\ (timer.q <=> elapsed >= Period)
  BY <1>1, <1>2, <1>3
<1>5. NextClock(timer) \in 0 .. (Period - 1)
  BY <1>1, <1>3, <1>4 DEF NextClock
<1>6. timer.q \in BOOLEAN
  BY <1>2
<1> QED
  BY <1>5, <1>6 DEF timer, idle

\* Which tag of the scan's result comes from where.
LEMMA MergedBits ==
    ASSUME NEW run \in [start_bit : BOOLEAN, stop_bit : BOOLEAN],
           NEW allowed \in [tank_drain : BOOLEAN, tank_fill : BOOLEAN],
           NEW inputs \in TickInputs
    PROVE  LET bits == BitsAfter(run, allowed, inputs)
           IN  /\ bits \in [DOMAIN NativeBit -> BOOLEAN]
               /\ bits["tank_fill"] = allowed["tank_fill"]
               /\ bits["tank_drain"] = allowed["tank_drain"]
<1>1. /\ DOMAIN run = {"start_bit", "stop_bit"}
      /\ run["start_bit"] \in BOOLEAN /\ run["stop_bit"] \in BOOLEAN
  OBVIOUS
<1>2. /\ DOMAIN allowed = {"tank_drain", "tank_fill"}
      /\ allowed["tank_drain"] \in BOOLEAN /\ allowed["tank_fill"] \in BOOLEAN
  OBVIOUS
<1>3. inputs.coil \in [Buttons -> BOOLEAN] /\ inputs.reset \in BOOLEAN
  BY DEF TickInputs
<1>4. BitsAfter(run, allowed, inputs) \in [DOMAIN NativeBit -> BOOLEAN]
  BY <1>1, <1>2, <1>3, LabBits DEF Buttons, BitsAfter
<1>5. /\ BitsAfter(run, allowed, inputs)["tank_fill"] = allowed["tank_fill"]
      /\ BitsAfter(run, allowed, inputs)["tank_drain"] = allowed["tank_drain"]
  BY <1>1, <1>2, <1>3, LabBits DEF Buttons, BitsAfter
<1> QED
  BY <1>4, <1>5

\* The permissions a scan computes.
LEMMA PermissionsMatch ==
    ASSUME NEW old, NEW new \in Int
    PROVE  /\ Permissions(old, new) \in [tank_drain : BOOLEAN, tank_fill : BOOLEAN]
           /\ Permissions(old, new)["tank_drain"] <=> new >= 1
           /\ Permissions(old, new)["tank_fill"] <=> new <= TankLevelMax
<1> DEFINE drain == new >= 1
           fill == new <= TankLevelMax
           result == Permissions(old, new)
<1>1. result = [tank_drain |-> drain, tank_fill |-> fill]
  BY DEF Permissions
<1>2. /\ drain \in BOOLEAN /\ (drain <=> new >= 1)
      /\ fill \in BOOLEAN /\ (fill <=> new <= TankLevelMax)
  OBVIOUS
<1> HIDE DEF drain, fill, result
<1>3. result \in [tank_drain : BOOLEAN, tank_fill : BOOLEAN]
  BY <1>1, <1>2
<1>4. result["tank_drain"] = drain /\ result["tank_fill"] = fill
  BY <1>1
<1>5. result["tank_drain"] <=> new >= 1
  BY <1>2, <1>4
<1>6. result["tank_fill"] <=> new <= TankLevelMax
  BY <1>2, <1>4
<1> QED
  BY <1>3, <1>5, <1>6 DEF result

\* The scan keeps level and permissions together.
LEMMA ScanKeepsRange ==
    ASSUME NEW t \in Twins, NEW i \in TickInputs, LevelMatches(t)
    PROVE  Scanned(t, i) \in Twins /\ LevelMatches(Scanned(t, i))
<1> DEFINE old == t.bit
           run == SealedIn(old, old["oit_start_button"], old["oit_stop_button"])
           timer == TON([elapsed |-> t.clock, q |-> FALSE], Period, TRUE, 1)
           mayFill == timer.q /\ run.start_bit /\ old["tank_fill"]
           mayDrain == timer.q /\ run.stop_bit /\ old["tank_drain"]
           new == IF i.reset THEN 0
                  ELSE t.level + Steps(ONS(t.up, mayFill))
                               - Steps(ONS(t.down, mayDrain))
           allowed == Permissions(t.level, new)
           bits == BitsAfter(run, allowed, i)
           lights == [green |-> run.stop_bit, red |-> run.start_bit]
           after == [bit |-> bits, level |-> new, lit |-> lights,
                     clock |-> NextClock(timer), up |-> mayFill,
                     down |-> mayDrain]
<1>1. Scanned(t, i) = after
  BY DEF Scanned
<1>2. /\ old \in [DOMAIN NativeBit -> BOOLEAN] /\ t.level \in Int
      /\ t.clock \in 0 .. (Period - 1) /\ t.up \in BOOLEAN /\ t.down \in BOOLEAN
      /\ i.reset \in BOOLEAN /\ i.coil \in [Buttons -> BOOLEAN]
  BY DEF Twins, TickInputs
<1>3. /\ t.level \in 0 .. (TankLevelMax + 1) /\ TankLevelMax \in Nat
      /\ old["tank_fill"] <=> t.level <= TankLevelMax
      /\ old["tank_drain"] <=> t.level >= 1
  BY LabAssumption DEF LevelMatches
<1>4. timer.q \in BOOLEAN /\ NextClock(timer) \in 0 .. (Period - 1)
  BY <1>2, ClockStep
<1>5. run \in [start_bit : BOOLEAN, stop_bit : BOOLEAN]
  BY DEF SealedIn
<1>6. mayFill \in BOOLEAN /\ mayDrain \in BOOLEAN
  <2>1. old["tank_fill"] \in BOOLEAN /\ old["tank_drain"] \in BOOLEAN
    BY <1>2, LabBits
  <2> HIDE DEF timer, run, old
  <2> QED
    BY <2>1, <1>4, <1>5
<1>7. new \in 0 .. (TankLevelMax + 1)
  <2>1. /\ mayFill => t.level <= TankLevelMax
        /\ mayDrain => t.level >= 1
    BY <1>3
  <2> HIDE DEF mayFill, mayDrain
  <2>2. /\ Steps(ONS(t.up, mayFill)) \in 0 .. 1
        /\ Steps(ONS(t.up, mayFill)) = 1 => t.level <= TankLevelMax
        /\ Steps(ONS(t.down, mayDrain)) \in 0 .. 1
        /\ Steps(ONS(t.down, mayDrain)) = 1 => t.level >= 1
    BY <2>1, <1>6 DEF Steps, ONS
  <2> QED
    BY <2>2, <1>2, <1>3
<1> HIDE DEF new, mayFill, mayDrain, timer, run
<1>8. /\ allowed \in [tank_drain : BOOLEAN, tank_fill : BOOLEAN]
      /\ allowed["tank_drain"] <=> new >= 1
      /\ allowed["tank_fill"] <=> new <= TankLevelMax
  BY <1>7, LabAssumption, PermissionsMatch
<1> HIDE DEF allowed
<1>9. /\ bits["tank_fill"] <=> new <= TankLevelMax
      /\ bits["tank_drain"] <=> new >= 1
  BY <1>2, <1>5, <1>8, MergedBits
<1>10. bits \in [DOMAIN NativeBit -> BOOLEAN]
  BY <1>2, <1>5, <1>8, MergedBits
<1> HIDE DEF bits
<1>11. lights \in [green : BOOLEAN, red : BOOLEAN]
  BY <1>5
<1> HIDE DEF lights
<1>12. after \in Twins
  BY <1>4, <1>6, <1>7, <1>10, <1>11, LabAssumption DEF Twins
<1>13. LevelMatches(after)
  BY <1>7, <1>9 DEF LevelMatches
<1> QED
  BY <1>1, <1>12, <1>13

\* The scan does not look at what Agrees leaves out.
LEMMA ScanIsAFunction ==
    ASSUME NEW s, NEW t, NEW i, Agrees(s, t)
    PROVE  Scanned(s, i) = Scanned(t, i)
<1>1. /\ s.level = t.level /\ s.clock = t.clock
      /\ s.up = t.up /\ s.down = t.down
  BY DEF Agrees
<1>2. /\ s.bit["oit_start_button"] = t.bit["oit_start_button"]
      /\ s.bit["oit_stop_button"] = t.bit["oit_stop_button"]
      /\ s.bit["start_bit"] = t.bit["start_bit"]
      /\ s.bit["stop_bit"] = t.bit["stop_bit"]
      /\ s.bit["tank_drain"] = t.bit["tank_drain"]
      /\ s.bit["tank_fill"] = t.bit["tank_fill"]
  BY LabBits DEF Agrees
<1>3. SealedIn(s.bit, s.bit["oit_start_button"], s.bit["oit_stop_button"])
        = SealedIn(t.bit, t.bit["oit_start_button"], t.bit["oit_stop_button"])
  BY <1>2 DEF SealedIn
<1> QED
  BY <1>1, <1>2, <1>3 DEF Scanned

\* A tick is the scan, as a function of the twin and its inputs.
LEMMA TickIsTheScan ==
    ASSUME LabInv, LabTick
    PROVE  /\ Twin \in Twins /\ Inputs \in TickInputs
           /\ Twin' = Scanned(Twin, Inputs)
           /\ Twin' \in Twins /\ LevelMatches(Twin')
<1>1. Twin \in Twins /\ coil \in [Buttons -> BOOLEAN] /\ LevelMatches(Twin)
  BY DEF LabInv, LabTypeOK
<1>2. Inputs \in TickInputs
  <2>1. bit["tank_reset"] \in BOOLEAN
    BY <1>1, LabBits DEF Twin, Twins
  <2> QED
    BY <1>1, <2>1 DEF Inputs, TickInputs
<1> DEFINE after == Scanned(Twin, Inputs)
<1>3. after \in Twins /\ LevelMatches(after)
  BY <1>1, <1>2, ScanKeepsRange
<1>4. /\ bit' = after.bit /\ level' = after.level /\ lit' = after.lit
      /\ clock' = after.clock /\ up' = after.up /\ down' = after.down
  BY DEF LabTick, ScanAndSync, LoadTags, LoadBlocks
<1> HIDE DEF after
<1>5. after = [bit |-> after.bit, level |-> after.level, lit |-> after.lit,
               clock |-> after.clock, up |-> after.up, down |-> after.down]
  BY <1>3 DEF Twins
<1>6. Twin' = after
  BY <1>4, <1>5 DEF Twin
<1> QED
  BY <1>1, <1>2, <1>3, <1>6 DEF after

\* What the history has room for.
TrailType == Seq([inputs : TickInputs, twin : Twins])

LEMMA InitialTwinFits == InitialTwin \in Twins /\ LevelMatches(InitialTwin)
<1>1. InitialBit \in [DOMAIN NativeBit -> BOOLEAN]
  BY DEF InitialBit
<1>2. InitialBit["tank_fill"] /\ ~InitialBit["tank_drain"]
  BY LabBits DEF InitialBit
<1>3. Dark \in [green : BOOLEAN, red : BOOLEAN]
  BY DEF Dark
<1>4. 0 \in 0 .. (Period - 1) /\ 0 \in 0 .. (TankLevelMax + 1)
      /\ 0 <= TankLevelMax
  BY LabAssumption
<1> QED
  BY <1>1, <1>2, <1>3, <1>4 DEF InitialTwin, Twins, LevelMatches

LEMMA LabTickKeeps ==
    ASSUME LabInv, LabTick
    PROVE  /\ LabInv'
           /\ Repeats => Twin' = trail[pos].twin
<1>1. /\ Twin \in Twins /\ Inputs \in TickInputs
      /\ Twin' = Scanned(Twin, Inputs)
      /\ Twin' \in Twins /\ LevelMatches(Twin')
  BY TickIsTheScan
<1>2. /\ coil' = coil /\ coil \in [Buttons -> BOOLEAN]
      /\ saved \in Twins /\ LevelMatches(saved)
      /\ branch \in {"live", "original", "repeat"}
      /\ trail \in TrailType /\ Len(trail) <= MaxTrail /\ Len(trail) \in Nat
      /\ pos \in 0 .. MaxTrail /\ MaxTrail \in Nat
  BY LabAssumption DEF LabInv, LabTypeOK, LabTick, TrailType
<1>3. /\ \A n \in 1 .. Len(trail) :
            trail[n].twin = Scanned(Before(n), trail[n].inputs)
      /\ branch = "original" => Agrees(Twin, Before(Len(trail) + 1))
      /\ branch = "repeat" => pos \in 1 .. Len(trail) /\ Agrees(Twin, Before(pos))
  BY DEF LabInv, TrailIsARun
<1>4. Repeats => Twin' = trail[pos].twin
  <2> SUFFICES ASSUME Repeats PROVE Twin' = trail[pos].twin
    OBVIOUS
  <2>1. pos \in 1 .. Len(trail) /\ Agrees(Twin, Before(pos))
        /\ Inputs = trail[pos].inputs
    BY <1>3 DEF Repeats
  <2>2. trail[pos].twin = Scanned(Before(pos), Inputs)
    BY <2>1, <1>3
  <2>3. Scanned(Twin, Inputs) = Scanned(Before(pos), Inputs)
    BY <2>1, ScanIsAFunction
  <2> QED
    BY <1>1, <2>2, <2>3
<1>5. \/ /\ branch = "original" /\ Len(trail) < MaxTrail
         /\ trail' = Append(trail, [inputs |-> Inputs, twin |-> Twin'])
         /\ branch' = branch /\ pos' = pos /\ saved' = saved
      \/ /\ Repeats /\ pos < Len(trail) /\ pos' = pos + 1
         /\ branch' = branch /\ trail' = trail /\ saved' = saved
      \/ /\ branch' = "live" /\ trail' = <<>> /\ pos' = 0
         /\ saved' = InitialTwin
  BY DEF LabTick, TickTrail, Repeats
<1>6. CASE /\ branch = "original" /\ Len(trail) < MaxTrail
           /\ trail' = Append(trail, [inputs |-> Inputs, twin |-> Twin'])
           /\ branch' = branch /\ pos' = pos /\ saved' = saved
  <2> DEFINE entry == [inputs |-> Inputs, twin |-> Twin']
  <2> PICK last \in Nat : last = Len(trail) + 1
    BY <1>2
  <2>1. entry \in [inputs : TickInputs, twin : Twins]
    BY <1>1
  <2>2. /\ trail' \in TrailType /\ Len(trail') = last
        /\ \A n \in 1 .. Len(trail) : trail'[n] = trail[n]
        /\ trail'[last] = entry
    BY <1>2, <1>6, <2>1 DEF TrailType
  <2>3. entry.inputs = Inputs /\ entry.twin = Twin'
    OBVIOUS
  <2> HIDE DEF entry
  <2>4. \A n \in 1 .. last : Before(n)' = Before(n)
    BY <1>2, <1>6, <2>2 DEF Before
  <2>5. \A n \in 1 .. last :
           trail'[n].twin = Scanned(Before(n)', trail'[n].inputs)
    <3> TAKE n \in 1 .. last
    <3>1. CASE n \in 1 .. Len(trail)
      BY <3>1, <1>3, <2>2, <2>4
    <3>2. CASE n = last
      <4>1. Scanned(Twin, Inputs) = Scanned(Before(last), Inputs)
        BY <1>3, <1>6, ScanIsAFunction
      <4> QED
        BY <3>2, <4>1, <1>1, <1>2, <2>2, <2>3, <2>4
    <3> QED
      BY <3>1, <3>2, <1>2
  <2>6. Before(last + 1)' = Twin'
    <3>1. last + 1 # 1 /\ last + 1 - 1 = last
      BY <1>2
    <3>2. Before(last + 1)' = IF last + 1 = 1 THEN saved'
                              ELSE trail'[last + 1 - 1].twin
      BY DEF Before
    <3> QED
      BY <3>1, <3>2, <2>2, <2>3
  <2>7. Agrees(Twin', Before(last + 1)')
    BY <2>6 DEF Agrees
  <2>8. TrailIsARun'
    <3>1. Agrees(Twin, Before(Len(trail) + 1))'
      BY <2>2, <2>7
    <3> QED
      BY <3>1, <2>2, <2>5, <1>6 DEF TrailIsARun
  <2>9. LabTypeOK'
    BY <1>1, <1>2, <1>6, <2>2 DEF LabTypeOK, TrailType
  <2> QED
    BY <2>8, <2>9, <1>1, <1>2, <1>4, <1>6 DEF LabInv
<1>7. CASE /\ Repeats /\ pos < Len(trail) /\ pos' = pos + 1
           /\ branch' = branch /\ trail' = trail /\ saved' = saved
  <2>1. pos \in 1 .. Len(trail) /\ pos + 1 \in 1 .. Len(trail)
    BY <1>2, <1>3, <1>7 DEF Repeats
  <2>2. \A n : Before(n)' = Before(n)
    BY <1>7 DEF Before
  <2> PICK next \in Nat : next = pos + 1
    BY <2>1
  <2>3. Before(next)' = Twin'
    <3>1. next # 1 /\ next - 1 = pos
      BY <2>1
    <3> QED
      BY <3>1, <2>2, <1>4, <1>7 DEF Before
  <2>4. Agrees(Twin, Before(pos))'
    <3>1. Agrees(Twin', Before(next)')
      BY <2>3 DEF Agrees
    <3> QED
      BY <3>1, <1>7
  <2>5. TrailIsARun'
    BY <1>3, <1>7, <2>1, <2>2, <2>4 DEF TrailIsARun, Repeats
  <2>6. LabTypeOK'
    BY <1>1, <1>2, <1>7, <2>1 DEF LabTypeOK, TrailType
  <2> QED
    BY <2>5, <2>6, <1>1, <1>2, <1>4, <1>7 DEF LabInv
<1>8. CASE /\ branch' = "live" /\ trail' = <<>> /\ pos' = 0
           /\ saved' = InitialTwin
  <2>1. InitialTwin \in Twins /\ LevelMatches(InitialTwin)
    BY InitialTwinFits
  <2>2. trail' \in TrailType /\ Len(trail') = 0
    BY <1>8 DEF TrailType
  <2>3. LabTypeOK'
    BY <1>1, <1>2, <1>8, <2>1, <2>2 DEF LabTypeOK, TrailType
  <2>4. TrailIsARun'
    BY <1>8, <2>2 DEF TrailIsARun
  <2> QED
    BY <2>1, <2>3, <2>4, <1>1, <1>4, <1>8 DEF LabInv
<1> QED
  BY <1>5, <1>6, <1>7, <1>8

\* Nothing else touches what the next scan depends on but for its inputs,
\* except a restore, which brings back the captured twin.
LEMMA LabBetweenTicks ==
    ASSUME LabInv,
           \/ \E b \in Buttons : Press(b)
           \/ ForceReset \/ LabColdStart \/ Capture \/ Restore
           \/ UNCHANGED labVars
    PROVE  LabInv'
<1>1. /\ Twin \in Twins /\ LevelMatches(Twin)
      /\ coil \in [Buttons -> BOOLEAN]
      /\ saved \in Twins /\ LevelMatches(saved)
      /\ branch \in {"live", "original", "repeat"}
      /\ trail \in TrailType /\ Len(trail) <= MaxTrail /\ Len(trail) \in Nat
      /\ pos \in 0 .. MaxTrail /\ MaxTrail \in Nat /\ MaxTrail > 0
  BY LabAssumption DEF LabInv, LabTypeOK, TrailType
<1>2. TrailIsARun
  BY DEF LabInv
<1>3. ASSUME NEW b \in Buttons, Press(b)
      PROVE  LabInv'
  <2>1. coil' \in [Buttons -> BOOLEAN]
    BY <1>1, <1>3 DEF Press
  <2>2. Twin' = Twin
    BY <1>3 DEF Press, twinVars, Twin
  <2>3. saved' = saved /\ branch' = branch /\ trail' = trail /\ pos' = pos
    BY <1>3 DEF Press
  <2>4. TrailIsARun'
    BY <2>2, <2>3, <1>2 DEF TrailIsARun, Before
  <2> QED
    BY <1>1, <2>1, <2>2, <2>3, <2>4 DEF LabInv, LabTypeOK, TrailType
<1>4. CASE ForceReset \/ LabColdStart
  <2>1. /\ level' = level /\ clock' = clock /\ up' = up /\ down' = down
        /\ coil' = coil /\ saved' = saved /\ branch' = branch
        /\ trail' = trail /\ pos' = pos
    BY <1>4 DEF ForceReset, LabColdStart
  <2>2. /\ bit' \in [DOMAIN NativeBit -> BOOLEAN]
        /\ \A b \in DOMAIN NativeBit \ {"tank_reset"} : bit'[b] = bit[b]
        /\ lit' \in [green : BOOLEAN, red : BOOLEAN]
    <3>1. /\ bit \in [DOMAIN NativeBit -> BOOLEAN]
          /\ lit \in [green : BOOLEAN, red : BOOLEAN]
      BY <1>1 DEF Twin, Twins
    <3>2. CASE ForceReset
      BY <3>1, <3>2 DEF ForceReset
    <3>3. CASE LabColdStart
      <4>1. \A b \in DOMAIN NativeBit : b \in RetentiveBits
        BY LabBits DEF NativeBit, RetentiveBits
      <4>2. \A b \in DOMAIN NativeBit : bit'[b] = bit[b]
        BY <3>3, <4>1 DEF LabColdStart
      <4>3. bit' \in [DOMAIN NativeBit -> BOOLEAN]
        BY <3>1, <3>3, <4>1 DEF LabColdStart
      <4> QED
        BY <3>3, <4>2, <4>3 DEF LabColdStart, Dark
    <3> QED
      BY <1>4, <3>2, <3>3
  <2>3. /\ Twin' \in Twins
        /\ \A other : Agrees(Twin, other) => Agrees(Twin', other)
    BY <1>1, <2>1, <2>2 DEF Twin, Twins, Agrees
  <2>4. LevelMatches(Twin')
    BY <1>1, <2>1, <2>2, LabBits DEF Twin, LevelMatches
  <2>5. TrailIsARun'
    BY <1>2, <2>1, <2>3 DEF TrailIsARun, Before
  <2> QED
    BY <1>1, <2>1, <2>3, <2>4, <2>5 DEF LabInv, LabTypeOK, TrailType
<1>5. CASE Capture
  <2>1. /\ saved' = Twin /\ branch' = "original" /\ Twin' = Twin /\ coil' = coil
        /\ trail' = trail /\ pos' = pos /\ trail = <<>>
    BY <1>2, <1>5 DEF Capture, twinVars, Twin, TrailIsARun
  <2>2. Len(trail') = 0 /\ Len(trail') + 1 = 1
    BY <2>1
  <2>3. Agrees(Twin', Before(Len(trail) + 1)')
    BY <2>1, <2>2 DEF Agrees, Before
  <2>4. TrailIsARun'
    BY <2>1, <2>2, <2>3 DEF TrailIsARun
  <2> QED
    BY <1>1, <2>1, <2>4 DEF LabInv, LabTypeOK, TrailType
<1>6. CASE Restore
  <2>1. /\ saved' = saved /\ branch' = "repeat" /\ coil' = coil
        /\ trail' = trail /\ pos' = 1 /\ Len(trail) = MaxTrail
    BY <1>6 DEF Restore
  <2>2. Twin' = saved
    <3>1. /\ bit' = saved.bit /\ level' = saved.level /\ lit' = saved.lit
          /\ clock' = saved.clock /\ up' = saved.up /\ down' = saved.down
      BY <1>6 DEF Restore, LoadTags, LoadBlocks
    <3>2. saved = [bit |-> saved.bit, level |-> saved.level, lit |-> saved.lit,
                   clock |-> saved.clock, up |-> saved.up, down |-> saved.down]
      BY <1>1 DEF Twins
    <3> QED
      BY <3>1, <3>2 DEF Twin
  <2>3. \A n : Before(n)' = Before(n)
    BY <2>1 DEF Before
  <2>4. Before(1) = saved
    BY DEF Before
  <2>5. Agrees(Twin', Before(1)')
    BY <2>2, <2>3, <2>4 DEF Agrees
  <2>6. TrailIsARun'
    BY <1>1, <1>2, <2>1, <2>3, <2>5 DEF TrailIsARun
  <2> QED
    BY <1>1, <2>1, <2>2, <2>6 DEF LabInv, LabTypeOK, TrailType
<1>7. CASE UNCHANGED labVars
  BY <1>7 DEF labVars, twinVars, LabInv, LabTypeOK, TrailIsARun, Before, Twin
<1> QED
  BY <1>3, <1>4, <1>5, <1>6, <1>7

LEMMA LabInvariant == LabSpec => []LabInv
<1>1. LabInit => LabInv
  <2> SUFFICES ASSUME LabInit PROVE LabInv
    OBVIOUS
  <2>1. Twin = InitialTwin /\ saved = InitialTwin
    BY DEF LabInit, Twin, InitialTwin
  <2>2. /\ coil \in [Buttons -> BOOLEAN] /\ branch = "live" /\ trail = <<>>
        /\ trail \in TrailType /\ Len(trail) = 0 /\ pos = 0
    BY DEF LabInit, TrailType
  <2>3. TrailIsARun
    BY <2>2 DEF TrailIsARun
  <2> QED
    BY <2>1, <2>2, <2>3, InitialTwinFits, LabAssumption
    DEF LabInv, LabTypeOK, TrailType
<1>2. LabInv /\ [LabNext]_labVars => LabInv'
  BY LabTickKeeps, LabBetweenTicks DEF LabNext
<1> QED
  BY <1>1, <1>2, PTL DEF LabSpec

\* The counter stays between empty and one above the tank's top, although it
\* is limited by the permissions of the scan before: over presses, forced
\* resets, cold starts and restores, for any tank and any scan period.
THEOREM LevelStaysInRange == LabSpec => []LevelInRange
<1>1. LabInv => LevelInRange
  BY DEF LabInv, LevelMatches, Twin, LevelInRange
<1> QED
  BY <1>1, LabInvariant, PTL

\* A twin restored from a snapshot and driven as the original was does what
\* the original did, tick by tick, however long the original ran.
THEOREM RestoredRunsAreTheOriginal == LabSpec => RestoredTwinRepeats
<1>1. LabInv /\ [LabNext]_labVars =>
        [LabTick /\ Repeats => Twin' = trail[pos].twin]_labVars
  BY LabTickKeeps
<1> QED
  BY <1>1, LabInvariant, PTL DEF LabSpec, RestoredTwinRepeats
=============================================================================
