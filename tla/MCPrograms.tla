----------------------------- MODULE MCPrograms -----------------------------
(***************************************************************************)
(* The twins of the three control programs, one of them at a time: the     *)
(* initial state chooses which.                                            *)
(***************************************************************************)
EXTENDS MotorConveyor, TankTwin, LabTwin

VARIABLE program    \* the twin that runs

MCInit ==
    /\ program \in {"motor_conveyor", "start_stop_tank", "m221_tank_twin"}
    /\ MotorInit /\ TankInit /\ LabInit

RunsConveyor ==
    /\ program = "motor_conveyor"
    /\ MotorNext
    /\ UNCHANGED <<program, tankVars, labVars>>

RunsTank ==
    /\ program = "start_stop_tank"
    /\ TankNext
    /\ UNCHANGED <<program, motorVars, labVars>>

RunsLab ==
    /\ program = "m221_tank_twin"
    /\ LabNext
    /\ UNCHANGED <<program, motorVars, tankVars>>

MCNext == RunsConveyor \/ RunsTank \/ RunsLab

\* The two tanks tick for ever, as in their own specifications.
MCSpec ==
    /\ MCInit
    /\ [][MCNext]_<<program, motorVars, tankVars, labVars>>
    /\ WF_tankVars(program = "start_stop_tank" /\ TankTick)
    /\ WF_labVars(program = "m221_tank_twin" /\ LabTick)
=============================================================================
