------------------------------- MODULE SealIn -------------------------------
(***************************************************************************)
(* The start/stop latch both tank programs open with                       *)
(* (programs/start_stop_tank.py, programs/m221_tank_twin.py): two          *)
(* complementary memory bits, sealed in until the other button is pressed. *)
(***************************************************************************)

\* The latch after a scan that saw these buttons; stop dominates.
SealedIn(run, start, stop) ==
    [start_bit |-> ~stop /\ (start \/ run.start_bit),
     stop_bit |-> stop \/ (~start /\ run.stop_bit)]
=============================================================================
