---------------------------- MODULE MCExecutive -----------------------------
(***************************************************************************)
(* The configurations name the tags of small controllers; all start off.   *)
(***************************************************************************)
EXTENDS Executive

AllOff == [t \in Tags |-> FALSE]
=============================================================================
