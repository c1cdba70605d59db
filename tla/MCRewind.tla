------------------------------ MODULE MCRewind ------------------------------
(***************************************************************************)
(* Two tags of two values, in every sample mode.                           *)
(***************************************************************************)
EXTENDS Rewind

CONSTANTS level, flow

LevelThenFlow == <<level, flow>>
=============================================================================
