----------------------------- MODULE LinkAlarm ------------------------------
(***************************************************************************)
(* What the executive promises about one direction of the I/O link: an     *)
(* operator reading the event log sees one entry when an outage begins and *)
(* one when it ends, the latter with the number of scans it lasted, and    *)
(* nothing in between however long the outage is.                          *)
(*                                                                         *)
(* The promise is stated over the whole history of exchanges, without the  *)
(* counter the executive keeps.                                            *)
(***************************************************************************)
EXTENDS OutageLog

VARIABLES
    exchanges,   \* the outcome, "ok" or "failed", of every exchange so far
    log          \* the fault entries an operator reads

Init ==
    /\ exchanges = <<>>
    /\ log = <<>>

Exchange(outcome) ==
    /\ exchanges' = Append(exchanges, outcome)
    /\ log' = AlarmLog(exchanges')

Next == \E outcome \in {"ok", "failed"} : Exchange(outcome)

Spec == Init /\ [][Next]_<<exchanges, log>>
=============================================================================
