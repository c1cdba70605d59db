---------------------------- MODULE Instructions ----------------------------
(***************************************************************************)
(* The IEC instruction blocks programs are built from                      *)
(* (digitwin/instructions.py).  A block is an object the program calls     *)
(* once a scan; here each is the record of its attributes and an operator  *)
(* from the record before the call to the record after it.                 *)
(*                                                                         *)
(* Time is counted in whole units: the nanosecond tolerance, which only    *)
(* absorbs the binary rounding of dt, has nothing to do.                   *)
(***************************************************************************)
EXTENDS Naturals

Smaller(a, b) == IF a < b THEN a ELSE b

Timer(preset) == [elapsed : 0 .. preset, q : BOOLEAN]
IdleTimer == [elapsed |-> 0, q |-> FALSE]

\* Mutation: a disabled timer keeps the time it has accumulated.
TONRetentive(t, preset, enable, dt) ==
    LET elapsed == Smaller(preset, t.elapsed + dt)
    IN  IF ~enable THEN [t EXCEPT !.q = FALSE]
        ELSE [elapsed |-> elapsed, q |-> t.q \/ elapsed >= preset]

TON(t, preset, enable, dt) ==
    LET elapsed == Smaller(preset, t.elapsed + dt)
    IN  IF ~enable THEN IdleTimer
        ELSE [elapsed |-> elapsed, q |-> t.q \/ elapsed >= preset]

TOF(t, preset, enable, dt) ==
    LET elapsed == Smaller(preset, t.elapsed + dt)
    IN  IF enable THEN [elapsed |-> 0, q |-> TRUE]
        ELSE IF t.q THEN [elapsed |-> elapsed, q |-> elapsed < preset]
        ELSE t

IdleCounter == [count |-> 0, q |-> FALSE, prev |-> FALSE]

\* Mutation: a reset leaves the edge memory alone.
CTUResetHidesInput(c, preset, cu, reset) ==
    LET count == IF reset THEN 0
                 ELSE IF cu /\ ~c.prev THEN c.count + 1
                 ELSE c.count
    IN  [count |-> count, q |-> count >= preset,
         prev |-> IF reset THEN c.prev ELSE cu]

\* A reset wins over an edge, and swallows it.
CTU(c, preset, cu, reset) ==
    LET count == IF reset THEN 0
                 ELSE IF cu /\ ~c.prev THEN c.count + 1
                 ELSE c.count
    IN  [count |-> count, q |-> count >= preset, prev |-> cu]

\* What a call of ONS returns; the signal is all it remembers.
ONS(prev, signal) == signal /\ ~prev
=============================================================================
