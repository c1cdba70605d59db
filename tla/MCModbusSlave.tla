--------------------------- MODULE MCModbusSlave ----------------------------
(***************************************************************************)
(* A published and an accepted 32-bit channel of holding registers, and a  *)
(* published coil.  Bytes have two values.                                 *)
(***************************************************************************)
EXTENDS ModbusSlave

Entry(tag, kind, address, length) ==
    [tag |-> tag,
     reg |-> [kind |-> kind, address |-> address, length |-> length,
              wordOrder |-> "big", byteOrder |-> "little",
              num |-> 1, den |-> 1, off |-> 0]]

Readings == << Entry("flow", "holding_register", 0, 2), Entry("alarm", "coil", 0, 1) >>
Setpoints == << Entry("setpoint", "holding_register", 2, 2) >>
Setpoint == [t \in WindowTags |-> IF t = "setpoint" THEN 9 ELSE 0]
=============================================================================
