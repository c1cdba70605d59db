--------------------------- MODULE MCModbusClient ---------------------------
(***************************************************************************)
(* Two-valued bytes, so that a pair of registers counts to sixteen.  The   *)
(* wirings hold abutting channels, a gap, a 32-bit pair and an address     *)
(* nobody claims.                                                          *)
(***************************************************************************)
EXTENDS ModbusClient

Entry(tag, kind, address, length) ==
    [tag |-> tag,
     reg |-> [kind |-> kind, address |-> address, length |-> length,
              wordOrder |-> "little", byteOrder |-> "big",
              num |-> 1, den |-> 1, off |-> 0]]

Abutting == [
    inputs |-> {Entry("level", "input_register", 3, 1),
                Entry("flow", "input_register", 1, 2),
                Entry("float", "discrete_input", 0, 1)},
    outputs |-> {Entry("speed", "holding_register", 2, 2),
                 Entry("valve", "holding_register", 1, 1)} ]

WithGaps == [
    inputs |-> {Entry("flow", "input_register", 2, 2),
                Entry("level", "input_register", 0, 1)},
    outputs |-> {Entry("valve", "holding_register", 2, 1),
                 Entry("pump", "coil", 0, 1), Entry("memory", "coil", 2, 1)} ]

Broken == [
    inputs |-> {Entry("lost", "input_register", 0, 1),
                Entry("float", "discrete_input", 1, 1)},
    outputs |-> {Entry("lost", "coil", 0, 1)} ]

AllWirings == {Abutting, WithGaps, Broken}
=============================================================================
