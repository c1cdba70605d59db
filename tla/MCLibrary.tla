----------------------------- MODULE MCLibrary ------------------------------
(***************************************************************************)
(* What programs, plants and transports are built from, one kind at a      *)
(* time, chosen by the initial state: the register codec, the instruction  *)
(* blocks and the plant components.                                        *)
(***************************************************************************)
EXTENDS RegisterCodec, InstructionBlocks, PlantComponents

\* Three scales below one, one above it and the unscaled register.
Scalings == {[num |-> 1, den |-> 1, off |-> 0], [num |-> 1, den |-> 2, off |-> 3],
             [num |-> -2, den |-> 3, off |-> 4], [num |-> 3, den |-> 7, off |-> -5],
             [num |-> 5, den |-> 2, off |-> 1]}

Channel(kind, length, wordOrder, byteOrder, s) ==
    [kind |-> kind, address |-> 0, length |-> length, wordOrder |-> wordOrder,
     byteOrder |-> byteOrder, num |-> s.num, den |-> s.den, off |-> s.off]

AllRegs ==
    {Channel("coil", 1, "big", "big", [num |-> 1, den |-> 1, off |-> 0])}
    \cup {Channel("holding_register", n, w, b, s) :
            n \in {1, 2}, w \in Orders, b \in Orders, s \in Scalings}

AroundTheRange == -20 .. 40 \cup 250 .. 270

VARIABLE subject    \* the kind at work

MCInit ==
    /\ BlockInit /\ ComponentInit
    /\ \/ subject = "codec" /\ CodecInit
       \/ /\ subject \in {"blocks", "components"}
          /\ reg = CHOOSE r \in Regs : TRUE
          /\ value = 0 /\ wire = <<>> /\ place = "tag"

Codec ==
    /\ subject = "codec"
    /\ CodecNext
    /\ UNCHANGED <<subject, blockVars, componentVars>>

BlockCalls ==
    /\ subject = "blocks"
    /\ BlockNext
    /\ UNCHANGED <<subject, codecVars, componentVars>>

Components ==
    /\ subject = "components"
    /\ ComponentNext
    /\ UNCHANGED <<subject, codecVars, blockVars>>

MCNext == Codec \/ BlockCalls \/ Components

MCSpec == MCInit /\ [][MCNext]_<<subject, codecVars, blockVars, componentVars>>
=============================================================================
