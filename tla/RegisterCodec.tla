--------------------------- MODULE RegisterCodec ----------------------------
(***************************************************************************)
(* One value crossing the wire: a tag is encoded with a RegisterMap, the   *)
(* words travel, and the other end decodes them with the same map, to send *)
(* the value on in its turn.                                               *)
(***************************************************************************)
EXTENDS RegisterMap

CONSTANTS
    Regs,       \* the register maps considered
    Sent        \* the tag values considered, negative ones and overflows too

ASSUME CodecAssumption ==
    /\ Regs \subseteq RegisterMaps
    /\ Sent \subseteq Int

VARIABLES
    reg,        \* the channel's register map
    value,      \* the tag's value
    wire,       \* the words on the wire
    place       \* "tag" or "wire"

codecVars == <<reg, value, wire, place>>

Words == 0 .. (WordSize - 1)

CodecInit ==
    /\ reg \in Regs
    /\ value \in Sent
    /\ wire = <<>>
    /\ place = "tag"

Send ==
    /\ place = "tag"
    /\ wire' = Encode(reg, value)
    /\ place' = "wire"
    /\ UNCHANGED <<reg, value>>

Receive ==
    /\ place = "wire"
    /\ value' = Decode(reg, wire)
    /\ wire' = <<>>
    /\ place' = "tag"
    /\ UNCHANGED reg

CodecNext == Send \/ Receive

CodecSpec == CodecInit /\ [][CodecNext]_codecVars

-----------------------------------------------------------------------------
\* Exactly the register's words travel, each within 16 bits: what overflows
\* is masked, never carried into the neighbouring register.
CodecTypeOK ==
    /\ reg \in Regs
    /\ place \in {"tag", "wire"}
    /\ place = "wire" =>
          /\ Len(wire) = reg.length
          /\ \A i \in DOMAIN wire : wire[i] \in Words

Counts(r) == IF r.length = 2 THEN WordSize * WordSize ELSE WordSize

\* A register that resolves the engineering unit (|scale| < 1) returns every
\* value whose count it can hold, whatever the scale and the offset: the two
\* roundings never add up to a unit.  Without scaling nothing is lost but what
\* the register cannot hold: the value wraps modulo its width, so a negative
\* one comes back as its two's complement.
IsWord(r) == r.kind \in WordKinds
Unscaled(r) == r.num = r.den /\ r.off = 0
Resolves(r) == r.num < r.den /\ -r.num < r.den
Holds(r, v) ==
    LET count == RoundHalfEven(v * r.den - r.off, r.num)
    IN  0 <= count /\ count < Counts(r)
ReturnsWhatFits ==
    [][place = "wire" /\ IsWord(reg) =>
          /\ Unscaled(reg) => value' = value % Counts(reg)
          /\ Resolves(reg) /\ Holds(reg, value) => value' = value]_codecVars

\* The bytes as the device sees them go by.
WireBytes(words) ==
    [b \in 1 .. (2 * Len(words)) |->
        LET word == words[(b + 1) \div 2]
        IN  IF b % 2 = 1 THEN word \div Radix ELSE word % Radix]

Other(order) == IF order = "big" THEN "little" ELSE "big"
Flipped(r) == [r EXCEPT !.wordOrder = Other(@), !.byteOrder = Other(@)]

\* The two order options commute: flipping both reverses the bytes on the
\* wire, which is what makes "big, big" and "little, little" the two
\* conventional byte orders of a 32-bit value.
FlippedOrdersReverseBytes ==
    place = "tag" /\ reg.kind \in WordKinds =>
        WireBytes(Encode(Flipped(reg), value)) =
            Reverse(WireBytes(Encode(reg, value)))
=============================================================================
