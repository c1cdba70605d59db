---------------------------- MODULE RegisterMap -----------------------------
(***************************************************************************)
(* How a PLC value travels over Modbus (digitwin/adapters/modbus.py): the  *)
(* words RegisterMap.encode puts on the wire and decode reads back, and    *)
(* the grouping of channels into contiguous requests.                      *)
(*                                                                         *)
(* A tag value is an integer (Python's False and True are 0 and 1).  The   *)
(* scale is the rational num / den and the offset off / den; floating      *)
(* point rounding of exact quotients is not modelled.                      *)
(***************************************************************************)
EXTENDS Integers, SequencesExt

CONSTANT Radix      \* the number of values of a byte: 256 on the wire

ASSUME RadixAssumption == Radix \in Nat \ {0, 1}

WordSize == Radix * Radix

BitKinds == {"coil", "discrete_input"}
WordKinds == {"holding_register", "input_register"}
Kinds == BitKinds \cup WordKinds
Orders == {"big", "little"}

\* What RegisterMap.__post_init__ lets through; a zero scale encodes nothing.
RegisterMaps ==
    {reg \in [kind : Kinds, address : Nat, length : {1, 2},
              wordOrder : Orders, byteOrder : Orders,
              num : Int \ {0}, den : Nat \ {0}, off : Int] :
        reg.kind \in BitKinds => reg.length = 1}

\* The registers a channel occupies.
Span(reg) == reg.address .. (reg.address + reg.length - 1)

\* Channels on registers of their own.
Disjoint(e, f) == e.reg.kind = f.reg.kind => Span(e.reg) \cap Span(f.reg) = {}

\* Python's round(a / b).
RoundHalfEven(a, b) ==
    LET n == IF b > 0 THEN a ELSE -a
        d == IF b > 0 THEN b ELSE -b
        q == n \div d
        r == n % d
    IN  IF 2 * r < d \/ (2 * r = d /\ q % 2 = 0) THEN q ELSE q + 1

SwapBytes(word) == (word % Radix) * Radix + (word \div Radix)

\* What travels for a word; the same conversion reads it back.
OnWire(reg, word) == IF reg.byteOrder = "little" THEN SwapBytes(word) ELSE word

\* Mutation: the high word travels first whatever the word order.
BigWords(reg, raw) == <<raw \div WordSize, raw % WordSize>>

\* The two halves of a 32-bit count, in the order they travel.
WordPair(reg, raw) ==
    LET hi == raw \div WordSize
        lo == raw % WordSize
    IN  IF reg.wordOrder = "big" THEN <<hi, lo>> ELSE <<lo, hi>>

\* The count a value becomes; what does not fit in the word wraps around.
Raw(reg, value) ==
    RoundHalfEven(value * reg.den - reg.off, reg.num)
        % (IF reg.length = 2 THEN WordSize * WordSize ELSE WordSize)

Encode(reg, value) ==
    IF reg.kind \in BitKinds
    THEN <<IF value # 0 THEN 1 ELSE 0>>
    ELSE LET words == IF reg.length = 1 THEN <<Raw(reg, value)>>
                      ELSE WordPair(reg, Raw(reg, value))
         IN  [i \in DOMAIN words |-> OnWire(reg, words[i])]

\* Mutation: the offset is subtracted both ways.
DecodeOffsetTwice(reg, words) ==
    IF reg.kind \in BitKinds
    THEN IF words[1] # 0 THEN 1 ELSE 0
    ELSE LET raw == IF reg.length = 1 THEN OnWire(reg, words[1])
                    ELSE OnWire(reg, words[1]) * WordSize + OnWire(reg, words[2])
         IN  RoundHalfEven(raw * reg.num - reg.off, reg.den)

Decode(reg, words) ==
    IF reg.kind \in BitKinds
    THEN IF words[1] # 0 THEN 1 ELSE 0
    ELSE LET word(i) == OnWire(reg, words[i])
             raw == IF reg.length = 1 THEN word(1)
                    ELSE IF reg.wordOrder = "big" THEN word(1) * WordSize + word(2)
                    ELSE word(2) * WordSize + word(1)
         IN  RoundHalfEven(raw * reg.num + reg.off, reg.den)

-----------------------------------------------------------------------------
\* Mutation: a gap of one register is bridged.
BlockStartsPastGaps(entries) ==
    {e.reg.address : e \in {x \in entries :
        \A y \in entries : y.reg.address < x.reg.address =>
            y.reg.address + y.reg.length + 1 < x.reg.address}}

\* In order of address, a channel begins a block if all before it end before it:
\* next_free, the greatest of their ends, is below its address.
BlockStarts(entries) ==
    {e.reg.address : e \in {x \in entries :
        \A y \in entries : y.reg.address < x.reg.address =>
            y.reg.address + y.reg.length < x.reg.address}}

\* _blocks: the channels of one kind, grouped into contiguous address runs.
BlockFrom(entries, start) ==
    {e \in entries :
        /\ e.reg.address >= start
        /\ \A s \in BlockStarts(entries) : s > start => e.reg.address < s}
Blocks(entries) == {BlockFrom(entries, start) : start \in BlockStarts(entries)}

\* A request covers every register of its block.
BlockStart(block) == Min({e.reg.address : e \in block})
BlockSpan(block) ==
    Max({e.reg.address + e.reg.length : e \in block}) - BlockStart(block)
BlockRange(block) == BlockStart(block) .. (BlockStart(block) + BlockSpan(block) - 1)
=============================================================================
