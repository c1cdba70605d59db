------------------------------ MODULE Hardware -------------------------------
(***************************************************************************)
(* Hardware profiles (digitwin/hardware.py, digitwin/models): the two      *)
(* address syntaxes, the checks an address has to pass, and the catalogue. *)
(*                                                                         *)
(* An address is a spelling: its area prefix, its numbers, and whether the *)
(* last one is padded with zeros, which parses to the same terminal.       *)
(***************************************************************************)
EXTENDS Integers, Sequences

\* The members of AddressArea, by the prefix they are written with.
ChannelAreas == {"I", "Q", "IW", "QW"}
MemoryAreas == {"M", "MW"}
SystemAreas == {"S", "SW"}
Areas == ChannelAreas \cup MemoryAreas \cup SystemAreas

Flat(area, n) == [area |-> area, nums |-> <<n>>, padded |-> FALSE]
Dotted(area, m, n) == [area |-> area, nums |-> <<m, n>>, padded |-> FALSE]
Padded(address) == [address EXCEPT !.padded = TRUE]

Syntaxes == {"IEC_DOTTED", "SIEMENS"}
Addresses == [area : STRING, nums : Seq(Nat), padded : BOOLEAN]

-----------------------------------------------------------------------------
\* What each syntax accepts.  IEC_DOTTED knows module 0 alone; SIEMENS writes
\* bits as byte.bit, and finds the analog inputs at every second word from 64.
Parses(syntax, a) ==
    \/ /\ syntax = "IEC_DOTTED"
       /\ \/ a.area \in ChannelAreas /\ Len(a.nums) = 2 /\ a.nums[1] = 0
          \/ a.area \in Areas \ ChannelAreas /\ Len(a.nums) = 1
    \/ /\ syntax = "SIEMENS"
       /\ \/ a.area \in {"I", "Q", "M"} /\ Len(a.nums) = 2 /\ a.nums[2] <= 7
          \/ a.area = "IW" /\ Len(a.nums) = 1 /\ a.nums[1] >= 64 /\ a.nums[1] % 2 = 0
          \/ a.area = "MW" /\ Len(a.nums) = 1

\* The area and linear index a spelling that parses stands for.
Terminal(syntax, a) ==
    [area |-> a.area,
     index |-> IF syntax = "SIEMENS" /\ Len(a.nums) = 2 THEN a.nums[1] * 8 + a.nums[2]
               ELSE IF syntax = "SIEMENS" /\ a.area = "IW" THEN (a.nums[1] - 64) \div 2
               ELSE a.nums[Len(a.nums)]]

\* format: the one canonical spelling of a terminal.
Spelled(syntax, t) ==
    IF syntax = "IEC_DOTTED"
    THEN IF t.area \in ChannelAreas THEN Dotted(t.area, 0, t.index)
         ELSE Flat(t.area, t.index)
    ELSE IF t.area = "IW" THEN Flat("IW", 64 + 2 * t.index)
    ELSE IF t.area = "MW" THEN Flat("MW", t.index)
    ELSE Dotted(t.area, t.index \div 8, t.index % 8)

Canonical(syntax, a) == Spelled(syntax, Terminal(syntax, a))

-----------------------------------------------------------------------------
\* The areas a tag of a type may live in.
AreaForType ==
    [discrete_input |-> {"I"}, discrete_output |-> {"Q"},
     analog_input |-> {"IW"}, analog_output |-> {"QW"},
     internal_bit |-> {"M", "S"}, word |-> {"MW", "SW"}]

Within(range, n) == range[1] <= n /\ n <= range[2]

\* An area without a declared range, a system area that is, is not checked.
InRange(profile, t) ==
    /\ t.area \in ChannelAreas => t.index < profile.channels[t.area]
    /\ t.area \in DOMAIN profile.ranges => Within(profile.ranges[t.area], t.index)

ValidAddress(profile, a, type) ==
    /\ Parses(profile.syntax, a)
    /\ a.area \in AreaForType[type]
    /\ InRange(profile, Terminal(profile.syntax, a))

IsRetentive(profile, a) ==
    /\ a.area \in DOMAIN profile.retain
    /\ Within(profile.retain[a.area], Terminal(profile.syntax, a).index)

\* The system tags a profile asks for, in the order the PLC defines them;
\* whether they are retentive is left to the profile.
SystemTag(name, type, address) ==
    [name |-> name, type |-> type, address |-> address, retentive |-> "default"]

-----------------------------------------------------------------------------
Generic ==
    [syntax |-> "IEC_DOTTED",
     channels |-> [I |-> 512, Q |-> 512, IW |-> 64, QW |-> 64],
     ranges |-> [M |-> <<0, 8191>>, MW |-> <<0, 8191>>],
     retain |-> <<>>,
     system |-> <<SystemTag("first_scan", "internal_bit", Flat("S", 1)),
                  SystemTag("always_on", "internal_bit", Flat("S", 2)),
                  SystemTag("always_off", "internal_bit", Flat("S", 3)),
                  SystemTag("scan_time_ms", "word", Flat("SW", 0))>>]

TM221CE16T ==
    [syntax |-> "IEC_DOTTED",
     channels |-> [I |-> 9, Q |-> 7, IW |-> 2, QW |-> 0],
     ranges |-> [M |-> <<0, 511>>, MW |-> <<0, 7999>>],
     retain |-> [M |-> <<0, 511>>, MW |-> <<0, 1999>>],
     system |-> <<SystemTag("first_scan", "internal_bit", Flat("S", 13)),
                  SystemTag("scan_time_ms", "word", Flat("SW", 30))>>]

\* Its system tags are ordinary memory bits.
S7_1200_CPU1214C ==
    [syntax |-> "SIEMENS",
     channels |-> [I |-> 14, Q |-> 10, IW |-> 2, QW |-> 0],
     ranges |-> [M |-> <<0, 65535>>, MW |-> <<0, 8190>>],
     retain |-> <<>>,
     system |-> <<SystemTag("first_scan", "internal_bit", Dotted("M", 1, 0)),
                  SystemTag("always_on", "internal_bit", Dotted("M", 1, 2)),
                  SystemTag("always_off", "internal_bit", Dotted("M", 1, 3))>>]

\* from_mapping with the fields a profile must have and a syntax: the others
\* take their defaults, first_scan_bit "%S13" with them.
MinimalProfile(syntax, inputs, outputs) ==
    [syntax |-> syntax,
     channels |-> [I |-> inputs, Q |-> outputs, IW |-> 0, QW |-> 0],
     ranges |-> [M |-> <<0, 0>>, MW |-> <<0, 0>>],
     retain |-> <<>>,
     system |-> <<SystemTag("first_scan", "internal_bit", Flat("S", 13))>>]
=============================================================================
