------------------------------ MODULE MCProject ------------------------------
(***************************************************************************)
(* Three kinds of files: on every catalogued model any two declarations    *)
(* out of more than a dozen with any wiring; on inline profiles            *)
(* declarations and profiles with something of the wrong type; and a sound *)
(* file with one or two sections spoilt, in every way their code meets.    *)
(***************************************************************************)
EXTENDS Project, TLC

Declare(name, type, address) ==
    [name |-> name, type |-> type, address |-> address, retentive |-> "default"]

\* Two spellings of one terminal, its neighbour, a terminal of the second
\* byte, areas of every kind, one beyond the M221's channels, addresses of the
\* other syntax, a system bit of the S7-1200, none at all, and a number.
Declarations ==
    {Declare("button", "discrete_input", Dotted("I", 0, 0)),
     Declare("switch", "discrete_input", Padded(Dotted("I", 0, 0))),
     Declare("button", "discrete_input", Dotted("I", 0, 1)),
     Declare("far", "discrete_input", Dotted("I", 1, 0)),
     Declare("past", "discrete_input", Dotted("I", 0, 9)),
     Declare("lamp", "discrete_output", Dotted("Q", 0, 0)),
     Declare("level", "analog_input", Flat("IW", 64)),
     Declare("level", "analog_input", Dotted("IW", 0, 0)),
     Declare("flag", "internal_bit", Dotted("M", 1, 2)),
     Declare("flag", "internal_bit", Flat("M", 12)),
     Declare("mixed", "word", Dotted("I", 0, 0)),
     Declare("odd", "no_such_type", Dotted("I", 0, 0)),
     Declare("memo", "word", NoAddress),
     Declare("adrift", "discrete_input", NoAddress),
     Declare("number", "discrete_input", NotText)}

Wires(addresses) == {{}} \cup {{a} : a \in addresses}

Numbers == [bounds |-> {}, retain |-> {}]
Noop == [inputs |-> {}, others |-> {}]

File(profile, inline, decls, ins, outs) ==
    [profile |-> profile, inline |-> inline, tags |-> decls,
     inputs |-> ins, outputs |-> outs, transport |-> "in_process", dropout |-> FALSE,
     window |-> {}, program |-> Noop, raises |-> <<>>, notNumbers |-> Numbers, lurks |-> {}]

WiredFiles ==
    {File(profile, FALSE, decls, ins, outs) :
        profile \in {Generic, TM221CE16T, S7_1200_CPU1214C},
        decls \in {<<>>} \cup {<<d, e>> : d, e \in Declarations},
        ins \in Wires({Dotted("I", 0, 0), Padded(Dotted("I", 0, 0)), Flat("D", 4)}),
        outs \in Wires({Dotted("Q", 0, 0), Dotted("I", 0, 0)})}

\* Generic, as an inline profile in which something is no number; the tags
\* keep or override what the retain range says.
Overriding(decl, override) == [decl EXCEPT !.retentive = override]
InlineFiles ==
    {[File(profile, TRUE, <<d, Overriding(e, override)>>, {}, {})
        EXCEPT !.notNumbers = odd] :
        profile \in {Generic, MinimalProfile("IEC_DOTTED", 1, 1),
                     MinimalProfile("SIEMENS", 1, 1)},
        d, e \in Declarations, override \in {"default", "yes"},
        odd \in {[Numbers EXCEPT !.bounds = {"I"}], [Numbers EXCEPT !.bounds = {"S"}],
                 [Numbers EXCEPT !.retain = {"M"}]}}

TwoTags == <<Declare("button", "discrete_input", Dotted("I", 0, 0)),
             Declare("lamp", "discrete_output", Dotted("Q", 0, 0))>>
SoundFile == File(Generic, FALSE, TwoTags, {Dotted("I", 0, 0)}, {Dotted("Q", 0, 0)})

\* What the code of each section is seen to raise: a value out of place, one of
\* the wrong type, an integer beyond a float, bytes that are no text, a table's
\* name that is no string.
Defects ==
    [read |-> {"OSError", "UnicodeDecodeError"},
     toml |-> {"TOMLDecodeError", "ValueError", "RecursionError"},
     settings |-> {"ConfigError", "TypeError", "ValueError", "OverflowError"},
     program |-> {"ConfigError", "ValueError"},
     watchdog |-> {"ConfigError", "TypeError", "ValueError", "OverflowError"},
     profile_file |-> {"ConfigError", "OSError", "TOMLDecodeError", "UnicodeDecodeError"},
     profile |-> {"ConfigError", "AddressError", "TypeError"},
     engine |-> {"TypeError", "OverflowError"},
     plant |-> {"ConfigError", "TypeError", "ValueError"},
     transport |-> {"ConfigError", "TypeError", "ValueError"},
     faults |-> {"ConfigError", "TypeError"},
     historian |-> {"ConfigError", "TypeError"},
     historian_sink |-> {"ConfigError", "TypeError", "ValueError", "AttributeError"},
     historian_keys |-> {"ConfigError"},
     events_sink |-> {"ConfigError", "TypeError", "ValueError", "AttributeError"},
     events |-> {"ConfigError"},
     slave |-> {"ConfigError", "TypeError", "ValueError"},
     executive |-> {"ValueError", "TypeError", "OverflowError"}]

\* One section or two out of order.
Raising ==
    LET one == UNION {{s :> e : e \in Defects[s]} : s \in Sections}
    IN  {[SoundFile EXCEPT !.raises = d @@ e, !.inline = TRUE] : d, e \in one}

\* The tick finds what the loader did not, over either transport, with or without
\* a dropout between them and the PLC.
Unready ==
    LET onEither(f) ==
            {[f EXCEPT !.transport = t, !.dropout = b] :
                t \in {"in_process", "modbus_client"}, b \in BOOLEAN}
        unready ==
            {[SoundFile EXCEPT !.lurks = {s}] :
                s \in {"plant", "transport", "faults", "historian", "events", "slave"}}
            \cup {[SoundFile EXCEPT !.program = [inputs |-> i, others |-> o]] :
                    i, o \in {{}, {"button"}, {"lamp"}, {"ghost"}}}
            \cup {[SoundFile EXCEPT !.window = w] : w \in {{"lamp"}, {"lamp", "ghost"}}}
            \cup {[SoundFile EXCEPT !.outputs = {Dotted("I", 0, 0)}]}
    IN  UNION {onEither(f) : f \in unready}

\* Bad addresses, dangling wires and outputs, of a catalogued model and of an
\* inline profile that says no more than it must.
StructuralFiles ==
    WiredFiles \cup
    {[SoundFile EXCEPT !.profile = MinimalProfile(syntax, 1, 1), !.inline = TRUE] :
        syntax \in Syntaxes}

AllFiles == WiredFiles \cup InlineFiles \cup Raising \cup Unready
=============================================================================
