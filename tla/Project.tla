------------------------------- MODULE Project -------------------------------
(***************************************************************************)
(* A project file becomes a twin (digitwin/config.py): load_project reads  *)
(* the file, builds the PLC with its system tags, defines the tags one by  *)
(* one, builds the plant, the transport, the faults, the observers and the *)
(* slave's window, and the executive; then the twin ticks, and the         *)
(* in-process transport or the Modbus client resolves the wired terminals  *)
(* to tags at every exchange, and the program reaches for its own.         *)
(*                                                                         *)
(* A file is what its sections say of the control.  A section whose        *)
(* content matters here (profile, tags, wiring, window, program) is spelt  *)
(* out; of the others it matters which exception, if any, their builder    *)
(* meets, and which of them its except clauses turn into a ConfigError.    *)
(***************************************************************************)
EXTENDS Hardware, FiniteSets

CONSTANT Files      \* the project files considered

\* What a tag declared without an address has in its place, and one whose
\* address is no string.
NoAddress == [area |-> "none"]
NotText == Flat("not a string", 0)

InputTypes == {"discrete_input", "analog_input"}
OutputTypes == {"discrete_output", "analog_output"}
PhysicalTypes == InputTypes \cup OutputTypes

\* What `except ValueError` catches.
ValueErrors == {"ValueError", "ConfigError", "AddressError", "TOMLDecodeError",
                "UnicodeDecodeError"}
WrongValues == ValueErrors \cup {"TypeError"}

\* The exceptions the code of a section turns into a ConfigError.
Handled ==
    [read |-> {"OSError"}, toml |-> {"TOMLDecodeError"},
     settings |-> WrongValues, program |-> ValueErrors, watchdog |-> WrongValues,
     profile_file |-> {"OSError", "TOMLDecodeError"}, profile |-> ValueErrors,
     engine |-> {},
     plant |-> WrongValues, transport |-> WrongValues, faults |-> WrongValues,
     historian |-> {}, historian_sink |-> WrongValues, historian_keys |-> {},
     events_sink |-> WrongValues, events |-> {},
     slave |-> WrongValues \cup {"KeyError"}, executive |-> {}]
Sections == DOMAIN Handled

IsHandled(section, exception) ==
    exception = "ConfigError" \/ exception \in Handled[section]

Declares ==
    [name : STRING, type : STRING, address : Addresses \cup {NoAddress},
     retentive : {"default", "yes", "no"}]

\* What can be said of declarations without an order among them: each may stand
\* on the hardware, if its address is one, and no two share a name or a terminal.
WellDeclared(profile, d) ==
    /\ d.type \in DOMAIN AreaForType
    /\ d.address = NoAddress => d.type \notin PhysicalTypes
    /\ d.address \notin {NoAddress, NotText} => ValidAddress(profile, d.address, d.type)
Collide(profile, d, e) ==
    \/ d.name = e.name
    \/ /\ {d.address, e.address} \cap {NoAddress, NotText} = {}
       /\ Terminal(profile.syntax, d.address) = Terminal(profile.syntax, e.address)
SoundDeclarations(profile, decls) ==
    /\ \A i \in DOMAIN decls : WellDeclared(profile, decls[i])
    /\ \A i, j \in DOMAIN decls : i # j => ~Collide(profile, decls[i], decls[j])

\* raises: the exception the builder of a section meets, where it meets one;
\* notNumbers: the areas whose bounds or retain range an inline profile gives as
\* something else than numbers; lurks: the sections with a value that is only
\* looked at in a tick.  The catalogue's own profiles and system tags are sound.
ASSUME FilesAssumption ==
    \A f \in Files :
        /\ DOMAIN f.raises \subseteq Sections
        /\ f.tags \in Seq(Declares)
        /\ f.profile.syntax \in Syntaxes /\ f.profile.system \in Seq(Declares)
        /\ ~f.inline => /\ SoundDeclarations(f.profile, f.profile.system)
                        /\ \A i \in DOMAIN f.profile.system :
                              f.profile.system[i].address # NotText
                        /\ f.notNumbers.bounds = {} /\ f.notNumbers.retain = {}
        /\ f.inputs \cup f.outputs \subseteq Addresses

VARIABLES
    file,           \* the project file
    stage,          \* the section to look at next; "ticking" once loaded
    done,           \* how many declarations define_tag has taken
    tags,           \* PLC.tags: from names to what define_tag stored
    addressed,      \* PLC._addressed: from canonical addresses to names
    result          \* "loading", "config_error", "loaded", or "raised" when
                    \* any other exception reaches the user

vars == <<file, stage, done, tags, addressed, result>>

Init ==
    /\ file \in Files
    /\ stage = "read"
    /\ done = 0
    /\ tags = <<>>
    /\ addressed = <<>>
    /\ result = "loading"

-----------------------------------------------------------------------------
ConfigError ==
    /\ result' = "config_error"
    /\ UNCHANGED <<file, stage, done, tags, addressed>>

Raises ==
    /\ result' = "raised"
    /\ UNCHANGED <<file, stage, done, tags, addressed>>

\* An exception met in a section: caught, and raised again as a ConfigError, or
\* left to reach the user.
Fails(section, exception) ==
    \/ IsHandled(section, exception) /\ ConfigError
    \/ ~IsHandled(section, exception) /\ Raises

GoesTo(next) ==
    /\ stage' = next
    /\ UNCHANGED <<file, done, tags, addressed, result>>

\* One section looked at.
Looks(section, next) ==
    /\ stage = section /\ result = "loading"
    /\ \/ section \in DOMAIN file.raises /\ Fails(section, file.raises[section])
       \/ section \notin DOMAIN file.raises /\ GoesTo(next)

\* The text, its TOML, and the version with the [executive] table.
ReadFile ==
    \/ Looks("read", "toml") \/ Looks("toml", "settings")
    \/ Looks("settings", "program")

-----------------------------------------------------------------------------
\* The type is no TagType, or define_tag raises ValueError or its subclass
\* AddressError.  A bound that is no number is compared with before the check
\* for an owner, a retain range after it.
Rejected(decl) ==
    \/ decl.type \notin DOMAIN AreaForType
    \/ decl.name \in DOMAIN tags
    \/ decl.address = NoAddress /\ decl.type \in PhysicalTypes
    \/ /\ decl.address \notin {NoAddress, NotText} /\ decl.type \in DOMAIN AreaForType
       /\ \/ ~Parses(file.profile.syntax, decl.address)
          \/ decl.address.area \notin AreaForType[decl.type]
          \/ /\ decl.address.area \notin file.notNumbers.bounds
             /\ \/ ~InRange(file.profile, Terminal(file.profile.syntax, decl.address))
                \/ Canonical(file.profile.syntax, decl.address) \in DOMAIN addressed

\* A value of the wrong type that define_tag takes apart or compares with.
Mistyped(decl) ==
    \/ decl.address = NotText
    \/ /\ decl.address # NoAddress
       /\ \/ decl.address.area \in file.notNumbers.bounds
          \/ decl.retentive = "default" /\ decl.address.area \in file.notNumbers.retain

Accepted(decl) == ~Rejected(decl) /\ ~Mistyped(decl)

Extended(f, key, val) == [k \in DOMAIN f \cup {key} |-> IF k = key THEN val ELSE f[k]]

Stored(decl) ==
    [type |-> decl.type, address |-> decl.address,
     retentive |-> \/ decl.retentive = "yes"
                   \/ /\ decl.retentive = "default" /\ decl.address # NoAddress
                      /\ IsRetentive(file.profile, decl.address)]

\* Mutation: the claim is kept under the address as it was spelt.
DefineTagBySpelling(decl) ==
    /\ tags' = Extended(tags, decl.name, Stored(decl))
    /\ addressed' = IF decl.address = NoAddress THEN addressed
                    ELSE Extended(addressed, decl.address, decl.name)

\* define_tag, for a declaration that is accepted.
DefineTag(decl) ==
    /\ tags' = Extended(tags, decl.name, Stored(decl))
    /\ addressed' = IF decl.address = NoAddress THEN addressed
                    ELSE Extended(addressed, Canonical(file.profile.syntax, decl.address),
                                  decl.name)

\* The system tags of the profile, in the order the PLC defines them, then the
\* tags of the file.
Declared == file.profile.system \o file.tags
Upcoming == Declared[done + 1]

Takes ==
    /\ Accepted(Upcoming)
    /\ DefineTag(Upcoming)
    /\ done' = done + 1
    /\ UNCHANGED <<file, stage, result>>

\* _define_system_tags, from the PLC's constructor: for an inline profile no
\* try surrounds it.
DefineSystemTags ==
    /\ stage = "system" /\ result = "loading"
    /\ \/ done = Len(file.profile.system) /\ GoesTo("tags")
       \/ done < Len(file.profile.system) /\ Takes
       \/ done < Len(file.profile.system) /\ ~Accepted(Upcoming) /\ Raises

\* _build_plc: the program by its name, the watchdog's time and the one source
\* of the profile, the profile (the model's, the inline one or that of a file),
\* the PLC.
BuildPlc ==
    \/ Looks("program", "watchdog") \/ Looks("watchdog", "profile_file")
    \/ Looks("profile_file", "profile") \/ Looks("profile", "engine")
    \/ Looks("engine", "system")
    \/ DefineSystemTags

\* _define_tags: the tags of the file, after the system tags.  Of what
\* define_tag raises only ValueErrors are caught.
DefineTags ==
    /\ stage = "tags" /\ result = "loading"
    /\ \/ done = Len(Declared) /\ GoesTo("plant")
       \/ /\ done < Len(Declared)
          /\ \/ Takes
             \/ Rejected(Upcoming) /\ ConfigError
             \/ ~Rejected(Upcoming) /\ Mistyped(Upcoming) /\ Raises

-----------------------------------------------------------------------------
BuildPlant == Looks("plant", "transport")

\* The terminals the wiring names are not looked up here.
BuildTransport == Looks("transport", "faults")

BuildFaults == Looks("faults", "historian")

\* _historian_from and _events_from, each with its sink before the keys it does
\* not know.
BuildObservers ==
    \/ Looks("historian", "historian_sink") \/ Looks("historian_sink", "historian_keys")
    \/ Looks("historian_keys", "events_sink")
    \/ Looks("events_sink", "events") \/ Looks("events", "slave")

\* Mutation: the window's KeyError is not caught.
BuildSlaveLetsKeyErrorOut ==
    \/ Looks("slave", "window")
    \/ /\ stage = "window" /\ result = "loading"
       /\ \/ file.window \subseteq DOMAIN tags /\ GoesTo("executive")
          \/ file.window \ DOMAIN tags # {} /\ Raises

\* _build_modbus_slave: the register maps, then the tags the window names.
BuildSlave ==
    \/ Looks("slave", "window")
    \/ /\ stage = "window" /\ result = "loading"
       /\ \/ file.window \subseteq DOMAIN tags /\ GoesTo("executive")
          \/ file.window \ DOMAIN tags # {} /\ Fails("slave", "KeyError")

\* Executive.__post_init__ refuses a dt the hardware cannot scan at.
BuildExecutive ==
    /\ stage = "executive" /\ result = "loading"
    /\ \/ /\ "executive" \in DOMAIN file.raises
          /\ Fails("executive", file.raises["executive"])
       \/ /\ "executive" \notin DOMAIN file.raises
          /\ stage' = "ticking"
          /\ result' = "loaded"
          /\ UNCHANGED <<file, done, tags, addressed>>

-----------------------------------------------------------------------------
\* PLC.tag_at, for an address that parses: the tag at the terminal, if any.
TagAt(a) ==
    LET canonical == Canonical(file.profile.syntax, a)
    IN  IF canonical \in DOMAIN addressed THEN {addressed[canonical]} ELSE {}

Resolves(a) == Parses(file.profile.syntax, a) /\ TagAt(a) # {}

\* The output values handed over are those of the output tags; the client
\* passes over what is not among them.
Writes(a) ==
    /\ Resolves(a)
    /\ file.transport = "in_process" => \A t \in TagAt(a) : tags[t].type \in OutputTypes

Exchanges == (\A a \in file.inputs : Resolves(a)) /\ (\A a \in file.outputs : Writes(a))

\* The input image holds the input tags, the table all of them.
ProgramFindsItsTags ==
    /\ file.program.inputs \subseteq {n \in DOMAIN tags : tags[n].type \in InputTypes}
    /\ file.program.others \subseteq DOMAIN tags

\* A tick: the plant and the faults stepped, the inputs resolved, the program's
\* scan, the outputs.  An exchange that fails, or is dropped by a fault, resolves
\* nothing, and the executive goes on.  A scan need not come to a tag the program
\* lacks, nor a tick to a value that cannot be computed with.
Tick ==
    /\ stage = "ticking" /\ result = "loaded"
    /\ \/ (Exchanges \/ file.transport = "modbus_client" \/ file.dropout) /\ UNCHANGED vars
       \/ ~Exchanges /\ Raises
       \/ ~ProgramFindsItsTags /\ Raises
       \/ file.lurks # {} /\ Raises

\* The load has failed, or the run has: there is no twin.
Ended == result \in {"config_error", "raised"} /\ UNCHANGED vars

Next ==
    \/ ReadFile \/ BuildPlc \/ DefineTags \/ BuildPlant \/ BuildTransport
    \/ BuildFaults \/ BuildObservers \/ BuildSlave \/ BuildExecutive
    \/ Tick \/ Ended

Spec == Init /\ [][Next]_vars

-----------------------------------------------------------------------------
(***************************************************************************)
(* Properties                                                              *)
(***************************************************************************)

Place(a) == Terminal(file.profile.syntax, a)
Addressed(n) == tags[n].address # NoAddress

\* The tags declared at the terminal an address stands for.
At(a) ==
    {n \in DOMAIN tags : /\ Addressed(n) /\ Parses(file.profile.syntax, a)
                         /\ Place(tags[n].address) = Place(a)}

\* A terminal has one tag, however its address is spelt, and the claims the
\* PLC keeps are those of its tags: each canonical address parses back to the
\* terminal of the tag it is kept for.  A wired terminal finds the tag declared
\* there, in whichever spelling the wiring names it.
OneTagPerTerminal ==
    /\ \A n, m \in DOMAIN tags :
          Addressed(n) /\ Addressed(m) /\ Place(tags[n].address) = Place(tags[m].address)
              => n = m
    /\ \A c \in DOMAIN addressed : Place(c) = Place(tags[addressed[c]].address)
    /\ Cardinality(DOMAIN addressed) = Cardinality({n \in DOMAIN tags : Addressed(n)})
    /\ \A a \in file.inputs \cup file.outputs :
          Parses(file.profile.syntax, a) => TagAt(a) = At(a)

\* What the loader accepts of a file, said of the file as a whole: no builder
\* meets an exception, and the declarations, the system tags first, neither
\* share a name nor a terminal nor are mistyped.
Names(decls) == {decls[i].name : i \in DOMAIN decls}
Sound ==
    /\ DOMAIN file.raises = {}
    /\ SoundDeclarations(file.profile, Declared)
    /\ \A i \in DOMAIN Declared : ~Mistyped(Declared[i])
    /\ file.window \subseteq Names(Declared)

\* What is wrong with a file in a way its builders look out for.
Reported ==
    \/ \E s \in DOMAIN file.raises : IsHandled(s, file.raises[s])
    \/ ~SoundDeclarations(file.profile, Declared)
    \/ ~(file.window \subseteq Names(Declared))

\* What is wrong with it in a way they do not: an exception their except
\* clauses miss, declarations that are mistyped, the system bits of an inline
\* profile.
Missed ==
    \/ \E s \in DOMAIN file.raises : ~IsHandled(s, file.raises[s])
    \/ \E i \in DOMAIN Declared : Mistyped(Declared[i])
    \/ file.inline /\ ~SoundDeclarations(file.profile, file.profile.system)

\* What a sound file can still have wrong: wiring to terminals no tag is
\* declared at, outputs to what is no output, tags its program lacks, and
\* values no builder looks at.
Unrunnable ==
    \/ \E a \in file.inputs \cup file.outputs : At(a) = {}
    \/ /\ file.transport = "in_process"
       /\ \E a \in file.outputs : \A n \in At(a) : tags[n].type \notin OutputTypes
    \/ ~(file.program.inputs \subseteq {n \in DOMAIN tags : tags[n].type \in InputTypes})
    \/ ~(file.program.others \subseteq DOMAIN tags)
    \/ file.lurks # {}

\* What becomes of a file is a matter of the file as a whole, whatever the order
\* of its sections and declarations: what loads is sound; what is rejected has
\* something wrong that its builders look out for; another exception reaches
\* the user while loading only where the builders miss something, and from a
\* tick only where a sound file cannot run.
OutcomeIsTheFile ==
    /\ result = "loaded" => Sound
    /\ result = "config_error" => Reported
    /\ result = "raised" => IF stage = "ticking" THEN Sound /\ Unrunnable ELSE Missed

-----------------------------------------------------------------------------
(***************************************************************************)
(* Why they hold                                                           *)
(***************************************************************************)

\* The declarations taken so far, and those of them with an address.
Taken == 1 .. done
Claiming == {i \in Taken : Declared[i].address # NoAddress}
Claim(i) == Canonical(file.profile.syntax, Declared[i].address)

\* The two tables say of the declarations taken so far all that define_tag
\* needs to know of them.
TableInv ==
    /\ file \in Files
    /\ done \in Nat
    /\ done <= Len(Declared)
    /\ DOMAIN tags = {Declared[i].name : i \in Taken}
    /\ \A i \in Taken : /\ WellDeclared(file.profile, Declared[i])
                        /\ ~Mistyped(Declared[i])
                        /\ tags[Declared[i].name] = Stored(Declared[i])
    /\ \A i, j \in Taken : Declared[i].name = Declared[j].name => i = j
    /\ DOMAIN addressed = {Claim(i) : i \in Claiming}
    /\ \A i \in Claiming : addressed[Claim(i)] = Declared[i].name

\* As many claims as tags with an address.
CountInv ==
    LET claimed == {n \in DOMAIN tags : Addressed(n)}
    IN  /\ IsFiniteSet(DOMAIN addressed) /\ IsFiniteSet(claimed)
        /\ Cardinality(DOMAIN addressed) = Cardinality(claimed)

\* When the loader comes to a section.
Turn ==
    [read |-> 1, toml |-> 2, settings |-> 3, program |-> 4, watchdog |-> 5,
     profile_file |-> 6, profile |-> 7, engine |-> 8, system |-> 9, tags |-> 10,
     plant |-> 11, transport |-> 12, faults |-> 13, historian |-> 14,
     historian_sink |-> 15, historian_keys |-> 16, events_sink |-> 17, events |-> 18,
     slave |-> 19, window |-> 20, executive |-> 21, ticking |-> 22]

\* What is wrong with a file that has come to a stage is still before it.
StageInv ==
    /\ stage \in DOMAIN Turn
    /\ \A s \in DOMAIN file.raises : Turn[stage] <= Turn[s]
    /\ Turn[stage] <= Turn["system"] => done <= Len(file.profile.system)
    /\ Turn[stage] > Turn["tags"] => done = Len(Declared)
    /\ Turn[stage] > Turn["window"] => file.window \subseteq DOMAIN tags
    /\ result = "loaded" => stage = "ticking"

\* Every structural problem raises ConfigError at load time, never a stack
\* trace mid-run (config.py:19-22).
ProblemsAreConfigErrors == result # "raised"
=============================================================================
