\* Two declarations at most, on every catalogued profile with up to one wire either
\* way and on inline ones with something of the wrong type; a sound file with one
\* or two sections spoilt; files that load and cannot be run.
CONSTANT Files <- AllFiles
SPECIFICATION Spec
INVARIANTS
    OneTagPerTerminal
    OutcomeIsTheFile
