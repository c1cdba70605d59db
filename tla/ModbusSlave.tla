---------------------------- MODULE ModbusSlave -----------------------------
(***************************************************************************)
(* The twin as a Modbus slave (ModbusSlaveServer): an operator window onto *)
(* the tag table.  Once a tick, after the scan, sync() publishes tags into *)
(* a register store and then absorbs commands out of it, one tag at a      *)
(* time.  The server thread answers a remote master from the same store at *)
(* any moment in between: the store's lock makes one tag's registers, and  *)
(* one request, atomic, and nothing more.                                  *)
(*                                                                         *)
(* The remote master and pymodbus's server are external.                   *)
(***************************************************************************)
EXTENDS RegisterMap

CONSTANTS
    Publish,        \* the publish map: a sequence of [tag, reg]
    Accept,         \* the accept map: a sequence of [tag, reg]
    ProgramValues,  \* what the program and the plant make of the published tags
    InitialTag,     \* the value every tag has when the server is built
    Commands,       \* what the remote master writes
    MaxWrites       \* bound on the master's writes

Published == {e.tag : e \in ToSet(Publish)}
Accepted == {e.tag : e \in ToSet(Accept)}
WindowTags == Published \cup Accepted
Entries == ToSet(Publish) \cup ToSet(Accept)

\* The maps hold valid registers, and accept is confined to the kinds Modbus
\* can write.
ASSUME WindowAssumption ==
    /\ Publish \in Seq([tag : Published, reg : RegisterMaps])
    /\ Accept \in Seq([tag : Accepted, reg : RegisterMaps])
    /\ \A e \in ToSet(Accept) : e.reg.kind \in {"coil", "holding_register"}
    /\ InitialTag \in [WindowTags -> Int]

VARIABLES
    value,      \* plc.tags[t].value
    store,      \* the register file; absent addresses read as 0
    pc,         \* "scan", "publish" or "accept"
    next,       \* the position sync() has reached in the map at hand
    thread,     \* _thread is not None
    socket      \* the listening socket: "none", "binding", "serving" or "dead"

\* History, for the properties alone.
VARIABLES
    written,    \* the last whole value the master wrote to each accepted tag, as a set
    absorbed,   \* written, as sync() found it when it absorbed the tag
    settled,    \* each published tag's values after the last scan and the one before
    stray,      \* the published channels the master wrote to since they were published
    writesDone

serverVars == <<thread, socket>>
history == <<written, absorbed, settled, stray, writesDone>>
vars == <<value, store, pc, next, serverVars, history>>

Places == UNION {{<<e.reg.kind, a>> : a \in Span(e.reg)} : e \in Entries}

Load(e, s) == [i \in 1 .. e.reg.length |-> s[<<e.reg.kind, e.reg.address + i - 1>>]]
Stored(e) == Decode(e.reg, Load(e, store))

Put(e, v, s) ==
    [p \in DOMAIN s |->
        IF p[1] = e.reg.kind /\ p[2] \in Span(e.reg)
        THEN Encode(e.reg, v)[p[2] - e.reg.address + 1]
        ELSE s[p]]

TypeOK ==
    /\ value \in [WindowTags -> Int]
    /\ store \in [Places -> 0 .. (WordSize - 1)]
    /\ pc \in {"scan", "publish", "accept"}
    /\ next \in 1 .. Max({Len(Publish), Len(Accept), 1})
    /\ thread \in BOOLEAN
    /\ socket \in {"none", "binding", "serving", "dead"}

Init ==
    /\ value = InitialTag
    /\ store = [p \in Places |-> 0]
    /\ pc = "scan"
    /\ next = 1
    /\ thread = FALSE
    /\ socket = "none"
    /\ written = [t \in Accepted |-> {}]
    /\ absorbed = [t \in Accepted |-> {}]
    /\ settled = [t \in Published |-> {InitialTag[t]}]
    /\ stray = Published
    /\ writesDone = 0

-----------------------------------------------------------------------------

\* Where sync() goes once it is done with one tag of a map: on in the map,
\* to the next map that is not empty, or back to the scan loop.
Advance(map, after) ==
    IF next < Len(map)
    THEN /\ next' = next + 1
         /\ UNCHANGED pc
    ELSE /\ next' = 1
         /\ pc' = after

\* Mutation: the accept map is skipped.
NeverAccept == "scan"

AfterPublish == IF Accept = <<>> THEN "scan" ELSE "accept"

\* A tick up to _observe: the scan leaves the published tags as it likes, and
\* may also consume a command (a program that clears a start button).
Scan ==
    /\ pc = "scan"
    /\ \E v \in [Published -> ProgramValues], cleared \in SUBSET (Accepted \ Published) :
          /\ value' = [t \in WindowTags |->
                          IF t \in Published THEN v[t]
                          ELSE IF t \in cleared THEN 0
                          ELSE value[t]]
          /\ settled' = [t \in Published |-> {v[t], value[t]}]
    /\ pc' = IF Publish = <<>> THEN AfterPublish ELSE "publish"
    /\ UNCHANGED <<store, next, serverVars, written, absorbed, stray, writesDone>>

\* Mutation: a tag the scan left alone is not published again.
PublishTagOnChange ==
    /\ pc = "publish"
    /\ store' = IF settled[Publish[next].tag] = {value[Publish[next].tag]} THEN store
                ELSE Put(Publish[next], value[Publish[next].tag], store)
    /\ stray' = stray \ {Publish[next].tag}
    /\ Advance(Publish, AfterPublish)
    /\ UNCHANGED <<value, serverVars, written, absorbed, settled, writesDone>>

PublishTag ==
    /\ pc = "publish"
    /\ store' = Put(Publish[next], value[Publish[next].tag], store)
    /\ stray' = stray \ {Publish[next].tag}
    /\ Advance(Publish, AfterPublish)
    /\ UNCHANGED <<value, serverVars, written, absorbed, settled, writesDone>>

\* Mutation: the words are read in the opposite order.
AcceptTagReversed ==
    /\ pc = "accept"
    /\ value' = [value EXCEPT ![Accept[next].tag] =
                    Decode(Accept[next].reg, Reverse(Load(Accept[next], store)))]
    /\ absorbed' = [absorbed EXCEPT ![Accept[next].tag] = written[Accept[next].tag]]
    /\ Advance(Accept, "scan")
    /\ UNCHANGED <<store, serverVars, written, settled, stray, writesDone>>

AcceptTag ==
    /\ pc = "accept"
    /\ value' = [value EXCEPT ![Accept[next].tag] = Stored(Accept[next])]
    /\ absorbed' = [absorbed EXCEPT ![Accept[next].tag] = written[Accept[next].tag]]
    /\ Advance(Accept, "scan")
    /\ UNCHANGED <<store, serverVars, written, settled, stray, writesDone>>

-----------------------------------------------------------------------------
\* start() returns at once while a thread is remembered, dead or not.  A
\* socket that a forgotten thread still holds keeps serving.
Start ==
    /\ ~thread
    /\ thread' = TRUE
    /\ socket' = IF socket = "serving" THEN "serving" ELSE "binding"
    /\ UNCHANGED <<value, store, pc, next, history>>

\* The thread binds the port, or dies of it.
Bind ==
    /\ socket = "binding"
    /\ socket' \in {"serving", "dead"}
    /\ UNCHANGED <<value, store, pc, next, thread, history>>

\* stop() on a server that serves, and on one that does not: pymodbus's
\* ServerStop may then raise, or return and let the thread be forgotten.
Stop ==
    /\ thread
    /\ \/ /\ socket = "serving"
          /\ socket' = "none"
          /\ thread' = FALSE
       \/ /\ socket # "serving"
          /\ thread' \in BOOLEAN
          /\ UNCHANGED socket
    /\ UNCHANGED <<value, store, pc, next, history>>

\* The published channels a write to the registers of e runs into.
Overrun(e) ==
    {p.tag : p \in {x \in ToSet(Publish) :
                      x.reg.kind = e.reg.kind /\ Span(x.reg) \cap Span(e.reg) # {}}}

\* One write request covering a whole channel, an accepted one or, against
\* the operator's instructions, a published one.
MasterWrites ==
    /\ socket = "serving"
    /\ writesDone < MaxWrites
    /\ \E e \in Entries, c \in Commands :
          /\ e.reg.kind \in {"coil", "holding_register"}
          /\ store' = Put(e, c, store)
          /\ stray' = stray \cup Overrun(e)
          /\ written' = IF e.tag \in Accepted
                        THEN [written EXCEPT ![e.tag] = {Decode(e.reg, Encode(e.reg, c))}]
                        ELSE written
    /\ writesDone' = writesDone + 1
    /\ UNCHANGED <<value, pc, next, serverVars, absorbed, settled>>

Sync == Scan \/ PublishTag \/ AcceptTag

Next == Sync \/ Start \/ Bind \/ Stop \/ MasterWrites

\* The executive keeps ticking; the server and the master owe nothing.
Spec == Init /\ [][Next]_vars /\ WF_vars(Sync)

-----------------------------------------------------------------------------
\* Maps of which no two entries share a tag or a register, the use the two maps
\* are made for.  Nothing enforces it: a tag under two entries, or two channels
\* over one register, overwrite each other at every sync().
Apart(e, f) ==
    /\ e.tag # f.tag
    /\ Disjoint(e, f)
Separate ==
    /\ \A i, j \in DOMAIN Publish : i # j => Apart(Publish[i], Publish[j])
    /\ \A i, j \in DOMAIN Accept : i # j => Apart(Accept[i], Accept[j])
    /\ \A i \in DOMAIN Publish, j \in DOMAIN Accept : Apart(Publish[i], Accept[j])

\* Where sync() is.
Position ==
    /\ pc \in {"scan", "publish", "accept"}
    /\ pc = "scan" => next = 1
    /\ pc = "publish" => next \in DOMAIN Publish
    /\ pc = "accept" => next \in DOMAIN Accept

\* What the registers of an accepted channel hold is the last command, and
\* what sync() has absorbed of it since the scan is in the tag.
CommandsInv ==
    /\ \A j \in DOMAIN Accept :
          LET t == Accept[j].tag
          IN  /\ written[t] # {} => Stored(Accept[j]) \in written[t]
              /\ pc = "scan" \/ (pc = "accept" /\ j < next) =>
                    (absorbed[t] # {} => value[t] \in absorbed[t])
    /\ DOMAIN value = WindowTags /\ DOMAIN store = Places
    /\ DOMAIN written = Accepted /\ DOMAIN absorbed = Accepted

\* What the registers of a published channel hold is one of the values of the
\* last two scans, and the present one once sync() has come past it.
WindowInv ==
    /\ \A i \in DOMAIN Publish :
          LET t == Publish[i].tag
              words == Load(Publish[i], store)
          IN  /\ value[t] \in settled[t]
              /\ t \notin stray =>
                    /\ \E v \in settled[t] : words = Encode(Publish[i].reg, v)
                    /\ pc # "publish" \/ i < next =>
                          words = Encode(Publish[i].reg, value[t])
    /\ DOMAIN value = WindowTags /\ DOMAIN store = Places
    /\ DOMAIN settled = Published

-----------------------------------------------------------------------------
(***************************************************************************)
(* Properties                                                              *)
(***************************************************************************)

\* A tag never holds half a command: what sync() absorbs is the last whole
\* value the master wrote, even if the master writes while sync() runs.
CommandsAreWhole ==
    pc = "scan" =>
        \A t \in Accepted : absorbed[t] # {} => value[t] \in absorbed[t]

\* Whatever the master reads for a published tag in one request is the value
\* of the tag after the last scan or, while sync() is under way, the one
\* before; never half of each, and never what a stray write left there once
\* it was published again.
WindowIsRecent ==
    \A e \in ToSet(Publish) :
        e.tag \notin stray =>
            /\ \E v \in settled[e.tag] : Load(e, store) = Encode(e.reg, v)
            /\ pc \in {"scan", "accept"} => Load(e, store) = Encode(e.reg, value[e.tag])

\* A command the master leaves standing reaches its tag: sync() never starves
\* or overtakes it.
CommandsArrive ==
    \A e \in ToSet(Accept) : \A c \in Commands :
        LET got == Decode(e.reg, Encode(e.reg, c))
        IN  written[e.tag] = {got} ~> (value[e.tag] = got \/ written[e.tag] # {got})
=============================================================================
