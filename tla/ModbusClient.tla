---------------------------- MODULE ModbusClient ----------------------------
(***************************************************************************)
(* The twin as a Modbus master (ModbusClientTransport): an I/O transport   *)
(* that exchanges whole contiguous blocks of registers with a remote slave *)
(* whose own process keeps moving between two requests.  A read that fails *)
(* half way hands over what it recovered; a write that fails half way      *)
(* leaves the earlier blocks written.                                      *)
(*                                                                         *)
(* The remote slave and pymodbus are external: a request is answered as a  *)
(* whole or with an error, and a write answered with an error may or may   *)
(* not have been carried out.                                              *)
(***************************************************************************)
EXTENDS RegisterMap

CONSTANTS
    Wirings,        \* the inputs and outputs maps considered: sets of [tag, reg]
    Samples,        \* the values the remote process presents and the PLC drives
    Missing,        \* mapped outputs the PLC's output image does not carry
    Unclaimed,      \* tags standing for an address no PLC tag claims
    LastAddress,    \* the last register of the remote slave, 65535 at most
    MaxCalls        \* bound on the calls of the executive

InputKinds == {"discrete_input", "input_register"}
OutputKinds == {"coil", "holding_register"}

Addresses == 0 .. LastAddress

\* What __post_init__ lets through, on registers the slave has.
ASSUME WiringAssumption ==
    /\ MaxCalls \in Nat
    /\ LastAddress \in Nat
    /\ \A w \in Wirings :
          /\ \A e \in w.inputs : e.reg \in RegisterMaps /\ e.reg.kind \in InputKinds
          /\ \A e \in w.outputs : e.reg \in RegisterMaps /\ e.reg.kind \in OutputKinds
          /\ \A e \in w.inputs \cup w.outputs : Span(e.reg) \subseteq Addresses

VARIABLES
    inputs, outputs,    \* the wiring, fixed once built
    connected,          \* _client is not None
    remote,             \* the slave's registers
    call,               \* "none", "read" or "write"
    pending,            \* the requests the call has still to make, a set
    raw,                \* what read_inputs recovered
    image,              \* what write_outputs was given
    outcome             \* how the last call of each kind ended

\* History, for the properties alone.
VARIABLES
    held,               \* the values each input had while the call was on
    calls               \* how many calls were made

clientVars == <<inputs, outputs, connected, remote, call, pending, raw, image,
                outcome, held, calls>>

\* old.update(new): the new values over the old ones.
Updated(old, new) ==
    [x \in DOMAIN old \cup DOMAIN new |-> IF x \in DOMAIN new THEN new[x] ELSE old[x]]

Tags(entries) == {e.tag : e \in entries}

Registers(e) ==
    [i \in 1 .. e.reg.length |-> remote[e.reg.kind][e.reg.address + i - 1]]

Present(e) == Decode(e.reg, Registers(e))

\* What an input presents to the call that begins.
Now == [t \in Tags(inputs) |->
           {Present(e) : e \in {x \in inputs : x.tag = t}}]

\* The requests for one kind; an unclaimed address raises instead, before the
\* first of them.
Miswired(kind) == [kind |-> kind, block |-> {}]
OfKind(entries, kind) == {e \in entries : e.reg.kind = kind}
RequestsOf(wiring, kind) ==
    IF Tags(OfKind(wiring, kind)) \cap Unclaimed # {} THEN {Miswired(kind)}
    ELSE {[kind |-> kind, block |-> block] : block \in Blocks(OfKind(wiring, kind))}

Requests(wiring, kinds) == UNION {RequestsOf(wiring, kind) : kind \in kinds}

\* The order of the requests: the single bits first, then by address.
Precedes(q, r) ==
    \/ q.kind \in BitKinds /\ r.kind \in WordKinds
    \/ q.kind = r.kind /\ BlockStart(q.block) < BlockStart(r.block)

ClientTypeOK ==
    /\ \E w \in Wirings : inputs = w.inputs /\ outputs = w.outputs
    /\ connected \in BOOLEAN
    /\ DOMAIN remote = Kinds /\ \A kind \in Kinds : DOMAIN remote[kind] = Addresses
    /\ call \in {"none", "read", "write"}
    /\ call = "none" => pending = {}
    /\ call = "read" => pending \subseteq Requests(inputs, InputKinds)
    /\ call = "write" => pending \subseteq Requests(outputs, OutputKinds)
    /\ DOMAIN raw \subseteq Tags(inputs)
    /\ DOMAIN image = Tags(outputs) \ Missing
    /\ outcome \in [{"read", "write"} -> {"none", "ok", "transport", "value"}]
    /\ DOMAIN held = Tags(inputs)
    /\ calls \in 0 .. MaxCalls

ClientInit ==
    /\ \E w \in Wirings : inputs = w.inputs /\ outputs = w.outputs
    /\ connected = FALSE
    /\ remote = [k \in Kinds |-> [a \in Addresses |-> 1]]
    /\ call = "none"
    /\ pending = {}
    /\ raw = [t \in {} |-> 0]
    /\ image = [t \in Tags(outputs) \ Missing |-> 0]
    /\ outcome = [c \in {"read", "write"} |-> "none"]
    /\ held = Now
    /\ calls = 0

-----------------------------------------------------------------------------
\* connect() succeeds or the client is connected already; the call begins.
Begin(kind, todo) ==
    /\ call = "none"
    /\ calls < MaxCalls
    /\ calls' = calls + 1
    /\ connected' = TRUE
    /\ call' = kind
    /\ pending' = todo
    /\ outcome' = [outcome EXCEPT ![kind] = "none"]
    /\ UNCHANGED <<inputs, outputs, remote>>

BeginRead ==
    /\ Begin("read", Requests(inputs, InputKinds))
    /\ raw' = [t \in {} |-> 0]
    /\ held' = Now
    /\ UNCHANGED image

BeginWrite ==
    /\ Begin("write", Requests(outputs, OutputKinds))
    /\ image' \in [Tags(outputs) \ Missing -> Samples]
    /\ UNCHANGED <<raw, held>>

\* The slave refuses the connection: TransportError, nothing recovered.
ConnectFails(kind) ==
    /\ call = "none"
    /\ calls < MaxCalls
    /\ ~connected
    /\ calls' = calls + 1
    /\ outcome' = [outcome EXCEPT ![kind] = "transport"]
    /\ raw' = IF kind = "read" THEN [t \in {} |-> 0] ELSE raw
    /\ UNCHANGED <<inputs, outputs, connected, remote, call, pending, image,
                   held>>

Close ==
    /\ call = "none"
    /\ connected
    /\ connected' = FALSE
    /\ UNCHANGED <<inputs, outputs, remote, call, pending, raw, image, outcome,
                   held, calls>>

\* The call returns, or its exception leaves it.
Return(how) ==
    /\ call' = "none"
    /\ pending' = {}
    /\ outcome' = [outcome EXCEPT ![call] = how]
    /\ UNCHANGED <<inputs, outputs, connected, image, held, calls>>

Finish ==
    /\ call # "none"
    /\ pending = {}
    /\ Return("ok")
    /\ UNCHANGED <<remote, raw>>

\* The request whose turn it is.
Upcoming(r) ==
    /\ r \in pending
    /\ \A q \in pending \ {r} : ~Precedes(q, r)

RaisesMiswired ==
    /\ call # "none"
    /\ \E r \in pending : Upcoming(r) /\ r.block = {}
    /\ Return("value")
    /\ raw' = IF call = "read" THEN [t \in {} |-> 0] ELSE raw
    /\ UNCHANGED remote

\* A request, once the wiring of its kind was resolved.
Requesting(kind, r) ==
    /\ call = kind
    /\ Upcoming(r)
    /\ r.block # {}

Response(r) ==
    [i \in 1 .. BlockSpan(r.block) |-> remote[r.kind][BlockStart(r.block) + i - 1]]

\* The channel of a block that gives a tag its value: the last in order of address.
ChannelOf(t, block) ==
    CHOOSE e \in block :
        e.tag = t /\ \A f \in block : f.tag = t => f.reg.address <= e.reg.address

\* Mutation: every channel is taken to be one register long.
BlockValuesPacked(r) ==
    [t \in Tags(r.block) |->
        LET reg == ChannelOf(t, r.block).reg
            offset == Cardinality({e \in r.block : e.reg.address < reg.address})
        IN  Decode(reg, SubSeq(Response(r), offset + 1, offset + reg.length))]

\* Each channel's slice of the response, decoded.
BlockValues(r) ==
    [t \in Tags(r.block) |->
        LET reg == ChannelOf(t, r.block).reg
            offset == reg.address - BlockStart(r.block)
        IN  Decode(reg, SubSeq(Response(r), offset + 1, offset + reg.length))]

ReadBlock ==
    /\ \E r \in pending :
          /\ Requesting("read", r)
          /\ raw' = Updated(raw, BlockValues(r))
          /\ pending' = pending \ {r}
    /\ UNCHANGED <<inputs, outputs, connected, remote, call, image, outcome,
                   held, calls>>

\* TransportError(partial_inputs = raw).
ReadBlockFails ==
    /\ \E r \in pending : Requesting("read", r)
    /\ Return("transport")
    /\ UNCHANGED <<remote, raw>>

\* The words of one request: zero wherever the image carries no value.
BlockWords(block) ==
    LET owners(a) == {e \in block : a \in Span(e.reg) /\ e.tag \in DOMAIN image}
        word(a) == LET e == CHOOSE e \in owners(a) : TRUE
                   IN  Encode(e.reg, image[e.tag])[a - e.reg.address + 1]
    IN  [a \in BlockRange(block) |-> IF owners(a) = {} THEN 0 ELSE word(a)]

Written(r) == [remote EXCEPT ![r.kind] = Updated(@, BlockWords(r.block))]

WriteBlock ==
    /\ \E r \in pending :
          /\ Requesting("write", r)
          /\ remote' = Written(r)
          /\ pending' = pending \ {r}
    /\ UNCHANGED <<inputs, outputs, connected, call, raw, image, outcome,
                   held, calls>>

\* Mutation: an error response does not end the call.
WriteBlockFailsOn ==
    /\ \E r \in pending :
          /\ Requesting("write", r)
          /\ pending' = pending \ {r}
    /\ UNCHANGED <<inputs, outputs, connected, remote, call, raw, image,
                   outcome, held, calls>>

\* The answer is an error; the slave may have carried the request out.
WriteBlockFails ==
    /\ \E r \in pending :
          /\ Requesting("write", r)
          /\ remote' \in {remote, Written(r)}
    /\ Return("transport")
    /\ UNCHANGED raw

-----------------------------------------------------------------------------
\* The remote process moves one of its own inputs, the words of a pair
\* together.  (Its inputs and the outputs it is written are different
\* registers, so a move during a write is one just before it.)
RemoteMoves ==
    /\ call # "write"
    /\ \E e \in inputs, v \in Samples :
          LET words == Encode(e.reg, v)
          IN  /\ remote' = [remote EXCEPT ![e.reg.kind] =
                    Updated(@, [a \in Span(e.reg) |-> words[a - e.reg.address + 1]])]
              /\ held' = IF call = "read"
                         THEN [held EXCEPT ![e.tag] = @ \cup {Decode(e.reg, words)}]
                         ELSE held
    /\ UNCHANGED <<inputs, outputs, connected, call, pending, raw, image,
                   outcome, calls>>

ClientNext ==
    \/ BeginRead
    \/ BeginWrite
    \/ \E kind \in {"read", "write"} : ConnectFails(kind)
    \/ Close
    \/ Finish
    \/ RaisesMiswired
    \/ ReadBlock
    \/ ReadBlockFails
    \/ WriteBlock
    \/ WriteBlockFails
    \/ RemoteMoves

ClientSpec == ClientInit /\ [][ClientNext]_clientVars

-----------------------------------------------------------------------------
\* Maps of which no two channels share a register, the use they are made for.
OwnRegisters ==
    \A w \in Wirings : \A entries \in {w.inputs, w.outputs} :
        \A e, f \in entries : e # f => Disjoint(e, f)

\* An output's registers hold what the PLC last drove, zero if it drives none.
Driven(e) ==
    Registers(e) = IF e.tag \in Missing THEN [i \in 1 .. e.reg.length |-> 0]
                   ELSE Encode(e.reg, image[e.tag])

\* What an input presents, and what was read of it, it has held during the call.
ReadsInv ==
    /\ call = "read" => \A e \in inputs : Present(e) \in held[e.tag]
    /\ \A t \in DOMAIN raw : raw[t] \in held[t]

\* An output a write has not driven is in a request still to come, or behind an
\* address nobody claims.
WritesInv ==
    /\ call = "write" =>
          \A e \in outputs :
              \/ Driven(e)
              \/ \E r \in pending : r.kind = e.reg.kind /\ (r.block = {} \/ e \in r.block)
    /\ call # "write" /\ outcome["write"] = "ok" => \A e \in outputs : Driven(e)

-----------------------------------------------------------------------------
(***************************************************************************)
(* Properties                                                              *)
(***************************************************************************)

\* Every input a read hands over, on success or as partial_inputs, is a
\* value the remote held during that very call: a 32-bit value is never
\* half of one moment and half of another, whatever moves in between.
ReadsAreWhole ==
    \A t \in DOMAIN raw : raw[t] \in held[t]

\* The registers of one kind that no output is mapped to.
Unmapped(kind) ==
    Addresses \ UNION {Span(e.reg) : e \in OfKind(outputs, kind)}

\* A write never touches a register no output is mapped to: whatever gaps
\* the wiring leaves belong to somebody else.
UnmappedUntouched ==
    [][call = "write" =>
          \A kind \in OutputKinds : \A a \in Unmapped(kind) :
             remote'[kind][a] = remote[kind][a]]_clientVars

\* One good write repairs the whole image: every mapped output holds what
\* the PLC last drove, whatever earlier writes lost half way.
GoodWriteIsComplete ==
    call = "none" /\ outcome["write"] = "ok" => \A e \in outputs : Driven(e)
=============================================================================
