---------------------------- MODULE ModbusProofs -----------------------------
(***************************************************************************)
(* Both ends of a Modbus link, for every wiring, every value and every     *)
(* moment the other side may move at: the twin as a master reads whole     *)
(* values and writes whole images, and as a slave it takes whole commands  *)
(* and shows a recent window.                                              *)
(***************************************************************************)
EXTENDS ModbusClient, ModbusSlave, SequenceTheorems, WellFoundedInduction, TLAPS

\* A channel is as many words as it has registers.
LEMMA EncodeLength ==
    ASSUME NEW reg \in RegisterMaps, NEW v
    PROVE  Encode(reg, v) = [i \in 1 .. reg.length |-> Encode(reg, v)[i]]
<1>1. CASE reg.kind \in BitKinds
  BY <1>1 DEF Encode, RegisterMaps
<1>2. CASE reg.kind \notin BitKinds /\ reg.length = 1
  BY <1>2 DEF Encode
<1>3. CASE reg.kind \notin BitKinds /\ reg.length = 2
  BY <1>3 DEF Encode, WordPair
<1> QED
  BY <1>1, <1>2, <1>3 DEF RegisterMaps

-----------------------------------------------------------------------------
(***************************************************************************)
(* The client: how channels are grouped into requests.                     *)
(***************************************************************************)

\* A set of numbers has a least one: the library states it with an operator as
\* a parameter, here it comes from the order being well-founded.
LEMMA LeastNumber ==
    ASSUME NEW T \in SUBSET Nat, T # {}
    PROVE  \E x \in T : \A y \in T : x <= y
<1> DEFINE R == {pair \in Nat \X Nat : pair[1] < pair[2]}
<1>1. IsWellFoundedOn(R, Nat)
  BY NatLessThanWellFounded DEF OpToRel
<1>2. PICK x \in T : \A y \in T : ~(<<y, x>> \in R)
  <2> HIDE DEF R
  <2> QED
    BY <1>1, WFMin
<1>3. \A y \in T : ~(y < x)
  <2> SUFFICES ASSUME NEW y \in T PROVE <<y, x>> \in R <=> y < x
    BY <1>2
  <2> QED
    OBVIOUS
<1> QED
  BY <1>3

\* A bounded one has a greatest one.
LEMMA GreatestNumber ==
    ASSUME NEW n \in Nat, NEW T \in SUBSET (0 .. n), T # {}
    PROVE  \E x \in T : \A y \in T : x >= y
<1> DEFINE D == {n - y : y \in T}
<1>1. D \in SUBSET Nat /\ D # {}
  <2>1. \A y \in T : n - y \in Nat
    OBVIOUS
  <2> QED
    BY <2>1
<1>2. PICK d \in D : \A c \in D : d <= c
  <2> HIDE DEF D
  <2> QED
    BY <1>1, LeastNumber
<1>3. PICK x \in T : d = n - x
  BY <1>2
<1>4. \A y \in T : x >= y
  <2> TAKE y \in T
  <2>1. n - y \in D /\ n - x <= n - y
    BY <1>2, <1>3
  <2> QED
    BY <2>1
<1> QED
  BY <1>4

LEMMA Extremes ==
    ASSUME NEW n \in Nat, NEW T \in SUBSET (0 .. n), T # {}
    PROVE  /\ Min(T) \in T /\ \A y \in T : Min(T) <= y
           /\ Max(T) \in T /\ \A y \in T : Max(T) >= y
<1>1. \E x \in T : \A y \in T : x <= y
  <2>1. T \in SUBSET Nat
    OBVIOUS
  <2> QED
    BY <2>1, LeastNumber
<1>2. \E x \in T : \A y \in T : x >= y
  BY GreatestNumber
<1> QED
  BY <1>1, <1>2 DEF Min, Max

\* Channels on registers Modbus can address.
Channels(E) ==
    \A e \in E : e.reg.address \in 0 .. LastAddress /\ e.reg.length \in {1, 2}

\* The first address is the start of a block.
LEMMA FirstStart ==
    ASSUME NEW E, Channels(E), NEW e \in E
    PROVE  \E s \in BlockStarts(E) : s <= e.reg.address
<1> DEFINE A == {x.reg.address : x \in E}
<1>1. A \in SUBSET Nat /\ A # {}
  BY DEF Channels
<1>2. PICK a \in A : \A b \in A : a <= b
  <2> HIDE DEF A
  <2> QED
    BY <1>1, LeastNumber
<1>3. PICK x \in E : a = x.reg.address
  BY <1>2
<1>4. \A y \in E : ~(y.reg.address < x.reg.address)
  <2> TAKE y \in E
  <2>1. x.reg.address <= y.reg.address
    BY <1>2, <1>3
  <2>2. x.reg.address \in Nat /\ y.reg.address \in Nat
    BY DEF Channels
  <2> QED
    BY ONLY <2>1, <2>2
<1>5. a \in BlockStarts(E)
  BY <1>3, <1>4 DEF BlockStarts
<1> QED
  BY <1>2, <1>5

LEMMA StartsAreAddresses ==
    ASSUME NEW E, Channels(E)
    PROVE  /\ BlockStarts(E) \in SUBSET (0 .. LastAddress)
           /\ \A s \in BlockStarts(E) :
                 \E x \in E : /\ x.reg.address = s
                              /\ \A y \in E : y.reg.address < s =>
                                     y.reg.address + y.reg.length < s
BY DEF Channels, BlockStarts

\* Every channel is in a block.
LEMMA BlocksCover ==
    ASSUME NEW E, Channels(E), NEW e \in E
    PROVE  \E b \in Blocks(E) : e \in b
<1> PICK c : c = e.reg.address
  OBVIOUS
<1>1. c \in 0 .. LastAddress
  BY DEF Channels
<1> DEFINE S == {s \in BlockStarts(E) : s <= c}
<1>2. S \in SUBSET (0 .. LastAddress) /\ S # {}
  BY FirstStart, StartsAreAddresses
<1>3. PICK s \in S : \A t \in S : s >= t
  <2> HIDE DEF S
  <2>1. LastAddress \in Nat
    BY WiringAssumption
  <2> QED
    BY ONLY <1>2, <2>1, GreatestNumber
<1>4. s \in BlockStarts(E) /\ s \in 0 .. LastAddress /\ c >= s
  BY <1>1, <1>2, <1>3
<1>5. ASSUME NEW t \in BlockStarts(E), t > s PROVE c < t
  <2>1. t \in 0 .. LastAddress
    BY StartsAreAddresses
  <2>2. t <= c => s >= t
    BY <1>3
  <2> QED
    BY ONLY <1>1, <1>4, <1>5, <2>1, <2>2
<1>6. e \in BlockFrom(E, s)
  BY <1>4, <1>5 DEF BlockFrom
<1> QED
  BY <1>4, <1>6 DEF Blocks

\* Where a request begins and ends.
LEMMA BlockExtent ==
    ASSUME NEW b, Channels(b), b # {}
    PROVE  \E first \in Nat, last \in Nat :
              /\ BlockStart(b) = first /\ BlockSpan(b) = last - first
              /\ BlockRange(b) = first .. (last - 1)
              /\ \A f \in b : first <= f.reg.address
                              /\ f.reg.address + f.reg.length <= last
              /\ \E f \in b : f.reg.address = first
              /\ \E f \in b : f.reg.address + f.reg.length = last
<1> DEFINE A == {f.reg.address : f \in b}
           Z == {f.reg.address + f.reg.length : f \in b}
<1> PICK n : n = LastAddress + 2
  OBVIOUS
<1>0. n \in Nat /\ LastAddress \in Nat /\ LastAddress < n
  BY WiringAssumption
<1>1. A \in SUBSET (0 .. n) /\ A # {}
  <2>1. \A i \in 0 .. LastAddress : i \in 0 .. n
    BY ONLY <1>0
  <2> QED
    BY <2>1 DEF Channels
<1>2. Z \in SUBSET (0 .. n) /\ Z # {}
  <2>1. \A f \in b : f.reg.address + f.reg.length \in 0 .. n
    <3> TAKE f \in b
    <3>1. f.reg.address \in 0 .. LastAddress /\ f.reg.length \in {1, 2}
      BY DEF Channels
    <3> QED
      BY ONLY <1>0, <3>1, n = LastAddress + 2
  <2> QED
    BY <2>1
<1>3. /\ Min(A) \in A /\ \A y \in A : Min(A) <= y
      /\ Max(Z) \in Z /\ \A y \in Z : Max(Z) >= y
  <2> HIDE DEF A, Z
  <2> QED
    BY <1>0, <1>1, <1>2, Extremes
<1> PICK first : first = Min(A)
  OBVIOUS
<1> PICK last : last = Max(Z)
  OBVIOUS
<1>4. first \in Nat /\ last \in Nat
  BY <1>1, <1>2, <1>3
<1>5. BlockStart(b) = first /\ BlockSpan(b) = last - first
  BY DEF BlockStart, BlockSpan
<1>6. first + (last - first) - 1 = last - 1
  BY ONLY <1>4
<1>7. BlockRange(b) = first .. (last - 1)
  BY <1>5, <1>6 DEF BlockRange
<1>8. \A f \in b : first <= f.reg.address /\ f.reg.address + f.reg.length <= last
  <2> TAKE f \in b
  <2>1. f.reg.address \in A /\ f.reg.address + f.reg.length \in Z
    OBVIOUS
  <2> HIDE DEF A, Z
  <2>2. first <= f.reg.address /\ last >= f.reg.address + f.reg.length
    BY <1>3, <2>1
  <2> PICK end : end = f.reg.address + f.reg.length
    OBVIOUS
  <2>3. end \in 0 .. n /\ last >= end
    BY <1>2, <2>1, <2>2
  <2>4. end <= last
    BY ONLY <1>0, <1>4, <2>3
  <2> QED
    BY <2>2, <2>4
<1>9. /\ \E f \in b : f.reg.address = first
      /\ \E f \in b : f.reg.address + f.reg.length = last
  BY <1>3
<1> QED
  BY <1>4, <1>5, <1>7, <1>8, <1>9

\* A block holds channels, and one of them begins it.
LEMMA BlockBegins ==
    ASSUME NEW E, Channels(E), NEW b \in Blocks(E)
    PROVE  /\ b \subseteq E /\ b # {} /\ Channels(b)
           /\ \E s \in BlockStarts(E) : b = BlockFrom(E, s)
<1>1. PICK s \in BlockStarts(E) : b = BlockFrom(E, s)
  BY DEF Blocks
<1>2. PICK x \in E : x.reg.address = s
  BY StartsAreAddresses
<1>3. s \in 0 .. LastAddress
  BY StartsAreAddresses
<1>4. x.reg.address >= s /\ \A t \in BlockStarts(E) : t > s => x.reg.address < t
  <2> SUFFICES ASSUME NEW t \in BlockStarts(E), t > s PROVE s < t
    BY <1>2, <1>3
  <2>1. t \in 0 .. LastAddress
    BY StartsAreAddresses
  <2> QED
    BY ONLY <1>3, <2>1, t > s
<1>5. x \in b
  BY <1>1, <1>4 DEF BlockFrom
<1> QED
  BY <1>1, <1>5 DEF BlockFrom, Channels

\* A request covers no register but those of its channels.
LEMMA BlocksHaveNoGap ==
    ASSUME NEW E, Channels(E), NEW b \in Blocks(E), NEW a \in BlockRange(b)
    PROVE  \E f \in b : a \in Span(f.reg)
<1>1. b \subseteq E /\ b # {} /\ Channels(b)
  BY BlockBegins
<1>2. PICK s \in BlockStarts(E) : b = BlockFrom(E, s)
  BY BlockBegins
<1>3. PICK first \in Nat, last \in Nat :
         /\ BlockRange(b) = first .. (last - 1)
         /\ \A f \in b : first <= f.reg.address
                         /\ f.reg.address + f.reg.length <= last
         /\ \E f \in b : f.reg.address = first
         /\ \E f \in b : f.reg.address + f.reg.length = last
  BY <1>1, BlockExtent
<1>4. a \in Nat /\ first <= a /\ a < last
  <2>1. a \in first .. (last - 1)
    BY <1>3
  <2> QED
    BY ONLY <2>1, first \in Nat, last \in Nat
<1>5. s \in Nat /\ \A t \in BlockStarts(E) : t \in Nat
  BY StartsAreAddresses
<1>6. \A e \in E : e.reg.address \in Nat /\ e.reg.length \in Nat
  BY DEF Channels
<1> SUFFICES ASSUME \A f \in b : a \notin Span(f.reg) PROVE FALSE
  OBVIOUS
<1>7. \A f \in b : f.reg.address > a \/ f.reg.address + f.reg.length <= a
  <2> TAKE f \in b
  <2> PICK x : x = f.reg.address
    OBVIOUS
  <2> PICK l : l = f.reg.length
    OBVIOUS
  <2>1. x \in Nat /\ l \in Nat /\ a \notin x .. (x + l - 1)
    BY <1>1, <1>6 DEF Span
  <2>2. x > a \/ x + l <= a
    BY ONLY <1>4, <2>1
  <2> QED
    BY <2>2
<1> DEFINE Later == {f.reg.address : f \in {x \in b : x.reg.address > a}}
<1>8. Later \in SUBSET Nat /\ Later # {}
  <2>1. PICK f \in b : f.reg.address + f.reg.length = last
    BY <1>3
  <2>2. ~(f.reg.address + f.reg.length <= a)
    BY ONLY <1>4, <2>1, last \in Nat
  <2> QED
    BY <1>1, <1>6, <1>7, <2>2
<1>9. PICK c \in Later : \A d \in Later : c <= d
  <2> HIDE DEF Later
  <2> QED
    BY <1>8, LeastNumber
<1>10. PICK e \in b : e.reg.address = c /\ c > a
  BY <1>9
<1>11. c \in Nat /\ e \in E /\ e.reg.address >= s
  BY <1>1, <1>2, <1>8, <1>9 DEF BlockFrom
<1>12. s < c
  <2>1. PICK f \in b : f.reg.address = first
    BY <1>3
  <2>2. first >= s
    BY <1>2, <2>1 DEF BlockFrom
  <2> QED
    BY ONLY <1>4, <1>5, <1>10, <1>11, <2>2, first \in Nat
<1>13. \A t \in BlockStarts(E) : t > s => c < t
  BY <1>2, <1>10 DEF BlockFrom
<1>14. c \notin BlockStarts(E)
  BY <1>11, <1>12, <1>13
<1>15. PICK y \in E : y.reg.address < c /\ ~(y.reg.address + y.reg.length < c)
  BY <1>10, <1>11, <1>14 DEF BlockStarts
<1> PICK x : x = y.reg.address
  OBVIOUS
<1> PICK l : l = y.reg.length
  OBVIOUS
<1>16. x \in Nat /\ l \in Nat /\ x < c /\ x + l >= c
  <2>1. x \in Nat /\ l \in Nat /\ x < c /\ ~(x + l < c)
    BY <1>6, <1>15
  <2> QED
    BY ONLY <1>11, <2>1
<1>17. x >= s
  <2>1. x < s => x + l < s
    BY StartsAreAddresses
  <2> QED
    BY ONLY <1>5, <1>11, <1>12, <1>16, <2>1
<1>18. \A t \in BlockStarts(E) : t > s => x < t
  <2> SUFFICES ASSUME NEW t \in BlockStarts(E), t > s PROVE x < t
    OBVIOUS
  <2>1. c < t /\ t \in Nat
    BY <1>5, <1>13
  <2> QED
    BY ONLY <1>11, <1>16, <2>1
<1>19. y \in b
  BY <1>2, <1>17, <1>18 DEF BlockFrom
<1>20. x > a => c <= x
  <2> SUFFICES ASSUME x > a PROVE c <= x
    OBVIOUS
  <2>1. x \in Later
    BY <1>19
  <2> QED
    BY <1>9, <2>1
<1>21. x > a \/ x + l <= a
  BY <1>7, <1>19
<1> QED
  BY ONLY <1>4, <1>10, <1>11, <1>16, <1>20, <1>21

-----------------------------------------------------------------------------
(***************************************************************************)
(* The client: the requests of a call.                                     *)
(***************************************************************************)

LEMMA WiringFacts ==
    ASSUME ClientTypeOK
    PROVE  /\ Channels(inputs) /\ Channels(outputs)
           /\ \A e \in inputs : e.reg \in RegisterMaps /\ e.reg.kind \in InputKinds
           /\ \A e \in outputs : e.reg \in RegisterMaps /\ e.reg.kind \in OutputKinds
           /\ \A e \in inputs \cup outputs : Span(e.reg) \subseteq Addresses
<1>1. PICK w \in Wirings : inputs = w.inputs /\ outputs = w.outputs
  BY DEF ClientTypeOK
<1>2. /\ \A e \in inputs : e.reg \in RegisterMaps /\ e.reg.kind \in InputKinds
      /\ \A e \in outputs : e.reg \in RegisterMaps /\ e.reg.kind \in OutputKinds
      /\ \A e \in inputs \cup outputs : Span(e.reg) \subseteq Addresses
  BY <1>1, WiringAssumption
<1>3. ASSUME NEW e \in inputs \cup outputs
      PROVE  e.reg.address \in 0 .. LastAddress /\ e.reg.length \in {1, 2}
  <2>1. e.reg.address \in Nat /\ e.reg.length \in {1, 2}
    BY <1>2 DEF RegisterMaps
  <2>2. e.reg.address \in Span(e.reg)
    BY <2>1 DEF Span
  <2> QED
    BY <1>2, <2>1, <2>2 DEF Addresses
<1> QED
  BY <1>2, <1>3 DEF Channels

LEMMA RequestsHold ==
    ASSUME NEW E, NEW K, NEW r \in Requests(E, K), Channels(E), r.block # {}
    PROVE  /\ r.kind \in K /\ r.block \in Blocks(OfKind(E, r.kind))
           /\ r.block \subseteq E /\ Channels(r.block)
           /\ \A e \in r.block : e.reg.kind = r.kind
<1>1. PICK kind \in K : r \in RequestsOf(E, kind)
  BY DEF Requests
<1>2. r.kind = kind /\ r.block \in Blocks(OfKind(E, kind))
  BY <1>1 DEF RequestsOf, Miswired
<1>3. Channels(OfKind(E, kind))
  BY DEF Channels, OfKind
<1>4. r.block \subseteq OfKind(E, kind) /\ Channels(r.block)
  BY <1>2, <1>3, BlockBegins
<1> QED
  BY <1>2, <1>4 DEF OfKind

LEMMA RequestsCover ==
    ASSUME NEW E, NEW K, Channels(E), NEW e \in E, e.reg.kind \in K
    PROVE  \E r \in Requests(E, K) :
               r.kind = e.reg.kind /\ (r.block = {} \/ e \in r.block)
<1> PICK kind : kind = e.reg.kind
  OBVIOUS
<1>1. RequestsOf(E, kind) \subseteq Requests(E, K)
  BY DEF Requests
<1>2. CASE Tags(OfKind(E, kind)) \cap Unclaimed # {}
  <2>1. Miswired(kind) \in RequestsOf(E, kind)
    BY <1>2 DEF RequestsOf
  <2> QED
    BY <1>1, <2>1 DEF Miswired
<1>3. CASE ~(Tags(OfKind(E, kind)) \cap Unclaimed # {})
  <2>1. Channels(OfKind(E, kind)) /\ e \in OfKind(E, kind)
    BY DEF Channels, OfKind
  <2>2. PICK b \in Blocks(OfKind(E, kind)) : e \in b
    BY <2>1, BlocksCover
  <2>3. [kind |-> kind, block |-> b] \in RequestsOf(E, kind)
    BY <1>3 DEF RequestsOf
  <2> QED
    BY <1>1, <2>2, <2>3
<1> QED
  BY <1>2, <1>3

LEMMA ChannelOfTag ==
    ASSUME NEW b, Channels(b), NEW t \in Tags(b)
    PROVE  ChannelOf(t, b) \in b /\ ChannelOf(t, b).tag = t
<1> DEFINE A == {e.reg.address : e \in {x \in b : x.tag = t}}
<1>1. A \in SUBSET (0 .. LastAddress) /\ A # {}
  BY DEF Channels, Tags
<1>2. PICK a \in A : \A c \in A : a >= c
  <2> HIDE DEF A
  <2>1. LastAddress \in Nat
    BY WiringAssumption
  <2> QED
    BY ONLY <1>1, <2>1, GreatestNumber
<1>3. PICK e \in b : e.tag = t /\ e.reg.address = a
  BY <1>2
<1>4. \A f \in b : f.tag = t => f.reg.address <= e.reg.address
  <2> SUFFICES ASSUME NEW f \in b, f.tag = t PROVE f.reg.address <= a
    BY <1>3
  <2>1. a >= f.reg.address
    BY <1>2
  <2>2. f.reg.address \in 0 .. LastAddress /\ a \in 0 .. LastAddress
    BY <1>1, <1>2 DEF Channels
  <2> QED
    BY ONLY <2>1, <2>2
<1> QED
  BY <1>3, <1>4 DEF ChannelOf

\* The slice of a response that belongs to a channel is the channel's registers.
LEMMA SliceOfResponse ==
    ASSUME NEW r, Channels(r.block), NEW e \in r.block, e.reg.kind = r.kind,
           NEW offset, offset = e.reg.address - BlockStart(r.block)
    PROVE  SubSeq(Response(r), offset + 1, offset + e.reg.length) = Registers(e)
<1>1. PICK first \in Nat, last \in Nat :
         /\ BlockStart(r.block) = first /\ BlockSpan(r.block) = last - first
         /\ \A f \in r.block : first <= f.reg.address
                               /\ f.reg.address + f.reg.length <= last
  BY BlockExtent
<1> PICK x : x = e.reg.address
  OBVIOUS
<1> PICK l : l = e.reg.length
  OBVIOUS
<1> PICK n : n = last - first
  OBVIOUS
<1>2. x \in Nat /\ l \in {1, 2} /\ first <= x /\ x + l <= last /\ offset = x - first
  BY <1>1 DEF Channels
<1>3. /\ n \in Nat /\ offset + 1 \in 1 .. n /\ offset + l \in offset .. n
      /\ (offset + l) - (offset + 1) + 1 = l /\ offset + 1 - 1 = offset
      /\ offset \in Nat
  BY ONLY <1>2, n = last - first, first \in Nat, last \in Nat
<1> PICK s : s = Response(r)
  OBVIOUS
<1> DEFINE word(i) == remote[r.kind][first + i - 1]
<1>4. s = [i \in 1 .. n |-> word(i)]
  BY <1>1 DEF Response
<1> PICK S : S = {word(i) : i \in 1 .. n}
  OBVIOUS
<1>5. s \in Seq(S) /\ Len(s) = n
  <2>1. s \in [1 .. n -> S]
    <3>1. \A i \in 1 .. n : word(i) \in S
      OBVIOUS
    <3> HIDE DEF word
    <3> QED
      BY ONLY <1>4, <3>1
  <2> HIDE DEF word
  <2> QED
    BY ONLY <1>3, <2>1, LenProperties, IsASeq
<1> PICK slice : slice = SubSeq(s, offset + 1, offset + l)
  OBVIOUS
<1>6. /\ slice \in Seq(S) /\ Len(slice) = l
      /\ \A i \in 1 .. l : slice[i] = s[offset + 1 + i - 1]
  <2> PICK p : p = offset + 1
    OBVIOUS
  <2> PICK q : q = offset + l
    OBVIOUS
  <2>1. Len(s) = n
    BY <1>5
  <2>2. p \in 1 .. (n + 1) /\ q \in (p - 1) .. n /\ q - p + 1 = l
    BY ONLY <1>2, <1>3, p = offset + 1, q = offset + l
  <2>3. /\ SubSeq(s, p, q) \in Seq(S) /\ Len(SubSeq(s, p, q)) = q - p + 1
        /\ \A i \in 1 .. (q - p + 1) : SubSeq(s, p, q)[i] = s[p + i - 1]
    BY ONLY <1>5, <2>1, <2>2, SubSeqProperties
  <2> QED
    BY <2>2, <2>3
<1>7. \A i \in 1 .. l : slice[i] = remote[r.kind][x + i - 1]
  <2> TAKE i \in 1 .. l
  <2> PICK j : j = offset + 1 + i - 1
    OBVIOUS
  <2>1. j \in 1 .. n /\ first + j - 1 = x + i - 1
    BY ONLY <1>2, <1>3, j = offset + 1 + i - 1, i \in 1 .. l, first \in Nat
  <2>2. slice[i] = s[j]
    BY <1>6
  <2>3. s[j] = remote[r.kind][x + i - 1]
    BY <1>4, <2>1
  <2> QED
    BY <2>2, <2>3
<1>8. slice = [i \in 1 .. l |-> slice[i]]
  BY <1>6, LenProperties
<1> QED
  BY <1>7, <1>8 DEF Registers

-----------------------------------------------------------------------------
(***************************************************************************)
(* The client: what its calls leave.                                       *)
(***************************************************************************)

LEMMA UpdatedFacts ==
    ASSUME NEW old, NEW new, DOMAIN new \subseteq DOMAIN old
    PROVE  /\ DOMAIN Updated(old, new) = DOMAIN old
           /\ \A x \in DOMAIN new : Updated(old, new)[x] = new[x]
           /\ \A x \in DOMAIN old \ DOMAIN new : Updated(old, new)[x] = old[x]
BY DEF Updated

\* What a request writes stays in the registers of its channels.
LEMMA WrittenFacts ==
    ASSUME ClientTypeOK, call = "write", NEW r \in pending, r.block # {}
    PROVE  LET words == BlockWords(r.block)
           IN  /\ r.kind \in OutputKinds /\ r.kind \in Kinds
               /\ DOMAIN words = BlockRange(r.block)
               /\ \A a \in DOMAIN words : \E f \in r.block : a \in Span(f.reg)
               /\ DOMAIN words \subseteq Addresses
               /\ DOMAIN Written(r) = Kinds
               /\ Written(r)[r.kind] = Updated(remote[r.kind], words)
               /\ \A kind \in Kinds \ {r.kind} : Written(r)[kind] = remote[kind]
<1> DEFINE words == BlockWords(r.block)
<1>1. /\ Channels(outputs) /\ r \in Requests(outputs, OutputKinds)
      /\ \A e \in outputs : Span(e.reg) \subseteq Addresses
  BY WiringFacts DEF ClientTypeOK
<1>2. /\ r.kind \in OutputKinds /\ r.block \in Blocks(OfKind(outputs, r.kind))
      /\ r.block \subseteq outputs
  BY <1>1, RequestsHold
<1>3. r.kind \in Kinds
  BY <1>2 DEF OutputKinds, Kinds, BitKinds, WordKinds
<1>4. DOMAIN words = BlockRange(r.block)
  BY DEF BlockWords
<1>5. Channels(OfKind(outputs, r.kind))
  BY <1>1 DEF Channels, OfKind
<1>6. \A a \in BlockRange(r.block) : \E f \in r.block : a \in Span(f.reg)
  BY <1>2, <1>5, BlocksHaveNoGap
<1>7. DOMAIN words \subseteq Addresses
  <2> HIDE DEF words
  <2> QED
    BY <1>1, <1>2, <1>4, <1>6
<1>8. DOMAIN remote = Kinds
  BY DEF ClientTypeOK
<1> HIDE DEF words
<1>9. Written(r) = [remote EXCEPT ![r.kind] = Updated(@, words)]
  BY DEF Written, words
<1> QED
  BY <1>2, <1>3, <1>4, <1>6, <1>7, <1>8, <1>9 DEF words

LEMMA ClientTypeInvariant == ClientSpec => []ClientTypeOK
<1>1. ClientInit => ClientTypeOK
  <2> SUFFICES ASSUME ClientInit PROVE ClientTypeOK
    OBVIOUS
  <2>1. /\ \E w \in Wirings : inputs = w.inputs /\ outputs = w.outputs
        /\ connected \in BOOLEAN /\ call = "none" /\ pending = {}
        /\ DOMAIN image = Tags(outputs) \ Missing /\ DOMAIN held = Tags(inputs)
    BY DEF ClientInit, Now
  <2>2. DOMAIN remote = Kinds /\ \A kind \in Kinds : DOMAIN remote[kind] = Addresses
    BY DEF ClientInit
  <2>3. DOMAIN raw \subseteq Tags(inputs)
    BY DEF ClientInit
  <2>4. outcome \in [{"read", "write"} -> {"none", "ok", "transport", "value"}]
    BY DEF ClientInit
  <2>5. calls \in 0 .. MaxCalls
    BY WiringAssumption DEF ClientInit
  <2> QED
    BY <2>1, <2>2, <2>3, <2>4, <2>5 DEF ClientTypeOK
<1>2. ClientTypeOK /\ [ClientNext]_clientVars => ClientTypeOK'
  <2> SUFFICES ASSUME ClientTypeOK, [ClientNext]_clientVars PROVE ClientTypeOK'
    OBVIOUS
  <2>0. MaxCalls \in Nat
    BY WiringAssumption
  <2>1. CASE BeginRead
    <3>1. calls + 1 \in 0 .. MaxCalls
      BY <2>0, <2>1 DEF BeginRead, Begin, ClientTypeOK
    <3> QED
      BY <2>1, <3>1 DEF BeginRead, Begin, ClientTypeOK, Now
  <2>2. CASE BeginWrite
    <3>1. calls + 1 \in 0 .. MaxCalls
      BY <2>0, <2>2 DEF BeginWrite, Begin, ClientTypeOK
    <3> QED
      BY <2>2, <3>1 DEF BeginWrite, Begin, ClientTypeOK
  <2>3. ASSUME NEW kind \in {"read", "write"}, ConnectFails(kind) PROVE ClientTypeOK'
    <3>1. calls + 1 \in 0 .. MaxCalls
      BY <2>0, <2>3 DEF ConnectFails, ClientTypeOK
    <3> QED
      BY <2>3, <3>1 DEF ConnectFails, ClientTypeOK
  <2>4. CASE Close
    BY <2>4 DEF Close, ClientTypeOK
  <2>5. CASE Finish
    BY <2>5 DEF Finish, Return, ClientTypeOK
  <2>6. CASE RaisesMiswired
    BY <2>6 DEF RaisesMiswired, Return, ClientTypeOK
  <2>7. CASE ReadBlock
    <3>1. PICK r \in pending : /\ r.block # {} /\ raw' = Updated(raw, BlockValues(r))
                               /\ pending' = pending \ {r} /\ call = "read"
      BY <2>7 DEF ReadBlock, Requesting
    <3>2. r.block \subseteq inputs
      BY <3>1, WiringFacts, RequestsHold DEF ClientTypeOK
    <3>3. DOMAIN raw' \subseteq Tags(inputs)
      BY <3>1, <3>2 DEF Updated, BlockValues, Tags, ClientTypeOK
    <3> QED
      BY <2>7, <3>1, <3>3 DEF ReadBlock, ClientTypeOK
  <2>8. CASE ReadBlockFails
    BY <2>8 DEF ReadBlockFails, Return, ClientTypeOK
  <2>9. ASSUME NEW r \in pending, r.block # {}, call = "write"
        PROVE  DOMAIN Written(r) = Kinds
               /\ \A kind \in Kinds : DOMAIN (Written(r)[kind]) = Addresses
    <3>1. \A kind \in Kinds : DOMAIN remote[kind] = Addresses
      BY DEF ClientTypeOK
    <3> QED
      BY <2>9, <3>1, WrittenFacts, UpdatedFacts
  <2>10. CASE WriteBlock
    <3>1. PICK r \in pending : /\ r.block # {} /\ remote' = Written(r)
                               /\ pending' = pending \ {r} /\ call = "write"
      BY <2>10 DEF WriteBlock, Requesting
    <3> QED
      BY <2>9, <2>10, <3>1 DEF WriteBlock, ClientTypeOK
  <2>11. CASE WriteBlockFails
    <3>1. PICK r \in pending : /\ r.block # {} /\ remote' \in {remote, Written(r)}
                               /\ call = "write"
      BY <2>11 DEF WriteBlockFails, Requesting
    <3>2. DOMAIN remote' = Kinds /\ \A kind \in Kinds : DOMAIN (remote'[kind]) = Addresses
      BY <2>9, <3>1 DEF ClientTypeOK
    <3> QED
      BY <2>11, <3>2 DEF WriteBlockFails, Return, ClientTypeOK
  <2>12. CASE RemoteMoves
    <3>1. PICK e \in inputs, v \in Samples :
             /\ remote' = [remote EXCEPT ![e.reg.kind] =
                   Updated(@, [a \in Span(e.reg) |->
                                 Encode(e.reg, v)[a - e.reg.address + 1]])]
             /\ held' = IF call = "read"
                        THEN [held EXCEPT ![e.tag] =
                                 @ \cup {Decode(e.reg, Encode(e.reg, v))}]
                        ELSE held
      BY <2>12 DEF RemoteMoves
    <3>2. Span(e.reg) \subseteq Addresses
      BY WiringFacts
    <3>3. DOMAIN remote' = Kinds /\ \A kind \in Kinds : DOMAIN (remote'[kind]) = Addresses
      BY <3>1, <3>2, UpdatedFacts DEF ClientTypeOK
    <3>4. DOMAIN held' = Tags(inputs)
      BY <3>1 DEF ClientTypeOK
    <3> QED
      BY <2>12, <3>3, <3>4 DEF RemoteMoves, ClientTypeOK
  <2>13. CASE UNCHANGED clientVars
    BY <2>13 DEF clientVars, ClientTypeOK
  <2> QED
    BY <2>1, <2>2, <2>3, <2>4, <2>5, <2>6, <2>7, <2>8, <2>10, <2>11, <2>12, <2>13
       DEF ClientNext
<1> QED
  BY <1>1, <1>2, PTL DEF ClientSpec

\* A write never touches a register no output is mapped to, whatever gaps and
\* overlaps the wiring has and whatever fails.
THEOREM UnmappedStaysUntouched == ClientSpec => UnmappedUntouched
<1> DEFINE Keeps == call = "write" =>
              \A kind \in OutputKinds : \A a \in Unmapped(kind) :
                 remote'[kind][a] = remote[kind][a]
<1>1. ClientTypeOK /\ [ClientNext]_clientVars => [Keeps]_clientVars
  <2> SUFFICES ASSUME ClientTypeOK, ClientNext, call = "write",
                      NEW kind \in OutputKinds, NEW a \in Unmapped(kind)
               PROVE  remote'[kind][a] = remote[kind][a]
    OBVIOUS
  <2>1. ASSUME NEW r \in pending, r.block # {}
        PROVE  Written(r)[kind][a] = remote[kind][a]
    <3> DEFINE words == BlockWords(r.block)
    <3>1. /\ \A b \in DOMAIN words : \E f \in r.block : b \in Span(f.reg)
          /\ DOMAIN words \subseteq Addresses
          /\ Written(r)[r.kind] = Updated(remote[r.kind], words)
          /\ \A k \in Kinds \ {r.kind} : Written(r)[k] = remote[k]
          /\ r.kind \in Kinds
      BY <2>1, WrittenFacts
    <3> HIDE DEF words
    <3>2. kind \in Kinds /\ a \in Addresses
      BY DEF OutputKinds, Kinds, BitKinds, WordKinds, Unmapped
    <3>3. CASE r.kind # kind
      BY <3>1, <3>2, <3>3
    <3>4. CASE r.kind = kind
      <4>1. r.block \subseteq OfKind(outputs, kind)
        BY <2>1, <3>4, WiringFacts, RequestsHold DEF ClientTypeOK, OfKind
      <4>2. a \notin DOMAIN words
        BY <3>1, <4>1 DEF Unmapped
      <4>3. DOMAIN remote[kind] = Addresses
        BY <3>2 DEF ClientTypeOK
      <4> QED
        BY <3>1, <3>2, <3>4, <4>2, <4>3, UpdatedFacts
    <3> QED
      BY <3>3, <3>4
  <2>2. CASE remote' = remote
    BY <2>2
  <2>3. CASE WriteBlock
    BY <2>1, <2>3 DEF WriteBlock, Requesting
  <2>4. CASE WriteBlockFails
    BY <2>1, <2>4 DEF WriteBlockFails, Requesting
  <2>5. CASE RemoteMoves
    BY <2>5 DEF RemoteMoves
  <2> QED
    BY <2>2, <2>3, <2>4, <2>5
       DEF ClientNext, BeginRead, BeginWrite, Begin, ConnectFails, Close, Finish,
           RaisesMiswired, ReadBlock, ReadBlockFails, Return
<1> QED
  BY <1>1, ClientTypeInvariant, PTL DEF ClientSpec, UnmappedUntouched

\* The slave keeps the registers of an input that does not move.
LEMMA PresentedSame ==
    ASSUME remote' = remote
    PROVE  \A e : Registers(e)' = Registers(e) /\ Present(e)' = Present(e)
BY DEF Registers, Present

\* Two wired channels do not overlap.
LEMMA WiredApart ==
    ASSUME OwnRegisters, ClientTypeOK
    PROVE  /\ \A e, f \in inputs : e # f => Disjoint(e, f)
           /\ \A e, f \in outputs : e # f => Disjoint(e, f)
BY DEF OwnRegisters, ClientTypeOK

LEMMA SpanOf ==
    ASSUME NEW e, e.reg \in RegisterMaps
    PROVE  \A i \in 1 .. e.reg.length : e.reg.address + i - 1 \in Span(e.reg)
BY DEF RegisterMaps, Span

\* A move of one input is a value it has held, and no move of another.
LEMMA MoveIsHeld ==
    ASSUME OwnRegisters, ClientTypeOK, ReadsInv, RemoteMoves
    PROVE  ReadsInv'
<1>1. PICK e \in inputs, v \in Samples :
         /\ remote' = [remote EXCEPT ![e.reg.kind] =
               Updated(@, [a \in Span(e.reg) |-> Encode(e.reg, v)[a - e.reg.address + 1]])]
         /\ held' = IF call = "read"
                    THEN [held EXCEPT ![e.tag] = @ \cup {Decode(e.reg, Encode(e.reg, v))}]
                    ELSE held
  BY DEF RemoteMoves
<1>2. inputs' = inputs /\ call' = call /\ raw' = raw
  BY DEF RemoteMoves
<1> DEFINE words == [a \in Span(e.reg) |-> Encode(e.reg, v)[a - e.reg.address + 1]]
<1>3. /\ \A f \in inputs : f.reg \in RegisterMaps /\ Span(f.reg) \subseteq Addresses
      /\ \A f \in inputs : f.reg.kind \in Kinds
      /\ DOMAIN remote = Kinds /\ \A kind \in Kinds : DOMAIN remote[kind] = Addresses
      /\ DOMAIN held = Tags(inputs)
  BY WiringFacts DEF ClientTypeOK, RegisterMaps
<1>4. /\ remote'[e.reg.kind] = Updated(remote[e.reg.kind], words)
      /\ \A kind \in Kinds \ {e.reg.kind} : remote'[kind] = remote[kind]
  BY <1>1, <1>3
<1>5. \A t \in DOMAIN held : held[t] \subseteq held'[t]
  BY <1>1
<1>6. Registers(e)' = Encode(e.reg, v)
  <2>1. ASSUME NEW i \in 1 .. e.reg.length
        PROVE  remote'[e.reg.kind][e.reg.address + i - 1] = Encode(e.reg, v)[i]
    <3> PICK a : a = e.reg.address + i - 1
      OBVIOUS
    <3>1. a \in Span(e.reg) /\ a - e.reg.address + 1 = i
      BY <1>3 DEF Span, RegisterMaps
    <3>2. words[a] = Encode(e.reg, v)[i]
      BY <3>1
    <3>3. Updated(remote[e.reg.kind], words)[a] = words[a]
      BY <1>3, <3>1, UpdatedFacts
    <3> QED
      BY <1>4, <3>2, <3>3
  <2> QED
    BY <1>3, <2>1, EncodeLength DEF Registers
<1>7. ASSUME NEW f \in inputs, f # e PROVE Registers(f)' = Registers(f)
  <2>1. ASSUME NEW i \in 1 .. f.reg.length
        PROVE  remote'[f.reg.kind][f.reg.address + i - 1]
                  = remote[f.reg.kind][f.reg.address + i - 1]
    <3> PICK a : a = f.reg.address + i - 1
      OBVIOUS
    <3>1. a \in Span(f.reg) /\ a \in Addresses
      BY <1>3, SpanOf
    <3>2. CASE f.reg.kind # e.reg.kind
      BY <1>3, <1>4, <3>2
    <3>3. CASE f.reg.kind = e.reg.kind
      <4>1. a \notin Span(e.reg)
        BY <1>7, <3>1, <3>3, WiredApart DEF Disjoint
      <4>2. DOMAIN words = Span(e.reg)
        OBVIOUS
      <4> HIDE DEF words
      <4>3. Updated(remote[e.reg.kind], words)[a] = remote[e.reg.kind][a]
        BY <1>3, <3>1, <4>1, <4>2, UpdatedFacts
      <4> QED
        BY <1>4, <3>3, <4>3
    <3> QED
      BY <3>2, <3>3
  <2> QED
    BY <2>1 DEF Registers
<1>8. ASSUME call = "read", NEW f \in inputs PROVE Present(f)' \in held'[f.tag]
  <2>1. f.tag \in DOMAIN held
    BY <1>3 DEF Tags
  <2>2. CASE f = e
    <3>1. Present(f)' = Decode(e.reg, Encode(e.reg, v))
      BY <1>6, <2>2 DEF Present
    <3>2. held'[e.tag] = held[e.tag] \cup {Decode(e.reg, Encode(e.reg, v))}
      BY <1>1, <1>8, <2>1, <2>2
    <3> QED
      BY <2>2, <3>1, <3>2
  <2>3. CASE f # e
    <3>1. Present(f)' = Present(f)
      BY <1>7, <2>3 DEF Present
    <3>2. Present(f) \in held[f.tag]
      BY <1>8 DEF ReadsInv
    <3> QED
      BY <1>5, <2>1, <3>1, <3>2
  <2> QED
    BY <2>2, <2>3
<1>9. ASSUME NEW t \in DOMAIN raw PROVE raw[t] \in held'[t]
  BY <1>3, <1>5 DEF ReadsInv, ClientTypeOK
<1> QED
  BY <1>2, <1>8, <1>9 DEF ReadsInv

\* What a read is handed has been held.
LEMMA ReadIsHeld ==
    ASSUME ClientTypeOK, ReadsInv, ReadBlock
    PROVE  ReadsInv'
<1>1. PICK r \in pending : /\ r.block # {} /\ raw' = Updated(raw, BlockValues(r))
                           /\ call = "read"
  BY DEF ReadBlock, Requesting
<1>2. inputs' = inputs /\ call' = call /\ held' = held /\ remote' = remote
  BY DEF ReadBlock
<1>3. /\ r.block \subseteq inputs /\ Channels(r.block)
      /\ \A e \in r.block : e.reg.kind = r.kind
  BY <1>1, WiringFacts, RequestsHold DEF ClientTypeOK
<1>4. ASSUME NEW t \in Tags(r.block) PROVE BlockValues(r)[t] \in held[t]
  <2> PICK e : e = ChannelOf(t, r.block)
    OBVIOUS
  <2>1. e \in r.block /\ e.tag = t /\ e.reg.kind = r.kind
    BY <1>3, ChannelOfTag
  <2> PICK offset : offset = e.reg.address - BlockStart(r.block)
    OBVIOUS
  <2>2. SubSeq(Response(r), offset + 1, offset + e.reg.length) = Registers(e)
    BY <1>3, <2>1, SliceOfResponse
  <2>3. BlockValues(r)[t] = Present(e)
    BY <2>2 DEF BlockValues, Present
  <2>4. Present(e) \in held[e.tag]
    BY <1>1, <1>3, <2>1 DEF ReadsInv
  <2> QED
    BY <2>1, <2>3, <2>4
<1>5. DOMAIN BlockValues(r) = Tags(r.block)
  BY DEF BlockValues
<1>6. ASSUME NEW t \in DOMAIN raw' PROVE raw'[t] \in held'[t]
  <2>1. CASE t \in Tags(r.block)
    BY <1>1, <1>2, <1>4, <1>5, <2>1 DEF Updated
  <2>2. CASE t \notin Tags(r.block)
    <3>1. t \in DOMAIN raw /\ raw'[t] = raw[t]
      BY <1>1, <1>5, <2>2 DEF Updated
    <3> QED
      BY <1>2, <3>1 DEF ReadsInv
  <2> QED
    BY <2>1, <2>2
<1>7. \A e \in inputs : Present(e)' = Present(e)
  BY <1>2, PresentedSame
<1> QED
  BY <1>2, <1>6, <1>7 DEF ReadsInv

\* A read, on success or as partial_inputs, hands over values the remote held
\* during that very call, whatever it moves between two requests.
THEOREM ReadsStayWhole ==
    ASSUME OwnRegisters
    PROVE  ClientSpec => []ReadsAreWhole
<1>1. ClientInit => ReadsInv
  BY DEF ClientInit, ReadsInv
<1>2. ClientTypeOK /\ ReadsInv /\ [ClientNext]_clientVars => ReadsInv'
  <2> SUFFICES ASSUME ClientTypeOK, ReadsInv, [ClientNext]_clientVars PROVE ReadsInv'
    OBVIOUS
  <2>1. CASE BeginRead
    <3>1. /\ inputs' = inputs /\ remote' = remote /\ DOMAIN raw' = {} /\ held' = Now
      BY <2>1 DEF BeginRead, Begin
    <3>2. \A e \in inputs : Present(e) \in Now[e.tag]
      BY DEF Now, Tags
    <3>3. \A e \in inputs : Present(e)' = Present(e)
      BY <3>1, PresentedSame
    <3> QED
      BY <3>1, <3>2, <3>3 DEF ReadsInv
  <2>2. CASE ReadBlock
    BY <2>2, ReadIsHeld
  <2>3. CASE RemoteMoves
    BY <2>3, MoveIsHeld
  <2>4. CASE WriteBlock \/ WriteBlockFails
    BY <2>4 DEF WriteBlock, WriteBlockFails, Requesting, Return, ReadsInv
  <2>5. ASSUME /\ inputs' = inputs /\ remote' = remote /\ held' = held
               /\ raw' = raw \/ DOMAIN raw' = {}
               /\ call' = call \/ call' # "read"
        PROVE  ReadsInv'
    <3>1. \A e \in inputs : Present(e)' = Present(e)
      BY <2>5, PresentedSame
    <3> QED
      BY <2>5, <3>1 DEF ReadsInv
  <2>6. CASE BeginWrite
    BY <2>5, <2>6 DEF BeginWrite, Begin
  <2>7. ASSUME NEW kind \in {"read", "write"}, ConnectFails(kind) PROVE ReadsInv'
    BY <2>5, <2>7 DEF ConnectFails
  <2>8. CASE Close \/ UNCHANGED clientVars
    BY <2>5, <2>8 DEF Close, clientVars
  <2>9. CASE Finish \/ RaisesMiswired \/ ReadBlockFails
    BY <2>5, <2>9 DEF Finish, RaisesMiswired, ReadBlockFails, Return
  <2> QED
    BY <2>1, <2>2, <2>3, <2>4, <2>6, <2>7, <2>8, <2>9 DEF ClientNext
<1>3. ReadsInv => ReadsAreWhole
  BY DEF ReadsInv, ReadsAreWhole
<1> QED
  BY <1>1, <1>2, <1>3, ClientTypeInvariant, PTL DEF ClientSpec

\* A request drives the outputs of its block.
LEMMA BlockDrives ==
    ASSUME OwnRegisters, ClientTypeOK, call = "write",
           NEW r \in pending, r.block # {}, NEW e \in r.block,
           remote' = Written(r), image' = image
    PROVE  Driven(e)'
<1> PICK words : words = BlockWords(r.block)
  OBVIOUS
<1>1. /\ DOMAIN words = BlockRange(r.block) /\ DOMAIN words \subseteq Addresses
      /\ remote'[r.kind] = Updated(remote[r.kind], words) /\ r.kind \in Kinds
  BY WrittenFacts
<1>2. /\ r.block \subseteq outputs /\ Channels(r.block)
      /\ \A f \in r.block : f.reg.kind = r.kind
  BY WiringFacts, RequestsHold DEF ClientTypeOK
<1>3. e.reg \in RegisterMaps /\ e.reg.address \in Nat /\ e.reg.length \in {1, 2}
  BY <1>2, WiringFacts DEF RegisterMaps
<1>4. DOMAIN image = Tags(outputs) \ Missing /\ e.tag \in Tags(outputs)
  BY <1>2 DEF ClientTypeOK, Tags
<1>5. DOMAIN remote[r.kind] = Addresses
  BY <1>1 DEF ClientTypeOK
<1>6. ASSUME NEW i \in 1 .. e.reg.length
      PROVE  remote'[e.reg.kind][e.reg.address + i - 1] =
                IF e.tag \in Missing THEN 0 ELSE Encode(e.reg, image[e.tag])[i]
  <2> PICK a : a = e.reg.address + i - 1
    OBVIOUS
  <2>1. a \in Span(e.reg) /\ a - e.reg.address + 1 = i
    BY <1>3 DEF Span
  <2>2. a \in BlockRange(r.block)
    <3>1. PICK first \in Nat, last \in Nat :
             /\ BlockRange(r.block) = first .. (last - 1)
             /\ \A f \in r.block : first <= f.reg.address
                                   /\ f.reg.address + f.reg.length <= last
      BY <1>2, BlockExtent
    <3> PICK x : x = e.reg.address
      OBVIOUS
    <3> PICK l : l = e.reg.length
      OBVIOUS
    <3>2. first <= x /\ x + l <= last /\ x \in Nat /\ l \in Nat
      BY <1>3, <3>1
    <3>3. a \in first .. (last - 1)
      BY ONLY <3>2, a = x + i - 1, i \in 1 .. l, first \in Nat, last \in Nat
    <3> QED
      BY <3>1, <3>3
  <2>3. remote'[e.reg.kind][a] = words[a]
    <3>1. Updated(remote[r.kind], words)[a] = words[a]
      BY <1>1, <1>5, <2>2, UpdatedFacts
    <3> QED
      BY <1>1, <1>2, <3>1
  <2> DEFINE owners == {f \in r.block : a \in Span(f.reg) /\ f.tag \in DOMAIN image}
  <2>4. \A f \in r.block : a \in Span(f.reg) => f = e
    BY <1>2, <2>1, WiredApart DEF Disjoint
  <2>5. words[a] = IF owners = {} THEN 0
                   ELSE LET f == CHOOSE f \in owners : TRUE
                        IN  Encode(f.reg, image[f.tag])[a - f.reg.address + 1]
    BY <2>2 DEF BlockWords
  <2>6. CASE e.tag \in Missing
    <3>1. owners = {}
      BY <1>4, <2>4, <2>6
    <3> QED
      BY <2>3, <2>5, <2>6, <3>1
  <2>7. CASE e.tag \notin Missing
    <3>1. owners = {e}
      BY <1>4, <2>1, <2>4, <2>7
    <3>2. (CHOOSE f \in {e} : TRUE) = e
      OBVIOUS
    <3>3. words[a] = Encode(e.reg, image[e.tag])[i]
      <4> HIDE DEF owners
      <4> QED
        BY <2>1, <2>5, <3>1, <3>2
    <3> QED
      BY <2>3, <2>7, <3>3
  <2> QED
    BY <2>6, <2>7
<1>7. CASE e.tag \in Missing
  BY <1>6, <1>7 DEF Driven, Registers
<1>8. CASE e.tag \notin Missing
  <2>1. Registers(e)' = [i \in 1 .. e.reg.length |-> Encode(e.reg, image[e.tag])[i]]
    BY <1>6, <1>8 DEF Registers
  <2>2. Registers(e)' = Encode(e.reg, image[e.tag])
    BY <1>3, <2>1, EncodeLength
  <2> QED
    BY <1>8, <2>2 DEF Driven
<1> QED
  BY <1>7, <1>8

\* It leaves the others alone.
LEMMA BlockLeaves ==
    ASSUME OwnRegisters, ClientTypeOK, call = "write",
           NEW r \in pending, r.block # {}, NEW e \in outputs, e \notin r.block,
           remote' = Written(r)
    PROVE  Registers(e)' = Registers(e)
<1> PICK words : words = BlockWords(r.block)
  OBVIOUS
<1>1. /\ DOMAIN words \subseteq Addresses
      /\ \A a \in DOMAIN words : \E f \in r.block : a \in Span(f.reg)
      /\ remote'[r.kind] = Updated(remote[r.kind], words) /\ r.kind \in Kinds
      /\ \A kind \in Kinds \ {r.kind} : remote'[kind] = remote[kind]
  BY WrittenFacts
<1>2. /\ r.block \subseteq outputs /\ \A f \in r.block : f.reg.kind = r.kind
  BY WiringFacts, RequestsHold DEF ClientTypeOK
<1>3. /\ e.reg \in RegisterMaps /\ e.reg.kind \in Kinds /\ Span(e.reg) \subseteq Addresses
      /\ DOMAIN remote[r.kind] = Addresses
  BY <1>1, WiringFacts DEF RegisterMaps, ClientTypeOK
<1>4. ASSUME NEW i \in 1 .. e.reg.length
      PROVE  remote'[e.reg.kind][e.reg.address + i - 1]
                = remote[e.reg.kind][e.reg.address + i - 1]
  <2> PICK a : a = e.reg.address + i - 1
    OBVIOUS
  <2>1. a \in Span(e.reg) /\ a \in Addresses
    BY <1>3, SpanOf
  <2>2. CASE e.reg.kind # r.kind
    BY <1>1, <1>3, <2>2
  <2>3. CASE e.reg.kind = r.kind
    <3>1. a \notin DOMAIN words
      BY <1>1, <1>2, <2>1, <2>3, WiredApart DEF Disjoint
    <3>2. Updated(remote[r.kind], words)[a] = remote[r.kind][a]
      BY <1>1, <1>3, <2>1, <3>1, UpdatedFacts
    <3> QED
      BY <1>1, <2>3, <3>2
  <2> QED
    BY <2>2, <2>3
<1> QED
  BY <1>4 DEF Registers

LEMMA WriteGoesOn ==
    ASSUME OwnRegisters, ClientTypeOK, WritesInv, WriteBlock
    PROVE  WritesInv'
<1>1. PICK r \in pending : /\ r.block # {} /\ remote' = Written(r)
                           /\ pending' = pending \ {r} /\ call = "write"
  BY DEF WriteBlock, Requesting
<1>2. outputs' = outputs /\ image' = image /\ call' = call
  BY DEF WriteBlock
<1>3. ASSUME NEW e \in outputs
      PROVE  \/ Driven(e)'
             \/ \E q \in pending' : q.kind = e.reg.kind /\ (q.block = {} \/ e \in q.block)
  <2>1. CASE e \in r.block
    BY <1>1, <1>2, <2>1, BlockDrives
  <2>2. CASE e \notin r.block /\ Driven(e)
    <3>1. Registers(e)' = Registers(e)
      BY <1>1, <2>2, BlockLeaves
    <3> QED
      BY <1>2, <2>2, <3>1 DEF Driven
  <2>3. CASE e \notin r.block /\ ~Driven(e)
    <3>1. PICK q \in pending : q.kind = e.reg.kind /\ (q.block = {} \/ e \in q.block)
      BY <1>1, <2>3 DEF WritesInv
    <3>2. q \in pending'
      BY <1>1, <2>3, <3>1
    <3> QED
      BY <3>1, <3>2
  <2> QED
    BY <2>1, <2>2, <2>3
<1> QED
  BY <1>1, <1>2, <1>3 DEF WritesInv

\* The slave's own inputs are none of the outputs' registers.
LEMMA MoveLeavesOutputs ==
    ASSUME ClientTypeOK, RemoteMoves, NEW e \in outputs
    PROVE  Registers(e)' = Registers(e)
<1>1. PICK f \in inputs, v \in Samples :
         remote' = [remote EXCEPT ![f.reg.kind] =
               Updated(@, [a \in Span(f.reg) |-> Encode(f.reg, v)[a - f.reg.address + 1]])]
  BY DEF RemoteMoves
<1>2. f.reg.kind \in InputKinds /\ e.reg.kind \in OutputKinds
  BY WiringFacts
<1>3. f.reg.kind # e.reg.kind
  BY <1>2 DEF InputKinds, OutputKinds
<1>4. remote'[e.reg.kind] = remote[e.reg.kind]
  BY <1>1, <1>2, <1>3 DEF ClientTypeOK, OutputKinds, Kinds, BitKinds, WordKinds
<1> QED
  BY <1>4 DEF Registers

\* After a good write every mapped output holds what the PLC last drove, whatever
\* requests of earlier writes were lost or answered with an error.
THEOREM GoodWritesComplete ==
    ASSUME OwnRegisters
    PROVE  ClientSpec => []GoodWriteIsComplete
<1>1. ClientInit => WritesInv
  BY DEF ClientInit, WritesInv
<1>2. ClientTypeOK /\ WritesInv /\ [ClientNext]_clientVars => WritesInv'
  <2> SUFFICES ASSUME ClientTypeOK, WritesInv, [ClientNext]_clientVars PROVE WritesInv'
    OBVIOUS
  <2>0. DOMAIN outcome = {"read", "write"} /\ call \in {"none", "read", "write"}
    BY DEF ClientTypeOK
  <2>1. ASSUME /\ outputs' = outputs /\ image' = image /\ call # "write" /\ call' # "write"
               /\ outcome'["write"] = "ok" => outcome["write"] = "ok"
               /\ \A e \in outputs : Registers(e)' = Registers(e)
        PROVE  WritesInv'
    BY <2>1 DEF WritesInv, Driven
  <2>2. ASSUME outputs' = outputs, call' # "write", outcome'["write"] # "ok"
        PROVE  WritesInv'
    BY <2>2 DEF WritesInv
  <2>3. remote' = remote => \A e \in outputs : Registers(e)' = Registers(e)
    BY DEF Registers
  <2>4. CASE BeginRead
    BY <2>0, <2>1, <2>3, <2>4 DEF BeginRead, Begin
  <2>5. CASE BeginWrite
    <3>1. /\ pending' = Requests(outputs, OutputKinds) /\ call' = "write"
          /\ outputs' = outputs
      BY <2>5 DEF BeginWrite, Begin
    <3>2. ASSUME NEW e \in outputs
          PROVE  \E r \in pending' : r.kind = e.reg.kind /\ (r.block = {} \/ e \in r.block)
      BY <3>1, WiringFacts, RequestsCover
    <3> QED
      BY <3>1, <3>2 DEF WritesInv
  <2>6. ASSUME NEW kind \in {"read", "write"}, ConnectFails(kind) PROVE WritesInv'
    <3>1. CASE kind = "read"
      BY <2>0, <2>1, <2>3, <2>6, <3>1 DEF ConnectFails
    <3>2. CASE kind = "write"
      BY <2>0, <2>2, <2>6, <3>2 DEF ConnectFails
    <3> QED
      BY <3>1, <3>2
  <2>7. CASE Close
    BY <2>0, <2>1, <2>3, <2>7 DEF Close
  <2>8. CASE Finish
    <3>1. CASE call = "write"
      <4>1. \A e \in outputs : Driven(e)
        BY <2>8, <3>1 DEF Finish, WritesInv
      <4>2. /\ outputs' = outputs /\ image' = image /\ remote' = remote /\ call' = "none"
        BY <2>8 DEF Finish, Return
      <4>3. \A e \in outputs : Driven(e)'
        BY <2>3, <4>1, <4>2 DEF Driven
      <4> QED
        BY <4>2, <4>3 DEF WritesInv
    <3>2. CASE call # "write"
      BY <2>0, <2>1, <2>3, <2>8, <3>2 DEF Finish, Return
    <3> QED
      BY <3>1, <3>2
  <2>9. CASE RaisesMiswired
    <3>1. CASE call = "write"
      BY <2>0, <2>2, <2>9, <3>1 DEF RaisesMiswired, Return
    <3>2. CASE call # "write"
      BY <2>0, <2>1, <2>3, <2>9, <3>2 DEF RaisesMiswired, Return
    <3> QED
      BY <3>1, <3>2
  <2>10. CASE ReadBlock
    BY <2>0, <2>1, <2>3, <2>10 DEF ReadBlock, Requesting
  <2>11. CASE ReadBlockFails
    BY <2>0, <2>1, <2>3, <2>11 DEF ReadBlockFails, Requesting, Return
  <2>12. CASE WriteBlock
    BY <2>12, WriteGoesOn
  <2>13. CASE WriteBlockFails
    BY <2>0, <2>2, <2>13 DEF WriteBlockFails, Requesting, Return
  <2>14. CASE RemoteMoves
    <3>1. \A e \in outputs : Registers(e)' = Registers(e)
      BY <2>14, MoveLeavesOutputs
    <3> QED
      BY <2>1, <2>14, <3>1 DEF RemoteMoves
  <2>15. CASE UNCHANGED clientVars
    BY <2>15 DEF clientVars, WritesInv, Driven, Registers
  <2> QED
    BY <2>4, <2>5, <2>6, <2>7, <2>8, <2>9, <2>10, <2>11, <2>12, <2>13, <2>14, <2>15
       DEF ClientNext
<1>3. WritesInv => GoodWriteIsComplete
  BY DEF WritesInv, GoodWriteIsComplete
<1> QED
  BY <1>1, <1>2, <1>3, ClientTypeInvariant, PTL DEF ClientSpec

-----------------------------------------------------------------------------
(***************************************************************************)
(* The slave: the operator window.                                         *)
(***************************************************************************)

\* The maps, entry by entry.
LEMMA MapEntries ==
    /\ DOMAIN Publish = 1 .. Len(Publish) /\ Len(Publish) \in Nat
    /\ DOMAIN Accept = 1 .. Len(Accept) /\ Len(Accept) \in Nat
    /\ \A i \in DOMAIN Publish : /\ Publish[i].tag \in Published
                                 /\ Publish[i].reg \in RegisterMaps
                                 /\ Publish[i] \in Entries
    /\ \A j \in DOMAIN Accept : /\ Accept[j].tag \in Accepted
                                /\ Accept[j].reg \in RegisterMaps
                                /\ Accept[j] \in Entries
    /\ ToSet(Publish) = {Publish[i] : i \in DOMAIN Publish}
    /\ ToSet(Accept) = {Accept[j] : j \in DOMAIN Accept}
<1>1. /\ Publish \in Seq([tag : Published, reg : RegisterMaps])
      /\ Accept \in Seq([tag : Accepted, reg : RegisterMaps])
  BY WindowAssumption
<1>2. /\ DOMAIN Publish = 1 .. Len(Publish) /\ Len(Publish) \in Nat
      /\ \A i \in DOMAIN Publish : Publish[i] \in [tag : Published, reg : RegisterMaps]
  BY <1>1, LenProperties, ElementOfSeq
<1>3. /\ DOMAIN Accept = 1 .. Len(Accept) /\ Len(Accept) \in Nat
      /\ \A j \in DOMAIN Accept : Accept[j] \in [tag : Accepted, reg : RegisterMaps]
  BY <1>1, LenProperties, ElementOfSeq
<1>4. /\ ToSet(Publish) = {Publish[i] : i \in DOMAIN Publish}
      /\ ToSet(Accept) = {Accept[j] : j \in DOMAIN Accept}
  BY DEF ToSet
<1> QED
  BY <1>2, <1>3, <1>4 DEF Entries

\* A channel just written reads back as the words written.
LEMMA PutThenLoad ==
    ASSUME NEW e \in Entries, e.reg \in RegisterMaps, NEW v, NEW s, DOMAIN s = Places
    PROVE  Load(e, Put(e, v, s)) = Encode(e.reg, v)
<1> DEFINE place(i) == <<e.reg.kind, e.reg.address + i - 1>>
<1>1. e.reg.address \in Nat /\ e.reg.length \in {1, 2}
  BY DEF RegisterMaps
<1>2. ASSUME NEW i \in 1 .. e.reg.length
      PROVE  Put(e, v, s)[place(i)] = Encode(e.reg, v)[i]
  <2>1. e.reg.address + i - 1 \in Span(e.reg)
    BY <1>1 DEF Span
  <2>2. place(i) \in Places
    BY <2>1 DEF Places
  <2>3. (e.reg.address + i - 1) - e.reg.address + 1 = i
    BY <1>1
  <2> QED
    BY <2>1, <2>2, <2>3 DEF Put
<1> QED
  BY <1>2, EncodeLength DEF Load

\* A channel that shares no register with the one written keeps its words.
LEMMA PutElsewhere ==
    ASSUME NEW e \in Entries, NEW f \in Entries, f.reg \in RegisterMaps,
           NEW v, NEW s, DOMAIN s = Places,
           e.reg.kind = f.reg.kind => Span(e.reg) \cap Span(f.reg) = {}
    PROVE  Load(f, Put(e, v, s)) = Load(f, s)
<1>1. f.reg.address \in Nat /\ f.reg.length \in {1, 2}
  BY DEF RegisterMaps
<1>2. ASSUME NEW i \in 1 .. f.reg.length
      PROVE  Put(e, v, s)[<<f.reg.kind, f.reg.address + i - 1>>]
                = s[<<f.reg.kind, f.reg.address + i - 1>>]
  <2>1. f.reg.address + i - 1 \in Span(f.reg)
    BY <1>1 DEF Span
  <2>2. <<f.reg.kind, f.reg.address + i - 1>> \in Places
    BY <2>1 DEF Places
  <2> QED
    BY <2>1, <2>2 DEF Put
<1> QED
  BY <1>2 DEF Load

LEMMA PutPlaces ==
    ASSUME NEW e, NEW v, NEW s PROVE DOMAIN Put(e, v, s) = DOMAIN s
  BY DEF Put

-----------------------------------------------------------------------------
\* sync() goes through each map in order and then back to the scan loop.
LEMMA PositionInvariant == Spec => []Position
<1>1. Init => Position
  BY DEF Init, Position
<1>2. Position /\ [Next]_vars => Position'
  <2> SUFFICES ASSUME Position, [Next]_vars PROVE Position'
    OBVIOUS
  <2>1. /\ DOMAIN Publish = 1 .. Len(Publish) /\ Len(Publish) \in Nat
        /\ DOMAIN Accept = 1 .. Len(Accept) /\ Len(Accept) \in Nat
        /\ Publish # <<>> => 1 \in DOMAIN Publish
        /\ Accept # <<>> => 1 \in DOMAIN Accept
    BY MapEntries, EmptySeq, WindowAssumption
  <2>2. CASE Scan
    BY <2>1, <2>2 DEF Scan, AfterPublish, Position
  <2>3. CASE PublishTag
    BY <2>1, <2>3 DEF PublishTag, Advance, AfterPublish, Position
  <2>4. CASE AcceptTag
    BY <2>1, <2>4 DEF AcceptTag, Advance, Position
  <2>5. CASE Start \/ Bind \/ Stop \/ MasterWrites \/ UNCHANGED vars
    BY <2>5 DEF Start, Bind, Stop, MasterWrites, vars, Position
  <2> QED
    BY <2>2, <2>3, <2>4, <2>5 DEF Next, Sync
<1> QED
  BY <1>1, <1>2, PTL DEF Spec

-----------------------------------------------------------------------------
\* Separate maps, entry by entry.
LEMMA SeparateEntries ==
    ASSUME Separate
    PROVE  /\ \A i, j \in DOMAIN Publish : i # j =>
                 /\ Publish[i].tag # Publish[j].tag
                 /\ Publish[i].reg.kind = Publish[j].reg.kind =>
                       Span(Publish[i].reg) \cap Span(Publish[j].reg) = {}
           /\ \A i, j \in DOMAIN Accept : i # j =>
                 /\ Accept[i].tag # Accept[j].tag
                 /\ Accept[i].reg.kind = Accept[j].reg.kind =>
                       Span(Accept[i].reg) \cap Span(Accept[j].reg) = {}
           /\ \A i \in DOMAIN Publish, j \in DOMAIN Accept :
                 /\ Publish[i].tag # Accept[j].tag
                 /\ Publish[i].reg.kind = Accept[j].reg.kind =>
                       Span(Publish[i].reg) \cap Span(Accept[j].reg) = {}
           /\ Published \cap Accepted = {}
<1>1. Published \cap Accepted = {}
  BY MapEntries DEF Separate, Apart, Disjoint, Published, Accepted
<1> QED
  BY <1>1 DEF Separate, Apart, Disjoint

\* The registers of an accepted channel always hold the last whole command, and
\* what sync() has absorbed since the scan is in the tags.
LEMMA CommandsInvariant == ASSUME Separate PROVE Spec => []CommandsInv
<1>1. Init => CommandsInv
  BY WindowAssumption, MapEntries DEF Init, CommandsInv
<1>2. Position /\ CommandsInv /\ [Next]_vars => CommandsInv'
  <2> SUFFICES ASSUME Position, CommandsInv, [Next]_vars PROVE CommandsInv'
    OBVIOUS
  <2> DEFINE Holds(j) == written[Accept[j].tag] # {} =>
                            Stored(Accept[j]) \in written[Accept[j].tag]
             Has(j) == absorbed[Accept[j].tag] # {} =>
                            value[Accept[j].tag] \in absorbed[Accept[j].tag]
             Past(j) == pc = "scan" \/ (pc = "accept" /\ j < next)
             Shape == /\ DOMAIN value = WindowTags /\ DOMAIN store = Places
                      /\ DOMAIN written = Accepted /\ DOMAIN absorbed = Accepted
  <2>0. /\ \A j \in DOMAIN Accept : Holds(j) /\ (Past(j) => Has(j))
        /\ Shape
    BY DEF CommandsInv
  <2>01. ASSUME \A j \in DOMAIN Accept : Holds(j)' /\ (Past(j)' => Has(j)'), Shape'
         PROVE  CommandsInv'
    BY <2>01 DEF CommandsInv
  <2>02. /\ DOMAIN Publish = 1 .. Len(Publish) /\ Len(Publish) \in Nat
         /\ DOMAIN Accept = 1 .. Len(Accept) /\ Len(Accept) \in Nat
         /\ \A j \in DOMAIN Accept : /\ Accept[j].tag \in Accepted
                                     /\ Accept[j].tag \in WindowTags
    BY MapEntries DEF WindowTags
  <2>03. ASSUME UNCHANGED <<store, written>>
         PROVE  \A j \in DOMAIN Accept : Holds(j)'
    BY <2>0, <2>03 DEF Stored, Load
  <2>1. CASE Scan
    <3>1. UNCHANGED <<store, written, absorbed>> /\ DOMAIN value' = WindowTags
      BY <2>1 DEF Scan
    <3>2. \A j \in DOMAIN Accept : ~Past(j)'
      <4>1. pc' = "publish" \/ pc' = AfterPublish
        BY <2>1 DEF Scan
      <4>2. ASSUME NEW j \in DOMAIN Accept PROVE pc' # "scan"
        <5>1. Accept # <<>>
          BY <4>2
        <5> QED
          BY <4>1, <5>1 DEF AfterPublish
      <4>3. next' = 1
        BY <2>1 DEF Scan, Position
      <4> QED
        BY <4>2, <4>3, <2>02
    <3> QED
      BY <2>0, <2>01, <2>03, <3>1, <3>2
  <2>2. CASE PublishTag
    <3>1. UNCHANGED <<value, written, absorbed>>
      BY <2>2 DEF PublishTag
    <3>2. next \in DOMAIN Publish /\ store' = Put(Publish[next], value[Publish[next].tag], store)
      BY <2>2 DEF PublishTag, Position
    <3>3. ASSUME NEW j \in DOMAIN Accept PROVE Load(Accept[j], store') = Load(Accept[j], store)
      BY <3>2, <2>0, MapEntries, SeparateEntries, PutElsewhere
    <3>4. \A j \in DOMAIN Accept : Holds(j)'
      BY <3>1, <3>3, <2>0 DEF Stored
    <3>5. DOMAIN store' = Places
      BY <3>2, <2>0, PutPlaces
    <3>6. \A j \in DOMAIN Accept : ~Past(j)'
      <4>1. \/ next' = next + 1 /\ pc' = "publish"
            \/ next' = 1 /\ pc' = AfterPublish
        BY <2>2 DEF PublishTag, Advance
      <4>2. ASSUME NEW j \in DOMAIN Accept PROVE AfterPublish = "accept"
        <5>1. Accept # <<>>
          BY <4>2
        <5> QED
          BY <5>1 DEF AfterPublish
      <4> QED
        BY <4>1, <4>2, <2>02
    <3> QED
      BY <2>0, <2>01, <3>1, <3>4, <3>5, <3>6
  <2>3. CASE AcceptTag
    <3> PICK k \in DOMAIN Accept : k = next
      BY <2>3 DEF AcceptTag, Position
    <3> DEFINE t == Accept[k].tag
    <3>1. pc = "accept"
      BY <2>3 DEF AcceptTag
    <3>2. UNCHANGED <<store, written>>
      BY <2>3 DEF AcceptTag
    <3>3. /\ value' = [value EXCEPT ![t] = Stored(Accept[k])]
          /\ absorbed' = [absorbed EXCEPT ![t] = written[t]]
      BY <2>3 DEF AcceptTag
    <3>4. /\ value'[t] = Stored(Accept[k]) /\ absorbed'[t] = written[t]
      BY <3>1, <3>3, <2>0, <2>02
    <3>5. Has(k)'
      BY <3>1, <3>4, <2>0
    <3>6. ASSUME NEW j \in DOMAIN Accept, j # k PROVE Has(j)' <=> Has(j)
      <4>1. Accept[j].tag # t
        BY <3>1, <3>6, SeparateEntries
      <4> QED
        BY <4>1, <3>3, <2>0, <2>02
    <3>7. ASSUME NEW j \in DOMAIN Accept, Past(j)' PROVE j = k \/ Past(j)
      BY <3>7, <2>3, <3>1, <2>02 DEF AcceptTag, Advance
    <3>8. \A j \in DOMAIN Accept : Past(j)' => Has(j)'
      BY <3>5, <3>6, <3>7, <2>0
    <3>9. Shape'
      BY <3>2, <3>3, <2>0
    <3> QED
      BY <2>01, <2>03, <3>2, <3>8, <3>9
  <2>4. CASE MasterWrites
    <3>1. PICK e \in Entries, c \in Commands :
             /\ store' = Put(e, c, store)
             /\ written' = IF e.tag \in Accepted
                           THEN [written EXCEPT ![e.tag] = {Decode(e.reg, Encode(e.reg, c))}]
                           ELSE written
      BY <2>4 DEF MasterWrites
    <3>2. UNCHANGED <<value, absorbed, pc, next>>
      BY <2>4 DEF MasterWrites
    <3>3. ASSUME NEW j \in DOMAIN Accept PROVE Holds(j)'
      <4>0. Accept[j] \in Entries /\ Accept[j].reg \in RegisterMaps /\ Accept[j].tag \in Accepted
        BY MapEntries
      <4>1. CASE e = Accept[j]
        <5>1. Load(Accept[j], store') = Encode(e.reg, c)
          BY <3>1, <4>0, <4>1, <2>0, PutThenLoad
        <5>2. written'[e.tag] = {Decode(e.reg, Encode(e.reg, c))}
          BY <3>1, <4>0, <4>1, <2>0
        <5>3. Stored(Accept[j])' = Decode(e.reg, Encode(e.reg, c))
          BY <4>1, <5>1 DEF Stored
        <5> QED
          BY <4>1, <5>2, <5>3
      <4>2. CASE e # Accept[j]
        <5>1. \/ \E i \in DOMAIN Publish : e = Publish[i]
              \/ \E i \in DOMAIN Accept : i # j /\ e = Accept[i]
          BY <4>2, MapEntries DEF Entries
        <5>2. /\ e.tag # Accept[j].tag
              /\ e.reg.kind = Accept[j].reg.kind =>
                    Span(e.reg) \cap Span(Accept[j].reg) = {}
          BY <5>1, SeparateEntries
        <5>3. Load(Accept[j], store') = Load(Accept[j], store)
          BY <3>1, <4>0, <5>2, <2>0, PutElsewhere
        <5>4. written'[Accept[j].tag] = written[Accept[j].tag]
          BY <3>1, <4>0, <5>2, <2>0
        <5> QED
          BY <5>3, <5>4, <2>0 DEF Stored
      <4> QED
        BY <4>1, <4>2
    <3>4. Shape'
      BY <3>1, <3>2, <2>0, PutPlaces
    <3> QED
      BY <2>0, <2>01, <3>2, <3>3, <3>4
  <2>5. CASE Start \/ Bind \/ Stop \/ UNCHANGED vars
    <3>1. UNCHANGED <<value, store, pc, next, written, absorbed>>
      BY <2>5 DEF Start, Bind, Stop, vars, history
    <3> QED
      BY <3>1, <2>0, <2>01, <2>03
  <2> QED
    BY <2>1, <2>2, <2>3, <2>4, <2>5 DEF Next, Sync
<1> QED
  BY <1>1, <1>2, PositionInvariant, PTL DEF Spec

\* A tag never holds half a command, nor an old one: for every pair of separate
\* maps, whatever the master writes between any two tags of a sync().
THEOREM CommandsStayWhole ==
    ASSUME Separate PROVE Spec => []CommandsAreWhole
<1>1. CommandsInv => CommandsAreWhole
  <2> SUFFICES ASSUME CommandsInv, pc = "scan", NEW t \in Accepted, absorbed[t] # {}
               PROVE  value[t] \in absorbed[t]
    BY DEF CommandsAreWhole
  <2>1. PICK j \in DOMAIN Accept : t = Accept[j].tag
    BY MapEntries DEF Accepted
  <2> QED
    BY <2>1 DEF CommandsInv
<1> QED
  BY <1>1, CommandsInvariant, PTL

-----------------------------------------------------------------------------
\* What the registers of a published channel hold is the value of its tag after
\* the last scan or the one before it, unless the master wrote there since.
LEMMA WindowInvariant == ASSUME Separate PROVE Spec => []WindowInv
<1> DEFINE Settled(i) == value[Publish[i].tag] \in settled[Publish[i].tag]
           Recent(i) == \E v \in settled[Publish[i].tag] :
                           Load(Publish[i], store) = Encode(Publish[i].reg, v)
           Newest(i) == Load(Publish[i], store) =
                           Encode(Publish[i].reg, value[Publish[i].tag])
           Clean(i) == Publish[i].tag \notin stray
           Past(i) == pc # "publish" \/ i < next
           Good(i) == Settled(i) /\ (Clean(i) => Recent(i) /\ (Past(i) => Newest(i)))
           Shape == /\ DOMAIN value = WindowTags /\ DOMAIN store = Places
                    /\ DOMAIN settled = Published
<1>0. /\ DOMAIN Publish = 1 .. Len(Publish) /\ Len(Publish) \in Nat
      /\ DOMAIN Accept = 1 .. Len(Accept) /\ Len(Accept) \in Nat
      /\ \A i \in DOMAIN Publish : /\ Publish[i].tag \in Published
                                   /\ Publish[i].tag \in WindowTags
                                   /\ Publish[i].reg \in RegisterMaps
                                   /\ Publish[i] \in Entries
  BY MapEntries DEF WindowTags
<1>1. Init => WindowInv
  BY <1>0, WindowAssumption DEF Init, WindowInv
<1>2. Position /\ WindowInv /\ [Next]_vars => WindowInv'
  <2> SUFFICES ASSUME Position, WindowInv, [Next]_vars PROVE WindowInv'
    OBVIOUS
  <2>0. (\A i \in DOMAIN Publish : Good(i)) /\ Shape
    BY DEF WindowInv
  <2>01. ASSUME \A i \in DOMAIN Publish : Good(i)', Shape' PROVE WindowInv'
    BY <2>01 DEF WindowInv
  <2>1. CASE Scan
    <3>1. PICK v \in [Published -> ProgramValues], cleared \in SUBSET (Accepted \ Published) :
             /\ value' = [t \in WindowTags |->
                             IF t \in Published THEN v[t]
                             ELSE IF t \in cleared THEN 0
                             ELSE value[t]]
             /\ settled' = [t \in Published |-> {v[t], value[t]}]
      BY <2>1 DEF Scan
    <3>2. pc = "scan" /\ next = 1 /\ next' = 1 /\ UNCHANGED <<store, stray>>
      BY <2>1 DEF Scan, Position
    <3>3. ASSUME NEW i \in DOMAIN Publish PROVE Good(i)'
      <4>1. pc' = "publish"
        <5>1. Publish # <<>>
          BY <3>3
        <5> QED
          BY <5>1, <2>1 DEF Scan
      <4>2. ~Past(i)'
        BY <4>1, <3>2, <1>0
      <4>3. value'[Publish[i].tag] = v[Publish[i].tag]
            /\ settled'[Publish[i].tag] = {v[Publish[i].tag], value[Publish[i].tag]}
        BY <3>1, <1>0
      <4>4. Clean(i) => Newest(i)
        BY <2>0, <3>2
      <4>5. Load(Publish[i], store') = Load(Publish[i], store)
        BY <3>2
      <4>6. Clean(i)' => Recent(i)'
        BY <4>3, <4>4, <4>5, <3>2
      <4> QED
        BY <4>2, <4>3, <4>6
    <3>4. Shape'
      BY <3>1, <3>2, <2>0
    <3> QED
      BY <2>01, <3>3, <3>4
  <2>2. CASE PublishTag
    <3> PICK k \in DOMAIN Publish : k = next
      BY <2>2 DEF PublishTag, Position
    <3>1. /\ pc = "publish" /\ UNCHANGED <<value, settled>>
          /\ store' = Put(Publish[k], value[Publish[k].tag], store)
          /\ stray' = stray \ {Publish[k].tag}
      BY <2>2 DEF PublishTag
    <3>2. Good(k)'
      <4>1. Load(Publish[k], store') = Encode(Publish[k].reg, value[Publish[k].tag])
        BY <3>1, <1>0, <2>0, PutThenLoad
      <4>2. Settled(k)
        BY <2>0
      <4> QED
        BY <4>1, <4>2, <3>1
    <3>3. ASSUME NEW i \in DOMAIN Publish, i # k PROVE Good(i)'
      <4>1. /\ Publish[i].tag # Publish[k].tag
            /\ Publish[k].reg.kind = Publish[i].reg.kind =>
                  Span(Publish[k].reg) \cap Span(Publish[i].reg) = {}
        BY <3>3, SeparateEntries
      <4>2. Load(Publish[i], store') = Load(Publish[i], store)
        BY <3>1, <4>1, <1>0, <2>0, PutElsewhere
      <4>3. Past(i)' => Past(i)
        <5>1. \/ next' = next + 1
              \/ next = Len(Publish)
          BY <2>2, <1>0 DEF PublishTag, Advance, Position
        <5> QED
          BY <5>1, <3>1, <3>3, <1>0, <2>2 DEF PublishTag, Advance
      <4>4. Clean(i)' <=> Clean(i)
        BY <3>1, <4>1
      <4> QED
        BY <2>0, <3>1, <4>2, <4>3, <4>4
    <3>4. Shape'
      BY <3>1, <2>0, PutPlaces
    <3> QED
      BY <2>01, <3>2, <3>3, <3>4
  <2>3. CASE AcceptTag
    <3> PICK k \in DOMAIN Accept : k = next
      BY <2>3 DEF AcceptTag, Position
    <3>1. /\ pc = "accept" /\ UNCHANGED <<store, settled, stray>>
          /\ value' = [value EXCEPT ![Accept[k].tag] = Stored(Accept[k])]
      BY <2>3 DEF AcceptTag
    <3>2. ASSUME NEW i \in DOMAIN Publish PROVE Good(i)'
      <4>1. Publish[i].tag # Accept[k].tag
        BY SeparateEntries
      <4>2. value'[Publish[i].tag] = value[Publish[i].tag]
        BY <3>1, <4>1
      <4>3. Load(Publish[i], store') = Load(Publish[i], store)
        BY <3>1
      <4>4. Past(i)
        BY <3>1
      <4> QED
        BY <2>0, <3>1, <4>2, <4>3, <4>4
    <3>3. Shape'
      BY <3>1, <2>0
    <3> QED
      BY <2>01, <3>2, <3>3
  <2>4. CASE MasterWrites
    <3>1. PICK e \in Entries, c \in Commands :
             /\ store' = Put(e, c, store)
             /\ stray' = stray \cup Overrun(e)
      BY <2>4 DEF MasterWrites
    <3>2. UNCHANGED <<value, pc, next, settled>>
      BY <2>4 DEF MasterWrites
    <3>3. ASSUME NEW i \in DOMAIN Publish PROVE Good(i)'
      <4>1. Publish[i] \in ToSet(Publish)
        BY MapEntries
      <4>2. CASE Clean(i)'
        <5>1. e.reg.kind = Publish[i].reg.kind =>
                 Span(e.reg) \cap Span(Publish[i].reg) = {}
          BY <3>1, <4>1, <4>2 DEF Overrun
        <5>2. Load(Publish[i], store') = Load(Publish[i], store)
          BY <3>1, <5>1, <1>0, <2>0, PutElsewhere
        <5>3. Clean(i)
          BY <3>1, <4>2
        <5> QED
          BY <2>0, <3>2, <5>2, <5>3
      <4>3. CASE ~Clean(i)'
        BY <2>0, <3>2, <4>3
      <4> QED
        BY <4>2, <4>3
    <3>4. Shape'
      BY <3>1, <3>2, <2>0, PutPlaces
    <3> QED
      BY <2>01, <3>3, <3>4
  <2>5. CASE Start \/ Bind \/ Stop \/ UNCHANGED vars
    <3>1. UNCHANGED <<value, store, pc, next, settled, stray>>
      BY <2>5 DEF Start, Bind, Stop, vars, history
    <3>2. \A i \in DOMAIN Publish : Load(Publish[i], store') = Load(Publish[i], store)
      BY <3>1
    <3> QED
      BY <3>1, <3>2, <2>0, <2>01
  <2> QED
    BY <2>1, <2>2, <2>3, <2>4, <2>5 DEF Next, Sync
<1> QED
  BY <1>1, <1>2, PositionInvariant, PTL DEF Spec

\* Whatever the master reads of a published channel in one request is one whole
\* value, of the last scan or of the one before while sync() is under way: for
\* every pair of separate maps, and whatever the master wrote over it before.
THEOREM WindowStaysRecent ==
    ASSUME Separate PROVE Spec => []WindowIsRecent
<1>1. WindowInv => WindowIsRecent
  <2> SUFFICES ASSUME WindowInv, NEW e \in ToSet(Publish), e.tag \notin stray
               PROVE  /\ \E v \in settled[e.tag] : Load(e, store) = Encode(e.reg, v)
                      /\ pc \in {"scan", "accept"} =>
                            Load(e, store) = Encode(e.reg, value[e.tag])
    BY DEF WindowIsRecent
  <2>1. PICK i \in DOMAIN Publish : e = Publish[i]
    BY MapEntries
  <2> QED
    BY <2>1 DEF WindowInv
<1> QED
  BY <1>1, WindowInvariant, PTL
=============================================================================
