---------------------------- MODULE ProjectProofs ----------------------------
(***************************************************************************)
(* The project loader, for every set of files: any profiles, declarations, *)
(* wiring and windows.                                                     *)
(***************************************************************************)
EXTENDS Project, SequenceTheorems, FiniteSetTheorems, TLAPS

\* A spelling that parses has a terminal, whose own spelling stands for it
\* again: parse and format of both syntaxes are inverse on terminals.
LEMMA SpelledAgain ==
    ASSUME NEW s \in Syntaxes, NEW a \in Addresses, Parses(s, a)
    PROVE  /\ Parses(s, Canonical(s, a))
           /\ Terminal(s, Canonical(s, a)) = Terminal(s, a)
           /\ Canonical(s, a) \in Addresses
<1> PICK nums : nums = a.nums
  OBVIOUS
<1> PICK t : t = Terminal(s, a)
  OBVIOUS
<1> PICK c : c = Canonical(s, a)
  OBVIOUS
<1> DEFINE SameNumbers ==
        /\ c \in Addresses /\ c.area = a.area
        /\ Len(nums) \in {1, 2} /\ Len(c.nums) = Len(nums)
        /\ c.nums[1] = nums[1]
        /\ Len(nums) = 2 => c.nums[2] = nums[2]
<1>1. nums \in Seq(Nat) /\ a.area \in STRING /\ t.area = a.area
  BY DEF Addresses, Terminal
<1>2. ASSUME s = "IEC_DOTTED" /\ a.area \in ChannelAreas
      PROVE  SameNumbers
  <2>1. Len(nums) = 2 /\ nums[1] = 0 /\ nums[2] \in Nat
    BY <1>1, <1>2 DEF Parses
  <2>2. t.index = nums[2] /\ t = [area |-> a.area, index |-> nums[2]]
    BY <2>1, <1>2 DEF Terminal
  <2>3. c = [area |-> a.area, nums |-> <<0, nums[2]>>, padded |-> FALSE]
    BY <2>2, <1>1, <1>2 DEF Canonical, Spelled, Dotted
  <2> QED
    BY <1>1, <2>1, <2>3 DEF Addresses
<1>3. ASSUME s = "IEC_DOTTED" /\ a.area \notin ChannelAreas
      PROVE  SameNumbers
  <2>1. Len(nums) = 1 /\ nums[1] \in Nat /\ a.area \in Areas \ ChannelAreas
    BY <1>1, <1>3 DEF Parses
  <2>2. t.index = nums[1] /\ t = [area |-> a.area, index |-> nums[1]]
    BY <2>1, <1>3 DEF Terminal
  <2>3. c = [area |-> a.area, nums |-> <<nums[1]>>, padded |-> FALSE]
    BY <2>2, <1>1, <1>3 DEF Canonical, Spelled, Flat
  <2> QED
    BY <1>1, <2>1, <2>3 DEF Addresses
<1>4. ASSUME s = "SIEMENS" /\ a.area \in {"I", "Q", "M"}
      PROVE  SameNumbers
  <2>1. Len(nums) = 2 /\ nums[1] \in Nat /\ nums[2] \in Nat /\ nums[2] <= 7
    BY <1>1, <1>4 DEF Parses
  <2> PICK k : k = nums[1] * 8 + nums[2]
    OBVIOUS
  <2>2. k \in Nat /\ k \div 8 = nums[1] /\ k % 8 = nums[2]
    BY <2>1
  <2>3. t.index = k /\ t = [area |-> a.area, index |-> k]
    BY <2>1, <1>4 DEF Terminal
  <2>4. c = [area |-> a.area, nums |-> <<k \div 8, k % 8>>, padded |-> FALSE]
    BY <2>3, <1>1, <1>4 DEF Canonical, Spelled, Dotted
  <2>5. c = [area |-> a.area, nums |-> <<nums[1], nums[2]>>, padded |-> FALSE]
    BY <2>2, <2>4
  <2> QED
    BY <1>1, <2>1, <2>5 DEF Addresses
<1>5. ASSUME s = "SIEMENS" /\ a.area = "IW"
      PROVE  SameNumbers
  <2>1. Len(nums) = 1 /\ nums[1] \in Nat /\ nums[1] >= 64 /\ nums[1] % 2 = 0
    BY <1>1, <1>5 DEF Parses
  <2> PICK k : k = (nums[1] - 64) \div 2
    OBVIOUS
  <2>2. k \in Nat /\ 64 + 2 * k = nums[1]
    BY <2>1
  <2>3. t.index = k /\ t = [area |-> "IW", index |-> k]
    BY <2>1, <1>5 DEF Terminal
  <2>4. c = [area |-> a.area, nums |-> <<64 + 2 * k>>, padded |-> FALSE]
    BY <2>3, <1>1, <1>5 DEF Canonical, Spelled, Flat
  <2>5. c = [area |-> a.area, nums |-> <<nums[1]>>, padded |-> FALSE]
    BY <2>2, <2>4
  <2> QED
    BY <1>1, <2>1, <2>5 DEF Addresses
<1>6. ASSUME s = "SIEMENS" /\ a.area = "MW"
      PROVE  SameNumbers
  <2>1. Len(nums) = 1 /\ nums[1] \in Nat
    BY <1>1, <1>6 DEF Parses
  <2>2. t.index = nums[1] /\ t = [area |-> "MW", index |-> nums[1]]
    BY <2>1, <1>6 DEF Terminal
  <2>3. c = [area |-> a.area, nums |-> <<nums[1]>>, padded |-> FALSE]
    BY <2>2, <1>1, <1>6 DEF Canonical, Spelled, Flat
  <2> QED
    BY <1>1, <2>1, <2>3 DEF Addresses
<1>7. \/ s = "IEC_DOTTED"
      \/ s = "SIEMENS" /\ (a.area \in {"I", "Q", "M"} \/ a.area = "IW" \/ a.area = "MW")
  BY DEF Syntaxes, Parses
<1>8. SameNumbers
  BY <1>2, <1>3, <1>4, <1>5, <1>6, <1>7
<1>9. c.nums[Len(c.nums)] = nums[Len(nums)]
  BY <1>8
<1>10. Terminal(s, c) = t
  <2>1. CASE Len(nums) = 2
    BY <1>8, <1>9, <2>1 DEF Terminal
  <2>2. CASE Len(nums) = 1
    BY <1>8, <1>9, <2>2 DEF Terminal
  <2> QED
    BY <1>8, <2>1, <2>2
<1>11. Parses(s, c)
  <2>1. CASE Len(nums) = 2
    BY <1>8, <2>1 DEF Parses
  <2>2. CASE Len(nums) = 1
    BY <1>8, <2>2 DEF Parses
  <2> QED
    BY <1>8, <2>1, <2>2
<1> QED
  BY <1>8, <1>10, <1>11

\* Two spellings have the same canonical one exactly when they stand for the
\* same terminal.
LEMMA SameTerminal ==
    ASSUME NEW s \in Syntaxes, NEW a \in Addresses, NEW b \in Addresses,
           Parses(s, a), Parses(s, b)
    PROVE  Canonical(s, a) = Canonical(s, b) <=> Terminal(s, a) = Terminal(s, b)
<1>1. Terminal(s, a) = Terminal(s, b) => Canonical(s, a) = Canonical(s, b)
  BY DEF Canonical
<1>2. Canonical(s, a) = Canonical(s, b) => Terminal(s, a) = Terminal(s, b)
  BY SpelledAgain
<1> QED
  BY <1>1, <1>2

\* What the files' assumption says of a file.
LEMMA Typed ==
    ASSUME file \in Files
    PROVE  /\ file.profile.syntax \in Syntaxes
           /\ file.profile.system \in Seq(Declares) /\ file.tags \in Seq(Declares)
           /\ Declared \in Seq(Declares) /\ DOMAIN Declared = 1 .. Len(Declared)
           /\ Len(Declared) = Len(file.profile.system) + Len(file.tags)
           /\ Len(file.profile.system) \in Nat /\ Len(file.tags) \in Nat
           /\ Len(Declared) \in Nat
           /\ \A i \in 1 .. Len(Declared) :
                 /\ Declared[i] \in Declares
                 /\ Declared[i].address \in Addresses \cup {NoAddress}
<1>1. /\ file.profile.syntax \in Syntaxes
      /\ file.profile.system \in Seq(Declares) /\ file.tags \in Seq(Declares)
  BY FilesAssumption
<1>2. /\ Declared \in Seq(Declares)
      /\ Len(Declared) = Len(file.profile.system) + Len(file.tags)
  BY <1>1, ConcatProperties DEF Declared
<1>3. /\ DOMAIN Declared = 1 .. Len(Declared) /\ Len(Declared) \in Nat
      /\ Len(file.profile.system) \in Nat /\ Len(file.tags) \in Nat
  BY <1>1, <1>2, LenProperties
<1>4. \A i \in 1 .. Len(Declared) : Declared[i] \in Declares
  BY <1>2, ElementOfSeq
<1> QED
  BY <1>1, <1>2, <1>3, <1>4 DEF Declares

LEMMA SystemTagsFirst ==
    ASSUME file \in Files
    PROVE  /\ Len(file.profile.system) <= Len(Declared)
           /\ \A k \in Nat : k < Len(file.profile.system) => k < Len(Declared)
           /\ \A i \in 1 .. Len(file.profile.system) : Declared[i] = file.profile.system[i]
<1> PICK l : l = Len(file.profile.system)
  OBVIOUS
<1> PICK m : m = Len(file.tags)
  OBVIOUS
<1> PICK n : n = Len(Declared)
  OBVIOUS
<1>1. l \in Nat /\ m \in Nat /\ n = l + m
  BY Typed
<1>2. l <= n /\ \A k \in Nat : k < l => k < n
  BY ONLY <1>1
<1>3. \A i \in 1 .. l : Declared[i] = file.profile.system[i]
  <2> PICK s : s = file.profile.system
    OBVIOUS
  <2> PICK t : t = file.tags
    OBVIOUS
  <2>1. s \in Seq(Declares) /\ t \in Seq(Declares)
    BY Typed
  <2>2. \A i \in 1 .. Len(s) : (s \o t)[i] = s[i]
    BY ONLY <2>1, ConcatProperties
  <2> QED
    BY <2>2 DEF Declared
<1> QED
  BY <1>2, <1>3

-----------------------------------------------------------------------------
(***************************************************************************)
(* The tables.                                                             *)
(***************************************************************************)

\* What accepting a declaration says of it.
LEMMA AcceptedMeans ==
    ASSUME NEW d, Accepted(d)
    PROVE  /\ WellDeclared(file.profile, d) /\ ~Mistyped(d)
           /\ d.name \notin DOMAIN tags
           /\ d.address # NoAddress =>
                 /\ d.address # NotText
                 /\ Canonical(file.profile.syntax, d.address) \notin DOMAIN addressed
<1>1. d.address # NoAddress => d.address # NotText
                               /\ d.address.area \notin file.notNumbers.bounds
  BY DEF Accepted, Mistyped
<1>2. d.type \in DOMAIN AreaForType /\ d.name \notin DOMAIN tags
  BY DEF Accepted, Rejected
<1>3. d.address = NoAddress => d.type \notin PhysicalTypes
  BY DEF Accepted, Rejected
<1>4. d.address # NoAddress =>
          /\ ValidAddress(file.profile, d.address, d.type)
          /\ Canonical(file.profile.syntax, d.address) \notin DOMAIN addressed
  BY <1>1, <1>2 DEF Accepted, Rejected, ValidAddress
<1> QED
  BY <1>1, <1>2, <1>3, <1>4 DEF Accepted, WellDeclared

\* One more declaration taken.
LEMMA TableGrows ==
    ASSUME TableInv, file' = file, done < Len(Declared),
           Accepted(Upcoming), DefineTag(Upcoming), done' = done + 1
    PROVE  TableInv'
<1> PICK D : D = Declared
  OBVIOUS
<1> PICK k : k = done
  OBVIOUS
<1> PICK n : n = done + 1
  OBVIOUS
<1> PICK p : p = file.profile
  OBVIOUS
<1> DEFINE C(i) == Canonical(p.syntax, D[i].address)
           St(i) == [type |-> D[i].type, address |-> D[i].address,
                     retentive |-> \/ D[i].retentive = "yes"
                                   \/ /\ D[i].retentive = "default"
                                      /\ D[i].address # NoAddress
                                      /\ IsRetentive(p, D[i].address)]
           Cl == {i \in 1 .. k : D[i].address # NoAddress}
           ClNext == {i \in 1 .. n : D[i].address # NoAddress}
<1>1. /\ file \in Files /\ k \in Nat /\ n = k + 1 /\ n <= Len(D)
      /\ DOMAIN tags = {D[i].name : i \in 1 .. k}
      /\ \A i \in 1 .. k : WellDeclared(p, D[i]) /\ ~Mistyped(D[i])
      /\ \A i \in 1 .. k : tags[D[i].name] = St(i)
      /\ \A i, j \in 1 .. k : D[i].name = D[j].name => i = j
      /\ DOMAIN addressed = {C(i) : i \in Cl}
      /\ \A i \in Cl : addressed[C(i)] = D[i].name
  <2>1. n <= Len(D)
    BY Typed DEF TableInv
  <2>2. \A i \in 1 .. k : tags[D[i].name] = Stored(D[i])
    BY DEF TableInv, Taken
  <2>3. \A i \in 1 .. k : tags[D[i].name] = St(i)
    BY <2>2 DEF Stored
  <2> HIDE DEF St
  <2> QED
    BY <2>1, <2>3 DEF TableInv, Taken, Claiming, Claim
<1>2. Upcoming = D[n] /\ Declared' = D
  BY DEF Upcoming, Declared
<1>3. /\ D[n].name \notin DOMAIN tags
      /\ WellDeclared(p, D[n]) /\ ~Mistyped(D[n])
      /\ D[n].address # NoAddress => C(n) \notin DOMAIN addressed
  <2>1. Accepted(D[n])
    BY <1>2
  <2> QED
    BY <2>1, AcceptedMeans DEF C
<1>4. /\ tags' = Extended(tags, D[n].name, St(n))
      /\ addressed' = IF D[n].address = NoAddress THEN addressed
                      ELSE Extended(addressed, C(n), D[n].name)
  BY <1>2 DEF DefineTag, Stored
<1> HIDE DEF C, St
<1>5. 1 .. n = (1 .. k) \cup {n} /\ n \notin 1 .. k
  BY <1>1
<1>6. DOMAIN tags' = {D[i].name : i \in 1 .. n}
  BY <1>1, <1>4, <1>5 DEF Extended
<1>7. \A i \in 1 .. n : WellDeclared(p, D[i]) /\ ~Mistyped(D[i]) /\ tags'[D[i].name] = St(i)
  BY <1>1, <1>3, <1>4, <1>5 DEF Extended
<1>8. \A i, j \in 1 .. n : D[i].name = D[j].name => i = j
  BY <1>1, <1>3, <1>5
<1>9. /\ DOMAIN addressed' = {C(i) : i \in ClNext}
      /\ \A i \in ClNext : addressed'[C(i)] = D[i].name
  <2>1. CASE D[n].address = NoAddress
    BY <1>1, <1>4, <1>5, <2>1
  <2>2. CASE D[n].address # NoAddress
    <3>1. ClNext = Cl \cup {n}
      BY <1>5, <2>2
    <3>2. addressed' = Extended(addressed, C(n), D[n].name)
      BY <1>4, <2>2
    <3>3. DOMAIN addressed' = DOMAIN addressed \cup {C(n)}
      BY <3>2 DEF Extended
    <3>4. \A i \in Cl : addressed'[C(i)] = D[i].name
      BY <1>1, <1>3, <2>2, <3>2 DEF Extended
    <3>5. addressed'[C(n)] = D[n].name
      BY <3>2 DEF Extended
    <3> QED
      BY <1>1, <3>1, <3>3, <3>4, <3>5
  <2> QED
    BY <2>1, <2>2
<1>10. /\ Taken' = 1 .. n /\ Claiming' = ClNext
       /\ \A i : Claim(i)' = C(i) /\ Stored(D[i])' = St(i)
       /\ \A d : Mistyped(d)' = Mistyped(d)
  BY <1>2 DEF Taken, Claiming, Claim, C, St, Stored, Mistyped
<1>11. file'.profile = p /\ n \in Nat
  BY <1>1
<1> QED
  BY <1>1, <1>2, <1>6, <1>7, <1>8, <1>9, <1>10, <1>11 DEF TableInv

\* Every step either takes a declaration or leaves the tables alone.
LEMMA TablesChange ==
    ASSUME TableInv, [Next]_vars
    PROVE  /\ file' = file
           /\ \/ /\ done < Len(Declared)
                 /\ Accepted(Upcoming) /\ DefineTag(Upcoming)
                 /\ done' = done + 1 /\ stage' = stage /\ result' = result
              \/ UNCHANGED <<done, tags, addressed>>
<1> USE DEF Looks, Fails, GoesTo, ConfigError, Raises
<1>1. CASE ReadFile
  BY <1>1 DEF ReadFile
<1>2. CASE BuildPlc
  <2>1. CASE DefineSystemTags
    <3>1. done < Len(file.profile.system) => done < Len(Declared)
      BY SystemTagsFirst DEF TableInv
    <3> QED
      BY <2>1, <3>1 DEF DefineSystemTags, Takes
  <2> QED
    BY <1>2, <2>1 DEF BuildPlc
<1>3. CASE DefineTags
  BY <1>3 DEF DefineTags, Takes
<1>4. CASE BuildPlant \/ BuildTransport \/ BuildFaults
  BY <1>4 DEF BuildPlant, BuildTransport, BuildFaults
<1>5. CASE BuildObservers
  BY <1>5 DEF BuildObservers
<1>6. CASE BuildSlave \/ BuildExecutive
  BY <1>6 DEF BuildSlave, BuildExecutive
<1>7. CASE Tick \/ Ended
  BY <1>7 DEF Tick, Ended, vars
<1>8. CASE UNCHANGED vars
  BY <1>8 DEF vars
<1> QED
  BY <1>1, <1>2, <1>3, <1>4, <1>5, <1>6, <1>7, <1>8 DEF Next

LEMMA TableInvariant == Spec => []TableInv
<1>1. Init => TableInv
  <2> SUFFICES ASSUME Init PROVE TableInv
    OBVIOUS
  <2>1. 0 <= Len(Declared)
    BY Typed DEF Init
  <2>2. Taken = {} /\ Claiming = {}
    BY DEF Init, Taken, Claiming
  <2>3. DOMAIN tags = {} /\ DOMAIN addressed = {}
    BY DEF Init
  <2> QED
    BY <2>1, <2>2, <2>3 DEF Init, TableInv
<1>2. TableInv /\ [Next]_vars => TableInv'
  <2> SUFFICES ASSUME TableInv, [Next]_vars PROVE TableInv'
    OBVIOUS
  <2>1. CASE UNCHANGED <<done, tags, addressed>>
    <3>1. file' = file
      BY TablesChange
    <3>2. /\ Declared' = Declared /\ Taken' = Taken /\ Claiming' = Claiming
          /\ \A i : Claim(i)' = Claim(i)
          /\ \A d : Stored(d)' = Stored(d) /\ Mistyped(d)' = Mistyped(d)
      BY <2>1, <3>1 DEF Declared, Taken, Claiming, Claim, Stored, Mistyped
    <3> QED
      BY <2>1, <3>1, <3>2 DEF TableInv
  <2>2. CASE ~UNCHANGED <<done, tags, addressed>>
    BY <2>2, TablesChange, TableGrows
  <2> QED
    BY <2>1, <2>2
<1> QED
  BY <1>1, <1>2, PTL DEF Spec

\* A tag with an address adds one claim and one tag that has it.
LEMMA CountInvariant == Spec => []CountInv
<1>1. Init => CountInv
  BY FS_EmptySet DEF Init, CountInv
<1>2. TableInv /\ CountInv /\ [Next]_vars => CountInv'
  <2> SUFFICES ASSUME TableInv, CountInv, [Next]_vars PROVE CountInv'
    OBVIOUS
  <2>1. CASE UNCHANGED <<done, tags, addressed>>
    BY <2>1 DEF CountInv, Addressed
  <2>2. CASE ~UNCHANGED <<done, tags, addressed>>
    <3> PICK d : d = Upcoming
      OBVIOUS
    <3> PICK c : c = Canonical(file.profile.syntax, d.address)
      OBVIOUS
    <3> DEFINE claimed == {n \in DOMAIN tags : Addressed(n)}
    <3>1. Accepted(d) /\ DefineTag(d)
      BY <2>2, TablesChange
    <3>2. /\ d.name \notin DOMAIN tags
          /\ d.address # NoAddress => c \notin DOMAIN addressed
      BY <3>1, AcceptedMeans
    <3>3. /\ DOMAIN tags' = DOMAIN tags \cup {d.name}
          /\ \A n \in DOMAIN tags : tags'[n] = tags[n]
          /\ tags'[d.name].address = d.address
      BY <3>1, <3>2 DEF DefineTag, Extended, Stored
    <3>4. claimed' = {n \in DOMAIN tags' : tags'[n].address # NoAddress}
      BY DEF Addressed
    <3>5. CASE d.address = NoAddress
      <4>1. addressed' = addressed
        BY <3>1, <3>5 DEF DefineTag
      <4>2. claimed' = claimed
        BY <3>2, <3>3, <3>4, <3>5 DEF Addressed
      <4> QED
        BY <4>1, <4>2 DEF CountInv
    <3>6. CASE d.address # NoAddress
      <4>1. DOMAIN addressed' = DOMAIN addressed \cup {c}
        BY <3>1, <3>6 DEF DefineTag, Extended
      <4>2. claimed' = claimed \cup {d.name} /\ d.name \notin claimed
        BY <3>2, <3>3, <3>4, <3>6 DEF Addressed
      <4>3. /\ IsFiniteSet(DOMAIN addressed') /\ IsFiniteSet(claimed')
            /\ Cardinality(DOMAIN addressed') = Cardinality(DOMAIN addressed) + 1
            /\ Cardinality(claimed') = Cardinality(claimed) + 1
        <5>1. IsFiniteSet(DOMAIN addressed) /\ IsFiniteSet(claimed)
          BY DEF CountInv
        <5>2. c \notin DOMAIN addressed
          BY <3>2, <3>6
        <5> HIDE DEF claimed
        <5>3. /\ IsFiniteSet(DOMAIN addressed \cup {c})
              /\ Cardinality(DOMAIN addressed \cup {c}) = Cardinality(DOMAIN addressed) + 1
          BY <5>1, <5>2, FS_AddElement
        <5>4. /\ IsFiniteSet(claimed \cup {d.name})
              /\ Cardinality(claimed \cup {d.name}) = Cardinality(claimed) + 1
          BY <4>2, <5>1, FS_AddElement
        <5> QED
          BY <4>1, <4>2, <5>3, <5>4
      <4> QED
        BY <4>3 DEF CountInv
    <3> QED
      BY <3>5, <3>6
  <2> QED
    BY <2>1, <2>2
<1> QED
  BY <1>1, <1>2, TableInvariant, PTL DEF Spec

\* What a tag's name, address and terminal say of one another.
LEMMA TagsAreDeclared ==
    ASSUME TableInv, NEW n \in DOMAIN tags, Addressed(n)
    PROVE  /\ tags[n].address \in Addresses
           /\ Parses(file.profile.syntax, tags[n].address)
           /\ Canonical(file.profile.syntax, tags[n].address) \in DOMAIN addressed
           /\ addressed[Canonical(file.profile.syntax, tags[n].address)] = n
<1> PICK i \in Taken : n = Declared[i].name
  BY DEF TableInv
<1>1. tags[n].address = Declared[i].address /\ i \in Claiming
  <2>1. tags[n] = Stored(Declared[i])
    BY DEF TableInv
  <2> QED
    BY <2>1 DEF Stored, Claiming, Addressed
<1>2. file \in Files /\ i \in 1 .. Len(Declared)
  <2>1. file \in Files /\ done <= Len(Declared) /\ done \in Nat
    BY DEF TableInv
  <2> QED
    BY <2>1, Typed DEF Taken
<1>3. Declared[i].address \in Addresses
  BY <1>1, <1>2, Typed DEF Claiming
<1>4. Parses(file.profile.syntax, Declared[i].address)
  <2>1. Declared[i].address \notin {NoAddress, NotText}
    BY <1>1 DEF TableInv, Mistyped, Claiming
  <2> QED
    BY <2>1 DEF TableInv, WellDeclared, ValidAddress
<1> QED
  BY <1>1, <1>2, <1>3, <1>4 DEF TableInv, Claim

LEMMA ClaimsAreTags ==
    ASSUME TableInv, NEW c \in DOMAIN addressed
    PROVE  \E n \in DOMAIN tags :
              /\ Addressed(n) /\ addressed[c] = n
              /\ c = Canonical(file.profile.syntax, tags[n].address)
<1> PICK i \in Claiming : c = Claim(i)
  BY DEF TableInv
<1>1. addressed[c] = Declared[i].name /\ i \in Taken
  BY DEF TableInv, Claiming
<1>2. /\ Declared[i].name \in DOMAIN tags
      /\ tags[Declared[i].name].address = Declared[i].address
  <2>1. /\ Declared[i].name \in DOMAIN tags
        /\ tags[Declared[i].name] = Stored(Declared[i])
    BY <1>1 DEF TableInv
  <2> QED
    BY <2>1 DEF Stored
<1> QED
  BY <1>1, <1>2 DEF Addressed, Claiming, Claim

\* A terminal has one tag, however it is spelt, and a wired terminal finds it
\* (PLC.define_tag and tag_at, config.py's _define_tags).
THEOREM TerminalsHaveOneTag == Spec => []OneTagPerTerminal
<1>1. TableInv /\ CountInv => OneTagPerTerminal
  <2> SUFFICES ASSUME TableInv, CountInv PROVE OneTagPerTerminal
    OBVIOUS
  <2> PICK s : s = file.profile.syntax
    OBVIOUS
  <2>0. s \in Syntaxes
    BY Typed DEF TableInv
  <2>1. ASSUME NEW n \in DOMAIN tags, NEW m \in DOMAIN tags, Addressed(n), Addressed(m),
               Place(tags[n].address) = Place(tags[m].address)
        PROVE  n = m
    <3>1. Canonical(s, tags[n].address) = Canonical(s, tags[m].address)
      BY <2>1 DEF Place, Canonical
    <3> QED
      BY <2>1, <3>1, TagsAreDeclared
  <2>2. ASSUME NEW c \in DOMAIN addressed
        PROVE  Place(c) = Place(tags[addressed[c]].address)
    <3> PICK n \in DOMAIN tags : /\ Addressed(n) /\ addressed[c] = n
                                 /\ c = Canonical(s, tags[n].address)
      BY ClaimsAreTags
    <3> QED
      BY <2>0, TagsAreDeclared, SpelledAgain DEF Place
  <2>3. Cardinality(DOMAIN addressed) = Cardinality({n \in DOMAIN tags : Addressed(n)})
    BY DEF CountInv
  <2>4. ASSUME NEW a \in file.inputs \cup file.outputs, Parses(s, a)
        PROVE  TagAt(a) = At(a)
    <3>1. a \in Addresses /\ s \in Syntaxes
      BY <2>0, <2>4, FilesAssumption DEF TableInv
    <3>2. CASE Canonical(s, a) \in DOMAIN addressed
      <4> PICK n \in DOMAIN tags : /\ Addressed(n) /\ addressed[Canonical(s, a)] = n
                                   /\ Canonical(s, a) = Canonical(s, tags[n].address)
        BY <3>2, ClaimsAreTags
      <4>1. TagAt(a) = {n}
        BY <3>2 DEF TagAt
      <4>2. Place(tags[n].address) = Place(a)
        BY <2>4, <3>1, TagsAreDeclared, SameTerminal DEF Place
      <4>3. At(a) = {n}
        BY <2>1, <2>4, <4>2 DEF At
      <4> QED
        BY <4>1, <4>3
    <3>3. CASE Canonical(s, a) \notin DOMAIN addressed
      <4>1. ASSUME NEW n \in At(a) PROVE FALSE
        <5>1. n \in DOMAIN tags /\ Addressed(n) /\ Place(tags[n].address) = Place(a)
          BY DEF At
        <5>2. Canonical(s, tags[n].address) = Canonical(s, a)
          BY <5>1 DEF Place, Canonical
        <5> QED
          BY <3>3, <5>1, <5>2, TagsAreDeclared
      <4> QED
        BY <3>3, <4>1 DEF TagAt
    <3> QED
      BY <3>2, <3>3
  <2> QED
    BY <2>1, <2>2, <2>3, <2>4 DEF OneTagPerTerminal
<1> QED
  BY <1>1, TableInvariant, CountInvariant, PTL

-----------------------------------------------------------------------------
(***************************************************************************)
(* The outcome.                                                            *)
(***************************************************************************)

\* What define_tag rejects is wrong in itself or collides with a declaration
\* taken before it, whatever the order of the checks.
LEMMA RejectedForCause ==
    ASSUME TableInv, done < Len(Declared), Rejected(Upcoming)
    PROVE  \/ ~WellDeclared(file.profile, Declared[done + 1])
           \/ \E i \in Taken : Collide(file.profile, Declared[done + 1], Declared[i])
<1> SUFFICES ASSUME WellDeclared(file.profile, Declared[done + 1])
             PROVE  \E i \in Taken :
                       Collide(file.profile, Declared[done + 1], Declared[i])
  OBVIOUS
<1> PICK d : d = Declared[done + 1]
  OBVIOUS
<1> PICK s : s = file.profile.syntax
  OBVIOUS
<1>1. \/ d.name \in DOMAIN tags
      \/ d.address \notin {NoAddress, NotText} /\ Canonical(s, d.address) \in DOMAIN addressed
  BY DEF Rejected, Upcoming, WellDeclared, ValidAddress
<1>2. CASE d.name \in DOMAIN tags
  BY <1>2 DEF TableInv, Collide
<1>3. CASE d.address \notin {NoAddress, NotText}
           /\ Canonical(s, d.address) \in DOMAIN addressed
  <2> PICK i \in Claiming : Canonical(s, d.address) = Canonical(s, Declared[i].address)
    BY <1>3 DEF TableInv, Claim
  <2>1. i \in Taken /\ Declared[i].address \notin {NoAddress, NotText}
    BY DEF Claiming, TableInv, Mistyped
  <2>2. /\ done \in Nat /\ done + 1 \in 1 .. Len(Declared) /\ i \in 1 .. Len(Declared)
        /\ file \in Files /\ s \in Syntaxes
    BY <2>1, Typed DEF TableInv, Taken
  <2>3. d.address \in Addresses /\ Declared[i].address \in Addresses
    BY <1>3, <2>1, <2>2, Typed
  <2>4. WellDeclared(file.profile, Declared[i])
    BY <2>1 DEF TableInv
  <2>5. Parses(s, d.address) /\ Parses(s, Declared[i].address)
    BY <1>3, <2>1, <2>4 DEF WellDeclared, ValidAddress
  <2>6. Terminal(s, d.address) = Terminal(s, Declared[i].address)
    BY <2>2, <2>3, <2>5, SameTerminal
  <2> QED
    BY <1>3, <2>1, <2>6 DEF Collide
<1> QED
  BY <1>1, <1>2, <1>3

\* The declarations taken are sound as a whole.
LEMMA TakenAreSound ==
    ASSUME TableInv, done = Len(Declared)
    PROVE  /\ SoundDeclarations(file.profile, Declared)
           /\ \A i \in DOMAIN Declared : ~Mistyped(Declared[i])
           /\ DOMAIN tags = Names(Declared)
<1>1. DOMAIN Declared = Taken
  BY Typed DEF TableInv, Taken
<1>2. \A i \in Taken : WellDeclared(file.profile, Declared[i]) /\ ~Mistyped(Declared[i])
  BY DEF TableInv
<1>3. ASSUME NEW i \in Taken, NEW j \in Taken, i # j,
             Collide(file.profile, Declared[i], Declared[j])
      PROVE  FALSE
  <2>1. Declared[i].name # Declared[j].name
    BY <1>3 DEF TableInv
  <2>2. i \in Claiming /\ j \in Claiming /\ Claim(i) = Claim(j)
    BY <1>3, <2>1 DEF Collide, Claiming, Claim, Canonical
  <2> QED
    BY <2>1, <2>2 DEF TableInv
<1>4. DOMAIN tags = Names(Declared)
  BY <1>1 DEF TableInv, Names
<1> QED
  BY <1>1, <1>2, <1>3, <1>4 DEF SoundDeclarations

\* The sections have turns of their own, and all come before the first tick.
LEMMA Turns ==
    /\ Sections \subseteq DOMAIN Turn
    /\ \A s \in DOMAIN Turn : Turn[s] \in Nat
    /\ \A s, t \in DOMAIN Turn : Turn[s] = Turn[t] => s = t
    /\ \A s \in Sections : Turn[s] # 9 /\ Turn[s] # 10 /\ Turn[s] # 20 /\ Turn[s] < 22
    /\ Turn["read"] = 1 /\ Turn["system"] = 9 /\ Turn["tags"] = 10 /\ Turn["plant"] = 11
    /\ Turn["slave"] = 19 /\ Turn["window"] = 20 /\ Turn["executive"] = 21
    /\ Turn["ticking"] = 22
    /\ {"read", "system", "tags", "plant", "slave", "window", "executive", "ticking"}
           \subseteq DOMAIN Turn
  BY DEF Turn, Sections, Handled

\* Going on to the next section.
LEMMA NextTurn ==
    ASSUME TableInv, StageInv, NEW next \in DOMAIN Turn, GoesTo(next),
           Turn[next] = Turn[stage] + 1, stage \notin DOMAIN file.raises,
           stage = "tags" => done = Len(Declared),
           stage = "window" => file.window \subseteq DOMAIN tags,
           result = "loading"
    PROVE  StageInv'
<1>1. /\ UNCHANGED <<file, done, tags, addressed, result>> /\ stage' = next
      /\ Declared' = Declared
  BY DEF GoesTo, Declared
<1>2. DOMAIN file.raises \subseteq Sections
  BY FilesAssumption DEF TableInv
<1>3. stage \in DOMAIN Turn /\ Turn[stage] \in Nat /\ Turn[next] \in Nat
  BY Turns DEF StageInv
<1>4. ASSUME NEW s \in DOMAIN file.raises PROVE Turn[next] <= Turn[s]
  <2>1. Turn[s] \in Nat /\ Turn[stage] <= Turn[s] /\ Turn[s] # Turn[stage]
    BY <1>2, <1>3, <1>4, Turns DEF StageInv
  <2> QED
    BY <1>3, <2>1
<1>5. Turn[next] <= Turn["system"] => done <= Len(file.profile.system)
  BY <1>3, Turns DEF StageInv
<1>6. Turn[next] > Turn["tags"] => done = Len(Declared)
  <2>1. Turn[stage] = Turn["tags"] => stage = "tags"
    BY <1>3, Turns
  <2>2. Turn[next] > Turn["tags"] => Turn[stage] > Turn["tags"] \/ Turn[stage] = Turn["tags"]
    BY <1>3, Turns
  <2> QED
    BY <2>1, <2>2 DEF StageInv
<1>7. Turn[next] > Turn["window"] => file.window \subseteq DOMAIN tags
  <2>1. Turn[stage] = Turn["window"] => stage = "window"
    BY <1>3, Turns
  <2>2. Turn[next] > Turn["window"] =>
            Turn[stage] > Turn["window"] \/ Turn[stage] = Turn["window"]
    BY <1>3, Turns
  <2> QED
    BY <2>1, <2>2 DEF StageInv
<1> QED
  BY <1>1, <1>4, <1>5, <1>6, <1>7 DEF StageInv

\* The last section passed, the executive built.
LEMMA LastTurn ==
    ASSUME TableInv, StageInv, stage = "executive", "executive" \notin DOMAIN file.raises,
           stage' = "ticking", UNCHANGED <<file, done, tags, addressed>>
    PROVE  StageInv'
<1>1. DOMAIN file.raises \subseteq Sections
  BY FilesAssumption DEF TableInv
<1>2. ASSUME NEW s \in DOMAIN file.raises PROVE FALSE
  <2>1. Turn[s] \in Nat /\ 21 <= Turn[s] /\ Turn[s] < 22
    BY <1>1, <1>2, Turns DEF StageInv
  <2>2. Turn[s] = Turn["executive"]
    BY <2>1, Turns
  <2>3. s = "executive"
    BY <1>1, <1>2, <2>2, Turns
  <2> QED
    BY <1>2, <2>3
<1>3. done = Len(Declared) /\ file.window \subseteq DOMAIN tags /\ Declared' = Declared
  BY Turns DEF StageInv, Declared
<1> QED
  BY <1>2, <1>3, Turns DEF StageInv

LEMMA Unmoved ==
    ASSUME StageInv, UNCHANGED <<file, stage, done, tags, addressed>>,
           result' = "loaded" => result = "loaded"
    PROVE  StageInv'
<1>1. Declared' = Declared
  BY DEF Declared
<1> QED
  BY <1>1 DEF StageInv

\* The ways a step can end the load, or go on with it.
LoadFails ==
    /\ UNCHANGED <<file, stage, done, tags, addressed>>
    /\ stage # "ticking"
    /\ \/ result' = "config_error" /\ Reported
       \/ result' = "raised" /\ Missed
LoadGoesOn == result' = result /\ StageInv' /\ file' = file

\* An exception a section's code meets, if the file says so.
LEMMA FailureIsTheFiles ==
    ASSUME NEW s \in DOMAIN file.raises, Fails(s, file.raises[s]), stage # "ticking"
    PROVE  LoadFails
  BY DEF Fails, ConfigError, Raises, LoadFails, Reported, Missed

\* A section that is looked at, and no more.
LEMMA SectionPasses ==
    ASSUME TableInv, StageInv, NEW section \in Sections, NEW next \in DOMAIN Turn,
           Looks(section, next), Turn[next] = Turn[section] + 1
    PROVE  LoadFails \/ LoadGoesOn
<1>1. section # "ticking" /\ section # "tags" /\ section # "window"
  BY DEF Sections, Handled
<1>2. stage = section /\ result = "loading"
  BY DEF Looks
<1>3. CASE section \in DOMAIN file.raises /\ Fails(section, file.raises[section])
  BY <1>1, <1>2, <1>3, FailureIsTheFiles
<1>4. CASE section \notin DOMAIN file.raises /\ GoesTo(next)
  <2>1. StageInv'
    BY <1>1, <1>2, <1>4, NextTurn
  <2> QED
    BY <1>4, <2>1 DEF GoesTo, LoadGoesOn
<1> QED
  BY <1>3, <1>4 DEF Looks

\* One more declaration taken keeps the stage.
LEMMA TakingKeepsStage ==
    ASSUME TableInv, StageInv, stage \in {"system", "tags"}, Takes, result = "loading",
           stage = "system" => done < Len(file.profile.system)
    PROVE  LoadGoesOn
<1>1. UNCHANGED <<file, stage, result>> /\ done' = done + 1
  BY DEF Takes
<1>2. done \in Nat /\ Len(file.profile.system) \in Nat
  BY Typed DEF TableInv
<1>3. stage = "system" => done + 1 <= Len(file.profile.system)
  BY <1>2
<1> QED
  BY <1>1, <1>3, Turns DEF StageInv, LoadGoesOn

\* A system tag that is not accepted is an inline profile's, or mistyped.
LEMMA OnlyInlineIsRejected ==
    ASSUME TableInv, done < Len(file.profile.system), ~Accepted(Upcoming)
    PROVE  Missed
<1> SUFFICES ASSUME ~Mistyped(Upcoming) PROVE Missed
  <2>1. done + 1 \in DOMAIN Declared
    BY SystemTagsFirst, Typed DEF TableInv
  <2> QED
    BY <2>1 DEF Missed, Upcoming
<1> PICK system : system = file.profile.system
  OBVIOUS
<1> PICK n : n = done + 1
  OBVIOUS
<1>1. file \in Files /\ done \in Nat
  BY DEF TableInv
<1>2. done < Len(Declared)
  BY <1>1, SystemTagsFirst
<1>3. DOMAIN system = 1 .. Len(system) /\ Len(system) \in Nat
  BY <1>1, Typed, LenProperties
<1>4. n \in DOMAIN system /\ \A i \in Taken : i \in DOMAIN system /\ i # n
  BY <1>1, <1>3 DEF Taken
<1>5. Declared[n] = system[n] /\ \A i \in Taken : Declared[i] = system[i]
  BY <1>1, <1>3, <1>4, SystemTagsFirst
<1>6. \/ ~WellDeclared(file.profile, system[n])
      \/ \E i \in Taken : Collide(file.profile, system[n], system[i])
  BY <1>2, <1>5, RejectedForCause DEF Accepted
<1>7. ~SoundDeclarations(file.profile, system)
  BY <1>4, <1>6 DEF SoundDeclarations
<1> QED
  BY <1>1, <1>7, FilesAssumption DEF Missed

\* A tag of the file that is rejected spoils it.
LEMMA RejectedIsUnsound ==
    ASSUME TableInv, done < Len(Declared), Rejected(Upcoming)
    PROVE  Reported
<1>1. /\ done \in Nat /\ Len(Declared) \in Nat
      /\ DOMAIN Declared = 1 .. Len(Declared)
  BY Typed DEF TableInv
<1>2. done + 1 \in DOMAIN Declared /\ \A i \in Taken : i \in DOMAIN Declared /\ i # done + 1
  BY <1>1 DEF Taken
<1> QED
  BY <1>2, RejectedForCause DEF Reported, SoundDeclarations

\* A terminal a tick cannot resolve, or write to, is one the file wired wrongly.
LEMMA LostWires ==
    ASSUME OneTagPerTerminal, ~Exchanges
    PROVE  Unrunnable
<1>1. ASSUME NEW a \in file.inputs \cup file.outputs, ~Resolves(a)
      PROVE  At(a) = {}
  <2>1. CASE Parses(file.profile.syntax, a)
    BY <1>1, <2>1 DEF Resolves, OneTagPerTerminal
  <2>2. CASE ~Parses(file.profile.syntax, a)
    BY <2>2 DEF At
  <2> QED
    BY <2>1, <2>2
<1>2. ASSUME NEW a \in file.outputs, Resolves(a), ~Writes(a)
      PROVE  /\ file.transport = "in_process"
             /\ \A n \in At(a) : tags[n].type \notin OutputTypes
  <2>1. TagAt(a) = At(a)
    BY <1>2 DEF Resolves, OneTagPerTerminal
  <2>2. PICK t \in TagAt(a) : tags[t].type \notin OutputTypes
    BY <1>2 DEF Writes
  <2>3. TagAt(a) = {t}
    BY DEF TagAt
  <2> QED
    BY <1>2, <2>1, <2>2, <2>3 DEF Writes
<1> QED
  BY <1>1, <1>2 DEF Exchanges, Writes, Unrunnable

\* What each builder does, said of the file as a whole.
LEMMA StagesPass ==
    ASSUME TableInv, OneTagPerTerminal, StageInv,
           result \in {"loading", "loaded"}, Next
    PROVE  \/ LoadFails
           \/ LoadGoesOn
           \/ /\ result' = "loaded" /\ StageInv' /\ file' = file
           \/ /\ UNCHANGED <<file, stage, done, tags, addressed>>
              /\ result' = "raised" /\ stage = "ticking" /\ Unrunnable
<1> USE DEF Sections, Handled, Turn
<1>1. CASE ReadFile
  <2>1. Looks("read", "toml") => LoadFails \/ LoadGoesOn
    BY SectionPasses
  <2>2. Looks("toml", "settings") => LoadFails \/ LoadGoesOn
    BY SectionPasses
  <2>3. Looks("settings", "program") => LoadFails \/ LoadGoesOn
    BY SectionPasses
  <2> QED
    BY <1>1, <2>1, <2>2, <2>3 DEF ReadFile
<1>2. CASE BuildPlc
  <2>1. Looks("program", "watchdog") => LoadFails \/ LoadGoesOn
    BY SectionPasses
  <2>2. Looks("watchdog", "profile_file") => LoadFails \/ LoadGoesOn
    BY SectionPasses
  <2>3. Looks("profile_file", "profile") => LoadFails \/ LoadGoesOn
    BY SectionPasses
  <2>4. Looks("profile", "engine") => LoadFails \/ LoadGoesOn
    BY SectionPasses
  <2>5. Looks("engine", "system") => LoadFails \/ LoadGoesOn
    BY SectionPasses
  <2>6. CASE DefineSystemTags
    <3>1. stage = "system" /\ result = "loading"
      BY <2>6 DEF DefineSystemTags
    <3>2. CASE GoesTo("tags")
      <4>1. "system" \notin DOMAIN file.raises
        BY FilesAssumption DEF TableInv
      <4>2. StageInv'
        BY <3>1, <3>2, <4>1, NextTurn
      <4> QED
        BY <3>2, <4>2 DEF GoesTo, LoadGoesOn
    <3>3. CASE done < Len(file.profile.system) /\ Takes
      BY <3>1, <3>3, TakingKeepsStage
    <3>4. CASE done < Len(file.profile.system) /\ ~Accepted(Upcoming) /\ Raises
      BY <3>1, <3>4, OnlyInlineIsRejected DEF Raises, LoadFails
    <3> QED
      BY <2>6, <3>2, <3>3, <3>4 DEF DefineSystemTags
  <2> QED
    BY <1>2, <2>1, <2>2, <2>3, <2>4, <2>5, <2>6 DEF BuildPlc
<1>3. CASE DefineTags
  <2>1. stage = "tags" /\ result = "loading"
    BY <1>3 DEF DefineTags
  <2>2. CASE done = Len(Declared) /\ GoesTo("plant")
    <3>1. "tags" \notin DOMAIN file.raises
      BY FilesAssumption DEF TableInv
    <3>2. StageInv'
      BY <2>1, <2>2, <3>1, NextTurn
    <3> QED
      BY <2>2, <3>2 DEF GoesTo, LoadGoesOn
  <2>3. CASE Takes
    BY <2>1, <2>3, TakingKeepsStage
  <2>4. CASE done < Len(Declared) /\ Rejected(Upcoming) /\ ConfigError
    BY <2>1, <2>4, RejectedIsUnsound DEF ConfigError, LoadFails
  <2>5. CASE done < Len(Declared) /\ Mistyped(Upcoming) /\ Raises
    <3>1. done + 1 \in DOMAIN Declared
      BY <2>5, Typed DEF TableInv
    <3> QED
      BY <2>1, <2>5, <3>1 DEF Raises, LoadFails, Missed, Upcoming
  <2> QED
    BY <1>3, <2>2, <2>3, <2>4, <2>5 DEF DefineTags
<1>4. CASE BuildPlant \/ BuildTransport \/ BuildFaults
  <2>1. Looks("plant", "transport") => LoadFails \/ LoadGoesOn
    BY SectionPasses
  <2>2. Looks("transport", "faults") => LoadFails \/ LoadGoesOn
    BY SectionPasses
  <2>3. Looks("faults", "historian") => LoadFails \/ LoadGoesOn
    BY SectionPasses
  <2> QED
    BY <1>4, <2>1, <2>2, <2>3 DEF BuildPlant, BuildTransport, BuildFaults
<1>5. CASE BuildObservers
  <2>1. Looks("historian", "historian_sink") => LoadFails \/ LoadGoesOn
    BY SectionPasses
  <2>2. Looks("historian_sink", "historian_keys") => LoadFails \/ LoadGoesOn
    BY SectionPasses
  <2>3. Looks("historian_keys", "events_sink") => LoadFails \/ LoadGoesOn
    BY SectionPasses
  <2>4. Looks("events_sink", "events") => LoadFails \/ LoadGoesOn
    BY SectionPasses
  <2>5. Looks("events", "slave") => LoadFails \/ LoadGoesOn
    BY SectionPasses
  <2> QED
    BY <1>5, <2>1, <2>2, <2>3, <2>4, <2>5 DEF BuildObservers
<1>6. CASE BuildSlave
  <2>1. Looks("slave", "window") => LoadFails \/ LoadGoesOn
    BY SectionPasses
  <2>2. CASE stage = "window" /\ result = "loading"
             /\ file.window \subseteq DOMAIN tags /\ GoesTo("executive")
    <3>1. "window" \notin DOMAIN file.raises
      BY FilesAssumption DEF TableInv
    <3>2. StageInv'
      BY <2>2, <3>1, NextTurn
    <3> QED
      BY <2>2, <3>2 DEF GoesTo, LoadGoesOn
  <2>3. CASE stage = "window" /\ result = "loading"
             /\ file.window \ DOMAIN tags # {} /\ Fails("slave", "KeyError")
    <3>1. ConfigError
      BY <2>3 DEF Fails, IsHandled
    <3>2. done = Len(Declared)
      BY <2>3 DEF StageInv
    <3>3. Reported
      BY <2>3, <3>2, TakenAreSound DEF Reported
    <3> QED
      BY <2>3, <3>1, <3>3 DEF ConfigError, LoadFails
  <2> QED
    BY <1>6, <2>1, <2>2, <2>3 DEF BuildSlave
<1>7. CASE BuildExecutive
  <2>1. stage = "executive" /\ result = "loading"
    BY <1>7 DEF BuildExecutive
  <2>2. CASE "executive" \in DOMAIN file.raises
             /\ Fails("executive", file.raises["executive"])
    BY <2>1, <2>2, FailureIsTheFiles
  <2>3. CASE /\ "executive" \notin DOMAIN file.raises
             /\ stage' = "ticking" /\ result' = "loaded"
             /\ UNCHANGED <<file, done, tags, addressed>>
    BY <2>1, <2>3, LastTurn
  <2> QED
    BY <1>7, <2>2, <2>3 DEF BuildExecutive
<1>8. CASE Tick
  <2>1. CASE UNCHANGED vars
    BY <2>1, Unmoved DEF vars, LoadGoesOn
  <2>2. CASE stage = "ticking" /\ ~Exchanges /\ Raises
    BY <2>2, LostWires DEF Raises
  <2>3. CASE stage = "ticking" /\ ~ProgramFindsItsTags /\ Raises
    BY <2>3 DEF Raises, ProgramFindsItsTags, Unrunnable
  <2>4. CASE stage = "ticking" /\ file.lurks # {} /\ Raises
    BY <2>4 DEF Raises, Unrunnable
  <2> QED
    BY <1>8, <2>1, <2>2, <2>3, <2>4 DEF Tick
<1>9. CASE Ended
  BY <1>9 DEF Ended
<1> QED
  BY <1>1, <1>2, <1>3, <1>4, <1>5, <1>6, <1>7, <1>8, <1>9 DEF Next

\* The outcomes, and what those without a twin say of the file.
EndInv ==
    /\ result \in {"loading", "loaded", "config_error", "raised"}
    /\ result = "config_error" => Reported
    /\ result = "raised" => IF stage = "ticking" THEN Unrunnable ELSE Missed

\* The outcome and the stage are settled once there is no twin.
LEMMA NothingAfterTheEnd ==
    ASSUME result \in {"config_error", "raised"}, [Next]_vars
    PROVE  UNCHANGED vars
  BY DEF Next, ReadFile, BuildPlc, DefineSystemTags, DefineTags, BuildPlant,
         BuildTransport, BuildFaults, BuildObservers, BuildSlave, BuildExecutive,
         Looks, Tick, Ended

LEMMA SameOutcome ==
    ASSUME UNCHANGED <<file, stage, done, tags, addressed>>
    PROVE  /\ Reported' <=> Reported
           /\ Missed' <=> Missed
           /\ Unrunnable' <=> Unrunnable
<1>1. Reported' <=> Reported
  BY DEF Reported, Declared
<1>2. Missed' <=> Missed
  BY DEF Missed, Mistyped, Declared
<1>3. Unrunnable' <=> Unrunnable
  BY DEF Unrunnable, At, Addressed, Place
<1> QED
  BY <1>1, <1>2, <1>3

LEMMA StageInvariant == Spec => [](StageInv /\ EndInv)
<1>1. Init => StageInv /\ EndInv
  <2> SUFFICES ASSUME Init PROVE StageInv /\ EndInv
    OBVIOUS
  <2>1. \A s \in DOMAIN file.raises : Turn[stage] <= Turn[s]
    <3>1. file \in Files /\ stage = "read"
      BY DEF Init
    <3>2. \A s \in Sections : 1 <= Turn[s]
      BY DEF Sections, Handled, Turn
    <3> QED
      BY <3>1, <3>2, Turns, FilesAssumption
  <2>2. 0 <= Len(file.profile.system)
    BY Typed DEF Init
  <2>3. StageInv
    BY <2>1, <2>2, Turns DEF Init, StageInv
  <2>4. EndInv
    BY DEF Init, EndInv
  <2> QED
    BY <2>3, <2>4
<1>2. TableInv /\ OneTagPerTerminal /\ StageInv /\ EndInv /\ [Next]_vars
      => (StageInv /\ EndInv)'
  <2> SUFFICES ASSUME TableInv, OneTagPerTerminal, StageInv, EndInv, [Next]_vars
               PROVE  StageInv' /\ EndInv'
    OBVIOUS
  <2>1. CASE UNCHANGED vars
    <3>1. UNCHANGED <<file, stage, done, tags, addressed, result>>
      BY <2>1 DEF vars
    <3>2. EndInv'
      BY <3>1, SameOutcome DEF EndInv
    <3> QED
      BY <2>1, <3>2, Unmoved DEF vars
  <2>2. CASE result \in {"loading", "loaded"} /\ Next
    <3>1. CASE \/ LoadFails
               \/ /\ UNCHANGED <<file, stage, done, tags, addressed>>
                  /\ result' = "raised" /\ stage = "ticking" /\ Unrunnable
      <4>1. UNCHANGED <<file, stage, done, tags, addressed>> /\ result' # "loaded"
        BY <3>1 DEF LoadFails
      <4>2. EndInv'
        BY <3>1, <4>1, SameOutcome DEF EndInv, LoadFails
      <4> QED
        BY <4>1, <4>2, Unmoved
    <3>2. CASE result' \in {"loading", "loaded"} /\ StageInv'
      BY <3>2 DEF EndInv
    <3> QED
      BY <2>2, <3>1, <3>2, StagesPass DEF LoadGoesOn
  <2> QED
    BY <2>1, <2>2, NothingAfterTheEnd DEF EndInv
<1> QED
  BY <1>1, <1>2, TableInvariant, TerminalsHaveOneTag, PTL DEF Spec

\* The outcome is a matter of the file as a whole, not of the order in which
\* load_project goes through it: what it loads is sound, what it rejects has
\* something its builders look out for, and any other exception comes of what
\* their except clauses miss or, in a tick, of what a sound file leaves open.
THEOREM TheFileDecides == Spec => []OutcomeIsTheFile
<1>1. TableInv /\ StageInv /\ EndInv => OutcomeIsTheFile
  <2> SUFFICES ASSUME TableInv, StageInv, EndInv PROVE OutcomeIsTheFile
    OBVIOUS
  <2>1. ASSUME stage = "ticking" PROVE Sound
    <3>1. done = Len(Declared) /\ file.window \subseteq DOMAIN tags
      BY <2>1, Turns DEF StageInv
    <3>2. DOMAIN file.raises = {}
      <4>1. ASSUME NEW s \in DOMAIN file.raises PROVE FALSE
        <5>1. s \in Sections /\ Turn[s] \in Nat
          BY <4>1, Turns, FilesAssumption DEF TableInv
        <5>2. 22 <= Turn[s] /\ Turn[s] < 22
          BY <2>1, <4>1, <5>1, Turns DEF StageInv
        <5> QED
          BY <5>1, <5>2
      <4> QED
        BY <4>1
    <3> QED
      BY <3>1, <3>2, TakenAreSound DEF Sound
  <2> QED
    BY <2>1 DEF EndInv, StageInv, OutcomeIsTheFile
<1> QED
  BY <1>1, TableInvariant, StageInvariant, PTL
=============================================================================
