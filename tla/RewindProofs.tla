---------------------------- MODULE RewindProofs -----------------------------
(***************************************************************************)
(* The trend store and the snapshot recorder through time travel, for any  *)
(* tag table, capacity, interval and capture rate and any number of ticks, *)
(* rewinds and clears.                                                     *)
(***************************************************************************)
EXTENDS Rewind, SequenceTheorems, FiniteSetTheorems,
        WellFoundedInduction, TLAPS

\* A set of numbers has a least one: the library states it with an operator as
\* a parameter, here it comes from the order being well-founded.
LEMMA LeastNumber ==
    ASSUME NEW T \in SUBSET Nat, T # {}
    PROVE  \E x \in T : \A y \in T : x <= y
<1> DEFINE R == {pair \in Nat \X Nat : pair[1] < pair[2]}
<1>1. IsWellFoundedOn(R, Nat)
  BY NatLessThanWellFounded DEF OpToRel
<1>2. PICK x \in T : \A y \in T : ~(<<y, x>> \in R)
  <2> HIDE DEF R
  <2> QED
    BY <1>1, WFMin
<1>3. \A y \in T : ~(y < x)
  <2> SUFFICES ASSUME NEW y \in T PROVE <<y, x>> \in R <=> y < x
    BY <1>2
  <2> QED
    OBVIOUS
<1> QED
  BY <1>3

\* A bounded set of positions has a last and a first one.
LEMMA LastPosition ==
    ASSUME NEW n \in Nat, NEW I \in SUBSET (1 .. n), I # {}
    PROVE  Max(I) \in I /\ \A i \in I : i <= Max(I)
<1> DEFINE D == {n - i : i \in I}
<1>1. D \in SUBSET Nat /\ D # {}
  <2>1. \A i \in I : n - i \in Nat
    OBVIOUS
  <2> QED
    BY <2>1
<1>2. PICK d \in D : \A e \in D : d <= e
  <2> HIDE DEF D
  <2> QED
    BY <1>1, LeastNumber
<1>3. PICK m \in I : d = n - m
  BY <1>2
<1>4. \A i \in I : i <= m
  <2> TAKE i \in I
  <2>1. n - i \in D /\ n - m <= n - i
    BY <1>2, <1>3
  <2> QED
    BY <2>1
<1>5. \E x \in I : \A y \in I : x >= y
  BY <1>4
<1> QED
  BY <1>5 DEF Max

LEMMA FirstPosition ==
    ASSUME NEW n \in Nat, NEW I \in SUBSET (1 .. n), I # {}
    PROVE  Min(I) \in I /\ \A i \in I : Min(I) <= i
<1>1. I \in SUBSET Nat
  OBVIOUS
<1>2. \E x \in I : \A y \in I : x <= y
  BY <1>1, LeastNumber
<1> QED
  BY <1>2 DEF Min

\* What is left of a sequence cut to its newest elements.
LEMMA NewestLeft ==
    ASSUME NEW S, NEW s \in Seq(S), NEW keep \in Nat,
           NEW o, o = Overflow(s, keep),
           NEW n, n = Len(s),
           NEW r, r = Newest(s, n - o)
    PROVE  /\ o \in 0 .. n
           /\ r \in Seq(S) /\ Len(r) = n - o /\ DOMAIN r = 1 .. (n - o)
           /\ \A i \in 1 .. (n - o) : r[i] = s[i + o]
<1>0. n \in Nat /\ DOMAIN s = 1 .. n
  BY LenProperties
<1>1. o \in 0 .. n
  BY <1>0 DEF Overflow
<1>2. r = SubSeq(s, o + 1, n)
  <2>1. r = SubSeq(s, n - (n - o) + 1, n)
    BY DEF Newest
  <2>2. n - (n - o) + 1 = o + 1
    BY ONLY <1>0, <1>1
  <2> QED
    BY <2>1, <2>2
<1> PICK m : m = o + 1
  OBVIOUS
<1>3. \A i \in m .. n : s[i] \in S
  <2>1. \A i \in m .. n : i \in 1 .. n
    BY ONLY <1>0, <1>1, m = o + 1
  <2> QED
    BY <1>0, <2>1, ElementOfSeq
<1>4. m \in Int /\ n \in Int
  BY <1>0, <1>1
<1>5. /\ r \in Seq(S) /\ Len(r) = IF m <= n THEN n - m + 1 ELSE 0
      /\ \A i \in 1 .. n - m + 1 : r[i] = s[m + i - 1]
  <2>1. r = SubSeq(s, m, n)
    BY <1>2
  <2>2. /\ SubSeq(s, m, n) \in Seq(S)
        /\ Len(SubSeq(s, m, n)) = IF m <= n THEN n - m + 1 ELSE 0
        /\ \A i \in 1 .. n - m + 1 : SubSeq(s, m, n)[i] = s[m + i - 1]
    BY ONLY <1>3, <1>4, SubSeqProperties
  <2> QED
    BY <2>1, <2>2
<1> PICK k : k = Len(r)
  OBVIOUS
<1>6. k = n - o
  <2>1. k = IF m <= n THEN n - m + 1 ELSE 0
    BY <1>5
  <2> QED
    BY ONLY <1>0, <1>1, <2>1, m = o + 1
<1>7. \A i \in 1 .. (n - o) : r[i] = s[i + o]
  <2> TAKE i \in 1 .. (n - o)
  <2>1. i \in 1 .. n - m + 1 /\ m + i - 1 = i + o
    BY ONLY <1>0, <1>1, m = o + 1, i \in 1 .. (n - o)
  <2> QED
    BY <1>5, <2>1
<1>8. DOMAIN r = 1 .. (n - o)
  BY <1>5, <1>6, LenProperties
<1> QED
  BY <1>0, <1>1, <1>5, <1>6, <1>7, <1>8

-----------------------------------------------------------------------------
(***************************************************************************)
(* The recorder.                                                           *)
(***************************************************************************)

LEMMA CaptureTicks ==
    ASSUME NEW list \in Seq(Captures), NEW i \in DOMAIN list
    PROVE  list[i] \in Captures /\ list[i].ticks \in Nat \ {0}
<1>1. list[i] \in Captures
  BY ElementOfSeq, LenProperties
<1> QED
  BY <1>1 DEF Captures

\* At finds the last entry at or before a tick, if there is one.
LEMMA AtFinds ==
    ASSUME snapshots \in Seq(Captures), NEW n \in Nat
    PROVE  /\ At(n) # 0 => IsAt(snapshots, n, At(n))
           /\ \A i \in DOMAIN snapshots : IsAt(snapshots, n, i) => At(n) = i
<1> PICK I : I = {i \in 1 .. Len(snapshots) : snapshots[i].ticks <= n}
  OBVIOUS
<1>1. At(n) = IF I # {} THEN Max(I) ELSE 0
  BY DEF At, SelectLastInSeq
<1>2. /\ Len(snapshots) \in Nat /\ DOMAIN snapshots = 1 .. Len(snapshots)
      /\ \A i \in DOMAIN snapshots : snapshots[i].ticks \in Nat
  <2>1. Len(snapshots) \in Nat /\ DOMAIN snapshots = 1 .. Len(snapshots)
    BY LenProperties
  <2>2. \A i \in DOMAIN snapshots : snapshots[i] \in Captures
    BY <2>1, ElementOfSeq
  <2> QED
    BY <2>1, <2>2 DEF Captures
<1>3. I # {} => Max(I) \in I /\ \A i \in I : i <= Max(I)
  BY <1>2, LastPosition
<1>4. ASSUME At(n) # 0 PROVE IsAt(snapshots, n, At(n))
  <2>1. At(n) \in I /\ \A j \in I : j <= At(n)
    BY <1>1, <1>3, <1>4
  <2>2. ASSUME NEW j \in DOMAIN snapshots, At(n) < j PROVE n < snapshots[j].ticks
    BY <1>2, <2>1, <2>2
  <2> QED
    BY <1>2, <2>1, <2>2 DEF IsAt
<1>5. ASSUME NEW i \in DOMAIN snapshots, IsAt(snapshots, n, i) PROVE At(n) = i
  <2>1. i \in I
    BY <1>2, <1>5 DEF IsAt
  <2>2. Max(I) \in I /\ i <= Max(I) /\ ~(i < Max(I))
    BY <1>2, <1>3, <1>5, <2>1 DEF IsAt
  <2> QED
    BY <1>1, <1>2, <2>1, <2>2
<1> QED
  BY <1>4, <1>5

\* The invariant's form of the property is the property.
LEMMA OnBranchIs ==
    ASSUME snapshots \in Seq(Captures), ticks \in Nat
    PROVE  RewindsStayOnBranch <=> \A n \in 1 .. ticks : OnBranch(snapshots, branch, n)
<1> SUFFICES ASSUME NEW n \in 1 .. ticks
             PROVE  (At(n) # 0 =>
                        LET found == snapshots[At(n)]
                        IN  /\ found.tags = branch[found.ticks]
                            /\ \A s \in ToSet(snapshots) :
                                   s.ticks <= n => s.ticks <= found.ticks)
                    <=> OnBranch(snapshots, branch, n)
  BY DEF RewindsStayOnBranch
<1>1. n \in Nat
  OBVIOUS
<1>2. At(n) # 0 => At(n) \in DOMAIN snapshots
  BY <1>1, AtFinds DEF IsAt
<1>3. 0 \notin DOMAIN snapshots
  BY LenProperties
<1> QED
  BY <1>1, <1>2, <1>3, AtFinds DEF OnBranch, ToSet

\* The invariant, of any list, branch and tick.
Recorded(list, trunk, t) ==
    /\ t \in Nat
    /\ trunk \in Seq(TagTables) /\ Len(trunk) = t
    /\ list \in Seq(Captures)
    /\ \A i \in DOMAIN list : list[i].ticks % Every = 0
    /\ \A n \in 1 .. t : OnBranch(list, trunk, n)

\* A tick without a capture: no entry is of that tick, which is no multiple of
\* Every, so a rewind to it finds what a rewind to the tick before found.
LEMMA TicksStayOnBranch ==
    ASSUME NEW list \in Seq(Captures), NEW t \in Nat,
           NEW trunk \in Seq(TagTables), Len(trunk) = t, NEW table \in TagTables,
           \A i \in DOMAIN list : list[i].ticks % Every = 0,
           \A n \in 1 .. t : OnBranch(list, trunk, n),
           (t + 1) % Every # 0,
           NEW longer, longer = Append(trunk, table)
    PROVE  \A n \in 1 .. t + 1 : OnBranch(list, longer, n)
<1>1. \A i \in DOMAIN list : list[i].ticks \in Nat \ {0}
  <2>1. \A i \in DOMAIN list : list[i] \in Captures
    BY ElementOfSeq, LenProperties
  <2> QED
    BY <2>1 DEF Captures
<1>2. \A k \in 1 .. t : longer[k] = trunk[k]
  BY AppendProperties
<1>3. \A n \in 1 .. t : OnBranch(list, longer, n)
  <2> TAKE n \in 1 .. t
  <2>1. OnBranch(list, trunk, n)
    OBVIOUS
  <2>2. \A i \in DOMAIN list : list[i].ticks <= n => list[i].ticks \in 1 .. t
    <3> TAKE i \in DOMAIN list
    <3> PICK k : k = list[i].ticks
      OBVIOUS
    <3>1. k \in Nat \ {0}
      BY <1>1
    <3>2. k <= n => k \in 1 .. t
      BY ONLY <3>1, n \in 1 .. t, t \in Nat
    <3> QED
      BY <3>2
  <2> QED
    BY <1>2, <2>1, <2>2 DEF OnBranch, IsAt
<1>4. OnBranch(list, longer, t + 1)
  <2>1. \A i \in DOMAIN list : list[i].ticks <= t + 1 <=> list[i].ticks <= t
    <3> TAKE i \in DOMAIN list
    <3> PICK k : k = list[i].ticks
      OBVIOUS
    <3>1. k \in Nat /\ k # t + 1
      BY <1>1
    <3>2. k <= t + 1 <=> k <= t
      BY ONLY <3>1, t \in Nat
    <3> QED
      BY <3>2
  <2>2. \A i \in DOMAIN list : t + 1 < list[i].ticks <=> t < list[i].ticks
    <3> TAKE i \in DOMAIN list
    <3> PICK k : k = list[i].ticks
      OBVIOUS
    <3>1. k \in Nat /\ k # t + 1
      BY <1>1
    <3>2. t + 1 < k <=> t < k
      BY ONLY <3>1, t \in Nat
    <3> QED
      BY <3>2
  <2>3. CASE t = 0
    <3>1. \A i \in DOMAIN list : ~(list[i].ticks <= 0)
      BY <1>1
    <3> QED
      BY <2>1, <2>3, <3>1 DEF OnBranch, IsAt
  <2>4. CASE t # 0
    <3>1. OnBranch(list, longer, t)
      BY <1>3, <2>4
    <3> QED
      BY <2>1, <2>2, <3>1 DEF OnBranch, IsAt
  <2> QED
    BY <2>3, <2>4
<1> QED
  <2> SUFFICES ASSUME NEW n \in 1 .. t + 1 PROVE OnBranch(list, longer, n)
    OBVIOUS
  <2>1. n \in 1 .. t \/ n = t + 1
    OBVIOUS
  <2> QED
    BY <1>3, <1>4, <2>1

LEMMA TickRecorded ==
    ASSUME NEW list, NEW trunk, NEW t, Recorded(list, trunk, t),
           NEW table \in TagTables, (t + 1) % Every # 0
    PROVE  Recorded(list, Append(trunk, table), t + 1)
<1> PICK longer : longer = Append(trunk, table)
  OBVIOUS
<1>1. /\ t \in Nat /\ trunk \in Seq(TagTables) /\ Len(trunk) = t
      /\ list \in Seq(Captures)
      /\ \A i \in DOMAIN list : list[i].ticks % Every = 0
      /\ \A n \in 1 .. t : OnBranch(list, trunk, n)
  BY DEF Recorded
<1>2. \A n \in 1 .. t + 1 : OnBranch(list, longer, n)
  BY <1>1, TicksStayOnBranch
<1>3. longer \in Seq(TagTables) /\ Len(longer) = t + 1
  BY <1>1, AppendProperties
<1> QED
  BY <1>1, <1>2, <1>3 DEF Recorded

\* A tick with a capture: the new entry answers a rewind to that tick, and the
\* entries left of the older ones answer for the ticks before as they did.
LEMMA CaptureRecorded ==
    ASSUME NEW list, NEW trunk, NEW t, Recorded(list, trunk, t),
           NEW table \in TagTables, (t + 1) % Every = 0,
           NEW all, all = Append(list, [ticks |-> t + 1, tags |-> table])
    PROVE  Recorded(Newest(all, Len(all) - Overflow(all, Keep)),
                    Append(trunk, table), t + 1)
<1> PICK longer : longer = Append(trunk, table)
  OBVIOUS
<1> PICK kept : kept = Newest(all, Len(all) - Overflow(all, Keep))
  OBVIOUS
<1>0. /\ t \in Nat /\ trunk \in Seq(TagTables) /\ Len(trunk) = t
      /\ list \in Seq(Captures)
      /\ \A i \in DOMAIN list : list[i].ticks % Every = 0
      /\ \A n \in 1 .. t : OnBranch(list, trunk, n)
  BY DEF Recorded
<1> USE <1>0
<1> PICK l : l = Len(list)
  OBVIOUS
<1> PICK o : o = Overflow(all, Keep)
  OBVIOUS
<1> PICK new : new = [ticks |-> t + 1, tags |-> table]
  OBVIOUS
<1>1. l \in Nat /\ DOMAIN list = 1 .. l /\ \A i \in 1 .. l : list[i] \in Captures
  BY LenProperties, ElementOfSeq
<1>2. /\ new \in Captures /\ new.ticks = t + 1 /\ new.tags = table
      /\ all = Append(list, new)
  BY DEF Captures
<1>3. /\ all \in Seq(Captures) /\ Len(all) = l + 1
      /\ \A i \in 1 .. l : all[i] = list[i]
  BY <1>2, AppendProperties
<1>4. all[l + 1] = new
  BY <1>2, AppendProperties
<1>5. o \in 0 .. l
  <2> PICK m : m = Len(all)
    OBVIOUS
  <2>1. o = IF m > Keep THEN m - Keep ELSE 0
    BY DEF Overflow
  <2>2. Keep \in Nat \ {0} /\ m = l + 1
    BY <1>3, RewindAssumption
  <2> QED
    BY ONLY <1>1, <2>1, <2>2
<1>6. /\ kept \in Seq(Captures) /\ DOMAIN kept = 1 .. (l + 1 - o)
      /\ \A i \in 1 .. (l + 1 - o) : kept[i] = all[i + o]
  <2>1. all \in Seq(Captures) /\ Keep \in Nat
    BY <1>3, RewindAssumption
  <2> PICK m : m = Len(all)
    OBVIOUS
  <2>2. kept = Newest(all, m - o)
    OBVIOUS
  <2>3. /\ kept \in Seq(Captures) /\ DOMAIN kept = 1 .. (m - o)
        /\ \A i \in 1 .. (m - o) : kept[i] = all[i + o]
    BY ONLY <2>1, <2>2, o = Overflow(all, Keep), m = Len(all), NewestLeft
  <2>4. m = l + 1
    BY <1>3
  <2>5. m - o = l + 1 - o
    BY ONLY <1>1, <1>5, <2>4
  <2> QED
    BY <2>3, <2>5
<1> PICK z : z = l + 1 - o
  OBVIOUS
<1>7. z \in Nat \ {0} /\ kept[z] = new /\ DOMAIN kept = 1 .. z
  <2>1. z \in Nat \ {0} /\ z + o = l + 1 /\ z \in 1 .. (l + 1 - o)
    BY ONLY <1>1, <1>5, z = l + 1 - o
  <2> QED
    BY <1>4, <1>6, <2>1
<1>8. \A i \in DOMAIN kept : i # z => i + o \in DOMAIN list /\ kept[i] = list[i + o]
  <2> TAKE i \in DOMAIN kept
  <2> HAVE i # z
  <2>1. i \in 1 .. z /\ i \in 1 .. (l + 1 - o)
    BY <1>6, <1>7
  <2>2. i + o \in 1 .. l
    BY ONLY <1>1, <1>5, <2>1, i # z, z = l + 1 - o
  <2> QED
    BY <1>1, <1>3, <1>6, <2>1, <2>2
<1>9. \A k \in 1 .. t : longer[k] = trunk[k]
  BY AppendProperties
<1>10. longer[t + 1] = table
  BY AppendProperties
<1>11. \A j \in DOMAIN list : list[j].ticks \in Nat \ {0}
  BY <1>1 DEF Captures
<1>12. ASSUME NEW n \in 1 .. t PROVE OnBranch(kept, longer, n)
  <2> SUFFICES ASSUME NEW i \in DOMAIN kept, IsAt(kept, n, i)
               PROVE  /\ kept[i].tags = longer[kept[i].ticks]
                      /\ \A j \in DOMAIN kept :
                             kept[j].ticks <= n => kept[j].ticks <= kept[i].ticks
    BY DEF OnBranch
  <2>0. ~(t + 1 <= n)
    BY ONLY n \in 1 .. t, t \in Nat
  <2>1. i # z /\ \A j \in DOMAIN kept : kept[j].ticks <= n => j # z
    BY <1>2, <1>7, <2>0 DEF IsAt
  <2> PICK p : p = i + o
    OBVIOUS
  <2>2. p \in DOMAIN list /\ kept[i] = list[p]
    BY <1>8, <2>1
  <2>3. IsAt(list, n, p)
    <3> SUFFICES ASSUME NEW j \in DOMAIN list, p < j PROVE n < list[j].ticks
      BY <2>2 DEF IsAt
    <3> PICK q : q = j - o
      OBVIOUS
    <3>1. j \in 1 .. l /\ i \in 1 .. z
      BY <1>1, <1>7
    <3>2. q \in 1 .. z /\ q + o = j /\ i < q /\ q # z
      BY ONLY <1>1, <1>5, <3>1, p < j, p = i + o, q = j - o, z = l + 1 - o
    <3>3. kept[q] = list[j]
      BY <1>7, <1>8, <3>2
    <3> QED
      BY <1>7, <3>2, <3>3 DEF IsAt
  <2>4. /\ list[p].tags = trunk[list[p].ticks]
        /\ \A j \in DOMAIN list : list[j].ticks <= n => list[j].ticks <= list[p].ticks
    BY <2>2, <2>3 DEF OnBranch
  <2>5. list[p].ticks \in 1 .. t
    <3> PICK k : k = list[p].ticks
      OBVIOUS
    <3>1. k \in Nat \ {0} /\ k <= n
      BY <1>11, <2>2, <2>3 DEF IsAt
    <3>2. k \in 1 .. t
      BY ONLY <3>1, n \in 1 .. t, t \in Nat
    <3> QED
      BY <3>2
  <2>6. kept[i].tags = longer[kept[i].ticks]
    BY <1>9, <2>2, <2>4, <2>5
  <2>7. \A j \in DOMAIN kept : kept[j].ticks <= n => kept[j].ticks <= kept[i].ticks
    <3> SUFFICES ASSUME NEW j \in DOMAIN kept, kept[j].ticks <= n
                 PROVE  kept[j].ticks <= kept[i].ticks
      OBVIOUS
    <3> PICK q : q = j + o
      OBVIOUS
    <3>1. q \in DOMAIN list /\ kept[j] = list[q]
      BY <1>8, <2>1
    <3> QED
      BY <2>2, <2>4, <3>1
  <2> QED
    BY <2>6, <2>7
<1>13. OnBranch(kept, longer, t + 1)
  <2>1. z \in DOMAIN kept /\ kept[z].ticks = t + 1
    BY <1>2, <1>7
  <2>2. ASSUME NEW i \in DOMAIN kept, IsAt(kept, t + 1, i) PROVE i = z
    <3>1. i \in 1 .. z /\ (i < z => t + 1 < t + 1)
      BY <1>7, <2>1, <2>2 DEF IsAt
    <3> QED
      BY ONLY <1>7, <3>1, t \in Nat
  <2> QED
    BY <1>2, <1>7, <1>10, <2>1, <2>2 DEF OnBranch
<1>14. \A i \in DOMAIN kept : kept[i].ticks % Every = 0
  BY <1>2, <1>7, <1>8
<1>15. \A n \in 1 .. t + 1 : OnBranch(kept, longer, n)
  <2> SUFFICES ASSUME NEW n \in 1 .. t + 1 PROVE OnBranch(kept, longer, n)
    OBVIOUS
  <2>1. n \in 1 .. t \/ n = t + 1
    OBVIOUS
  <2> QED
    BY <1>12, <1>13, <2>1
<1>16. longer \in Seq(TagTables) /\ Len(longer) = t + 1
  BY AppendProperties
<1> QED
  BY <1>6, <1>14, <1>15, <1>16 DEF Recorded

\* A rewind cuts the branch at the tick rewound to and leaves the list alone.
LEMMA CutRecorded ==
    ASSUME NEW list, NEW trunk, NEW t, Recorded(list, trunk, t), NEW e \in 1 .. t
    PROVE  Recorded(list, SubSeq(trunk, 1, e), e)
<1> PICK shorter : shorter = SubSeq(trunk, 1, e)
  OBVIOUS
<1>0. /\ t \in Nat /\ trunk \in Seq(TagTables) /\ Len(trunk) = t
      /\ list \in Seq(Captures)
      /\ \A i \in DOMAIN list : list[i].ticks % Every = 0
      /\ \A n \in 1 .. t : OnBranch(list, trunk, n)
  BY DEF Recorded
<1> USE <1>0
<1>1. \A i \in 1 .. e : trunk[i] \in TagTables
  <2>1. \A i \in 1 .. e : i \in 1 .. t
    BY ONLY e \in 1 .. t, t \in Nat
  <2> QED
    BY <2>1, ElementOfSeq
<1>2. 1 \in Int /\ e \in Int
  OBVIOUS
<1>3. /\ SubSeq(trunk, 1, e) \in Seq(TagTables)
      /\ Len(SubSeq(trunk, 1, e)) = IF 1 <= e THEN e - 1 + 1 ELSE 0
      /\ \A i \in 1 .. e - 1 + 1 : SubSeq(trunk, 1, e)[i] = trunk[1 + i - 1]
  BY ONLY <1>1, <1>2, SubSeqProperties
<1> PICK k : k = Len(shorter)
  OBVIOUS
<1>4. k = e
  <2>1. k = IF 1 <= e THEN e - 1 + 1 ELSE 0
    BY <1>3
  <2> QED
    BY ONLY <2>1, e \in 1 .. t, t \in Nat
<1>5. \A i \in 1 .. e : shorter[i] = trunk[i]
  <2> TAKE i \in 1 .. e
  <2>1. i \in 1 .. e - 1 + 1 /\ 1 + i - 1 = i
    BY ONLY i \in 1 .. e, e \in 1 .. t, t \in Nat
  <2> QED
    BY <1>3, <2>1
<1>6. ASSUME NEW n \in 1 .. e PROVE OnBranch(list, shorter, n)
  <2>1. OnBranch(list, trunk, n)
    <3>1. n \in 1 .. t
      BY ONLY n \in 1 .. e, e \in 1 .. t, t \in Nat
    <3> QED
      BY <3>1
  <2>2. \A i \in DOMAIN list : list[i].ticks <= n => list[i].ticks \in 1 .. e
    <3> TAKE i \in DOMAIN list
    <3> PICK c : c = list[i].ticks
      OBVIOUS
    <3>1. c \in Nat \ {0}
      BY CaptureTicks
    <3>2. c <= n => c \in 1 .. e
      BY ONLY <3>1, n \in 1 .. e, e \in 1 .. t, t \in Nat
    <3> QED
      BY <3>2
  <2> QED
    BY <1>5, <2>1, <2>2 DEF OnBranch, IsAt
<1> QED
  BY <1>3, <1>4, <1>6 DEF Recorded

-----------------------------------------------------------------------------
LEMMA BranchInit ==
    Init => BranchInv
<1> SUFFICES ASSUME Init PROVE BranchInv
  OBVIOUS
<1>1. ticks = 0 /\ branch = <<>> /\ snapshots = <<>>
  BY DEF Init
<1>2. branch \in Seq(TagTables) /\ Len(branch) = 0 /\ snapshots \in Seq(Captures)
  BY <1>1, EmptySeq
<1>3. DOMAIN snapshots = {}
  BY <1>1
<1> QED
  BY <1>1, <1>2, <1>3 DEF BranchInv

\* A tick, with or without a capture.
LEMMA BranchTick ==
    ASSUME BranchInv, Tick
    PROVE  BranchInv'
<1> PICK t : t = ticks
  OBVIOUS
<1> PICK table : table = tags'
  OBVIOUS
<1> PICK list : list = snapshots
  OBVIOUS
<1> PICK trunk : trunk = branch
  OBVIOUS
<1> PICK all : all = Append(list, [ticks |-> t + 1, tags |-> table])
  OBVIOUS
<1>1. Recorded(list, trunk, t)
  BY DEF BranchInv, Recorded
<1>2. /\ ticks' = t + 1 /\ table \in TagTables
      /\ branch' = Append(trunk, table)
      /\ snapshots' = IF (t + 1) % Every # 0 THEN list
                      ELSE Newest(all, Len(all) - Overflow(all, Keep))
  <2>1. MaybeCapture(ticks', tags') /\ ticks' = t + 1 /\ table \in TagTables
    BY DEF Tick
  <2>2. snapshots' = IF ticks' % Every # 0 THEN list
                     ELSE LET a == Append(list, [ticks |-> ticks', tags |-> tags'])
                          IN  Newest(a, Len(a) - Overflow(a, Keep))
    BY <2>1 DEF MaybeCapture
  <2>3. branch' = Append(trunk, table)
    BY DEF Tick
  <2> QED
    BY <2>1, <2>2, <2>3
<1>3. Recorded(snapshots', branch', ticks')
  <2>1. CASE (t + 1) % Every # 0
    BY <1>1, <1>2, <2>1, TickRecorded
  <2>2. CASE (t + 1) % Every = 0
    <3>1. Recorded(Newest(all, Len(all) - Overflow(all, Keep)),
                   Append(trunk, table), t + 1)
      BY <1>1, <1>2, <2>2, CaptureRecorded
    <3> QED
      BY <1>2, <2>2, <3>1
  <2> QED
    BY <2>1, <2>2
<1> QED
  BY ONLY <1>3 DEF BranchInv, Recorded

\* A rewind to a tick of the past.
LEMMA BranchRewind ==
    ASSUME BranchInv, NEW n \in 1 .. ticks, RewindTo(n)
    PROVE  BranchInv'
<1> PICK t : t = ticks
  OBVIOUS
<1> PICK trunk : trunk = branch
  OBVIOUS
<1> PICK list : list = snapshots
  OBVIOUS
<1> PICK i : i = At(n)
  OBVIOUS
<1> PICK e : e = list[i].ticks
  OBVIOUS
<1>1. Recorded(list, trunk, t)
  BY DEF BranchInv, Recorded
<1>2. /\ i # 0 /\ ticks' = e /\ branch' = SubSeq(trunk, 1, e)
      /\ snapshots' = list
  BY DEF RewindTo
<1>3. t \in Nat /\ list \in Seq(Captures) /\ n \in 1 .. t
  BY <1>1 DEF Recorded
<1>4. i \in DOMAIN list /\ e <= n
  <2>1. IsAt(snapshots, n, i)
    BY <1>2, <1>3, AtFinds
  <2> QED
    BY <2>1 DEF IsAt
<1>5. e \in 1 .. t
  <2>1. e \in Nat \ {0}
    BY <1>3, <1>4, CaptureTicks
  <2> QED
    BY ONLY <1>3, <1>4, <2>1
<1>6. Recorded(list, SubSeq(trunk, 1, e), e)
  BY ONLY <1>1, <1>5, CutRecorded
<1>7. Recorded(snapshots', branch', ticks')
  BY ONLY <1>2, <1>6
<1> QED
  BY ONLY <1>7 DEF BranchInv, Recorded

LEMMA BranchStep ==
    ASSUME BranchInv, [Next]_vars
    PROVE  BranchInv'
<1>1. CASE Tick
  BY <1>1, BranchTick
<1>2. CASE \E n \in 1 .. ticks : RewindTo(n)
  BY <1>2, BranchRewind
<1>3. CASE ClearHistorian
  BY <1>3 DEF ClearHistorian, observedVars, BranchInv, OnBranch, IsAt
<1>4. CASE UNCHANGED vars
  BY <1>4 DEF vars, observedVars, historyVars, BranchInv, OnBranch, IsAt
<1> QED
  BY <1>1, <1>2, <1>3, <1>4 DEF Next

\* A rewind to a tick of the past finds the nearest kept capture of the branch
\* the twin is on, however often it was rewound before and whatever captures the
\* abandoned branches left in the recorder's list.
THEOREM RewindsFindTheBranch == Spec => []RewindsStayOnBranch
<1>1. Init => BranchInv
  BY BranchInit
<1>2. BranchInv /\ [Next]_vars => BranchInv'
  BY BranchStep
<1>3. BranchInv => RewindsStayOnBranch
  BY OnBranchIs DEF BranchInv
<1> QED
  BY <1>1, <1>2, <1>3, PTL DEF Spec

-----------------------------------------------------------------------------
(***************************************************************************)
(* The trend: what one batch holds.                                        *)
(***************************************************************************)

\* Every rank is taken by one member, and every member has a rank.
LEMMA RanksAndMembers ==
    ASSUME NEW m \in Nat, NEW P \in SUBSET (1 .. m)
    PROVE  /\ Cardinality(P) \in Nat
           /\ \A n \in 1 .. Cardinality(P) : Nth(P, n) \in P
           /\ \A p \in P : \E n \in 1 .. Cardinality(P) : Nth(P, n) = p
<1> DEFINE Upto(p) == {q \in P : q <= p}
           rank == [p \in P |-> Cardinality(Upto(p))]
<1> PICK c : c = Cardinality(P)
  OBVIOUS
<1>1. IsFiniteSet(P) /\ c \in Nat
  <2>1. IsFiniteSet(1 .. m)
    BY FS_Interval
  <2> QED
    BY <2>1, FS_Subset, FS_CardinalityType
<1>2. \A p \in P : IsFiniteSet(Upto(p)) /\ Cardinality(Upto(p)) \in 1 .. c
  <2> TAKE p \in P
  <2> DEFINE U == Upto(p)
  <2>1. U \in SUBSET P /\ U # {}
    OBVIOUS
  <2> HIDE DEF U
  <2>2. IsFiniteSet(U) /\ Cardinality(U) <= c /\ Cardinality(U) \in Nat
    BY <1>1, <2>1, FS_Subset, FS_CardinalityType
  <2>3. Cardinality(U) # 0
    BY <2>1, <2>2, FS_EmptySet
  <2> QED
    BY <1>1, <2>2, <2>3 DEF U
<1>3. \A p, q \in P : p < q => Cardinality(Upto(p)) # Cardinality(Upto(q))
  <2> SUFFICES ASSUME NEW p \in P, NEW q \in P, p < q
               PROVE  Cardinality(Upto(p)) # Cardinality(Upto(q))
    OBVIOUS
  <2> DEFINE U == Upto(p)
             V == Upto(q)
  <2>0. p \in Nat /\ q \in Nat /\ \A x \in P : x \in Nat
    OBVIOUS
  <2>1. U \in SUBSET V /\ q \in V /\ q \notin U
    <3>1. \A x \in U : x \in P /\ x <= q
      <4> TAKE x \in U
      <4>1. x \in P /\ x \in Nat /\ x <= p
        BY <2>0
      <4>2. x <= q
        BY ONLY <2>0, <4>1, p < q
      <4> QED
        BY <4>1, <4>2
    <3>2. q <= q /\ ~(q <= p)
      BY ONLY <2>0, p < q
    <3> QED
      BY <3>1, <3>2
  <2>2. IsFiniteSet(V)
    BY <1>2
  <2> HIDE DEF U, V
  <2>3. Cardinality(U) # Cardinality(V)
    BY <2>1, <2>2, FS_Subset
  <2> QED
    BY <2>3 DEF U, V
<1>4. rank \in Injection(P, 1 .. c)
  <2>1. rank \in [P -> 1 .. c]
    BY <1>2
  <2>2. \A p, q \in P : p # q => rank[p] # rank[q]
    <3> SUFFICES ASSUME NEW p \in P, NEW q \in P, p # q PROVE rank[p] # rank[q]
      OBVIOUS
    <3>1. p < q \/ q < p
      OBVIOUS
    <3> QED
      BY <1>3, <3>1
  <2> QED
    BY <2>1, <2>2 DEF Injection, IsInjective
<1>5. rank \in Surjection(P, 1 .. c)
  <2>1. IsFiniteSet(1 .. c) /\ Cardinality(1 .. c) = c
    BY <1>1, FS_Interval
  <2> HIDE DEF rank
  <2> QED
    BY <1>4, <2>1, FS_Injection
<1>6. \A n \in 1 .. c : \E p \in P : Cardinality(Upto(p)) = n
  BY <1>5 DEF Surjection
<1>7. \A n \in 1 .. c : Nth(P, n) \in P /\ Cardinality(Upto(Nth(P, n))) = n
  <2> TAKE n \in 1 .. c
  <2> DEFINE A == {i \in P : Cardinality({j \in P : j <= i}) = n}
  <2>1. \E i \in A : TRUE
    BY <1>6
  <2>2. Nth(P, n) = CHOOSE i \in A : TRUE
    BY DEF Nth, TheOne
  <2> HIDE DEF A
  <2>3. Nth(P, n) \in A
    BY <2>1, <2>2
  <2> QED
    BY <2>3 DEF A
<1>8. \A p \in P : \E n \in 1 .. c : Nth(P, n) = p
  <2> SUFFICES ASSUME NEW p \in P PROVE \E n \in 1 .. c : Nth(P, n) = p
    OBVIOUS
  <2> PICK n : n = Cardinality(Upto(p))
    OBVIOUS
  <2>1. n \in 1 .. c
    BY <1>2
  <2> PICK q : q = Nth(P, n)
    OBVIOUS
  <2>2. q \in P /\ Cardinality(Upto(q)) = n
    BY <1>7, <2>1
  <2>3. q \in 1 .. m /\ p \in 1 .. m
    BY <2>2
  <2>4. ~(p < q) /\ ~(q < p)
    BY <1>3, <2>2
  <2> QED
    BY <2>1, <2>3, <2>4
<1> HIDE DEF rank, Upto
<1> QED
  BY <1>1, <1>7, <1>8

\* Two sequences in a row.
LEMMA Concatenated ==
    ASSUME NEW S, NEW s \in Seq(S), NEW new \in Seq(S),
           NEW n, n = Len(s), NEW m, m = Len(new), NEW all, all = s \o new
    PROVE  /\ n \in Nat /\ m \in Nat /\ DOMAIN s = 1 .. n /\ DOMAIN new = 1 .. m
           /\ all \in Seq(S) /\ Len(all) = n + m /\ DOMAIN all = 1 .. (n + m)
           /\ \A i \in 1 .. n : all[i] = s[i]
           /\ \A j \in 1 .. m : all[n + j] = new[j]
<1>1. n \in Nat /\ m \in Nat /\ DOMAIN s = 1 .. n /\ DOMAIN new = 1 .. m
  BY LenProperties
<1>2. /\ s \o new \in Seq(S) /\ Len(s \o new) = Len(s) + Len(new)
      /\ \A i \in 1 .. Len(s) + Len(new) :
             (s \o new)[i] = IF i <= Len(s) THEN s[i] ELSE new[i - Len(s)]
  BY ConcatProperties
<1>3. /\ all \in Seq(S) /\ Len(all) = n + m
      /\ \A i \in 1 .. n + m : all[i] = IF i <= n THEN s[i] ELSE new[i - n]
  BY <1>2
<1>4. DOMAIN all = 1 .. (n + m)
  BY <1>3, LenProperties
<1>5. \A i \in 1 .. n : all[i] = s[i]
  <2> TAKE i \in 1 .. n
  <2>1. i \in 1 .. n + m /\ i <= n
    BY <1>1
  <2> QED
    BY <1>3, <2>1
<1>6. \A j \in 1 .. m : all[n + j] = new[j]
  <2> TAKE j \in 1 .. m
  <2>1. n + j \in 1 .. n + m /\ ~(n + j <= n) /\ n + j - n = j
    BY <1>1
  <2> QED
    BY <1>3, <2>1
<1> QED
  BY <1>1, <1>3, <1>4, <1>5, <1>6

\* The tags record() stores a sample of.
Stored(table) ==
    {t \in TrendTags : mode = "on_change" => ~Unchanged(t, table[t])}

\* One sample per stored tag, with its value, all at one time.
Batch(new, now, table, kept) ==
    /\ new \in Seq(Samples)
    /\ \A n \in DOMAIN new : /\ new[n].at = now /\ new[n].tag \in kept
                             /\ new[n].value = table[new[n].tag]
    /\ \A t \in kept : \E n \in DOMAIN new : new[n].tag = t

LEMMA BatchIsStored ==
    ASSUME NEW now \in Nat, NEW table \in TagTables
    PROVE  Batch(NewSamples(now, table), now, table, Stored(table))
<1> PICK m : m = Len(TagOrder)
  OBVIOUS
<1> PICK new : new = NewSamples(now, table)
  OBVIOUS
<1> PICK P : P = {i \in DOMAIN TagOrder :
                    /\ TagOrder[i] \in TrendTags
                    /\ mode = "on_change" => ~Unchanged(TagOrder[i], table[TagOrder[i]])}
  OBVIOUS
<1> PICK c : c = Cardinality(P)
  OBVIOUS
<1>1. m \in Nat /\ DOMAIN TagOrder = 1 .. m
  BY HistorianAssumption, LenProperties
<1>2. /\ c \in Nat /\ \A n \in 1 .. c : Nth(P, n) \in P
      /\ \A p \in P : \E n \in 1 .. c : Nth(P, n) = p
  <2>1. P \in SUBSET (1 .. m)
    BY <1>1
  <2> QED
    BY ONLY <1>1, <2>1, RanksAndMembers, c = Cardinality(P)
<1>3. new = [n \in 1 .. c |-> [at |-> now, tag |-> TagOrder[Nth(P, n)],
                                value |-> table[TagOrder[Nth(P, n)]]]]
  BY DEF NewSamples
<1>4. \A i \in P : TagOrder[i] \in Stored(table)
  BY DEF Stored
<1>5. \A t \in Stored(table) : \E i \in P : TagOrder[i] = t
  <2> SUFFICES ASSUME NEW t \in Stored(table) PROVE \E i \in P : TagOrder[i] = t
    OBVIOUS
  <2>1. t \in TrendTags /\ (mode = "on_change" => ~Unchanged(t, table[t]))
    BY DEF Stored
  <2>2. \E i \in DOMAIN TagOrder : TagOrder[i] = t
    BY <2>1, HistorianAssumption DEF ToSet
  <2> QED
    BY <2>1, <2>2
<1>6. \A t \in Stored(table) : t \in TrendTags /\ table[t] \in TagValues
  <2>1. TrendTags \subseteq ToSet(TagOrder)
    BY HistorianAssumption
  <2> QED
    BY <2>1 DEF Stored, TagTables
<1>7. new \in Seq(Samples)
  <2>1. \A n \in 1 .. c : new[n] \in Samples
    <3> TAKE n \in 1 .. c
    <3>1. TagOrder[Nth(P, n)] \in Stored(table)
      BY <1>2, <1>4
    <3> QED
      BY <1>3, <1>6, <3>1 DEF Samples
  <2>2. new \in [1 .. c -> Samples]
    BY <1>3, <2>1
  <2>3. c \in Nat
    BY <1>2
  <2> QED
    BY ONLY <2>2, <2>3
<1>8. DOMAIN new = 1 .. c
  BY <1>3
<1>9. \A n \in DOMAIN new : /\ new[n].at = now /\ new[n].tag \in Stored(table)
                            /\ new[n].value = table[new[n].tag]
  <2> TAKE n \in DOMAIN new
  <2>1. TagOrder[Nth(P, n)] \in Stored(table)
    BY <1>2, <1>4, <1>8
  <2> QED
    BY <1>3, <1>8, <2>1
<1>10. \A t \in Stored(table) : \E n \in DOMAIN new : new[n].tag = t
  <2> TAKE t \in Stored(table)
  <2>1. PICK i \in P : TagOrder[i] = t
    BY <1>5
  <2>2. PICK n \in 1 .. c : Nth(P, n) = i
    BY <1>2
  <2>3. new[n].tag = TagOrder[Nth(P, n)]
    BY <1>3
  <2> QED
    BY <1>8, <2>1, <2>2, <2>3
<1> QED
  BY ONLY <1>7, <1>9, <1>10, new = NewSamples(now, table) DEF Batch

\* What the change detector remembers after a batch.
LEMMA BatchIsRemembered ==
    ASSUME NEW new, NEW now, NEW table, NEW kept, Batch(new, now, table, kept),
           Remember(new)
    PROVE  /\ DOMAIN last' = DOMAIN last \cup kept
           /\ \A t \in kept : last'[t] = table[t]
           /\ \A t \in DOMAIN last \ kept : last'[t] = last[t]
<1>1. {new[n].tag : n \in DOMAIN new} = kept
  BY DEF Batch
<1>2. last' = [t \in DOMAIN last \cup kept |->
                 IF \E n \in DOMAIN new : new[n].tag = t
                 THEN new[CHOOSE n \in DOMAIN new : new[n].tag = t].value
                 ELSE last[t]]
  BY <1>1 DEF Remember
<1>3. \A t \in kept : last'[t] = table[t]
  <2> TAKE t \in kept
  <2> PICK n : n = CHOOSE k \in DOMAIN new : new[k].tag = t
    OBVIOUS
  <2>1. \E k \in DOMAIN new : new[k].tag = t
    BY DEF Batch
  <2>2. n \in DOMAIN new /\ new[n].tag = t
    BY <2>1
  <2>3. new[n].value = table[t]
    BY <2>2 DEF Batch
  <2> QED
    BY <1>2, <2>1, <2>3
<1>4. \A t \in DOMAIN last \ kept : last'[t] = last[t]
  BY <1>1, <1>2
<1> QED
  BY <1>2, <1>3, <1>4

-----------------------------------------------------------------------------
(***************************************************************************)
(* The trend: what a growing and a cut buffer shows of a tag.              *)
(***************************************************************************)

\* Samples of other tags change nothing.
LEMMA OtherSamples ==
    ASSUME NEW s \in Seq(Samples), NEW new \in Seq(Samples),
           NEW lost, NEW t, NEW v, Shows(s, DOMAIN s, lost, t, v),
           \A j \in DOMAIN new : new[j].tag # t,
           NEW all, all = s \o new
    PROVE  Shows(all, DOMAIN all, lost, t, v)
<1> PICK n : n = Len(s)
  OBVIOUS
<1> PICK m : m = Len(new)
  OBVIOUS
<1>1. /\ n \in Nat /\ m \in Nat /\ DOMAIN s = 1 .. n /\ DOMAIN new = 1 .. m
      /\ DOMAIN all = 1 .. (n + m)
      /\ \A i \in 1 .. n : all[i] = s[i]
      /\ \A j \in 1 .. m : all[n + j] = new[j]
  BY Concatenated
<1>2. \A i \in 1 .. (n + m) : all[i].tag = t => i \in 1 .. n
  <2> SUFFICES ASSUME NEW i \in 1 .. (n + m), i \notin 1 .. n PROVE all[i].tag # t
    OBVIOUS
  <2> PICK j : j = i - n
    OBVIOUS
  <2>1. j \in 1 .. m /\ i = n + j
    BY ONLY <1>1, j = i - n, i \in 1 .. (n + m), i \notin 1 .. n
  <2> QED
    BY <1>1, <2>1
<1>3. \A i \in 1 .. n : i \in 1 .. (n + m)
  BY ONLY <1>1
<1>4. ASSUME NEW i \in DOMAIN all, all[i].tag = t,
             \A j \in DOMAIN all : i < j => all[j].tag # t
      PROVE  all[i].value = v
  <2>1. i \in DOMAIN s /\ s[i].tag = t /\ all[i] = s[i]
    BY <1>1, <1>2, <1>4
  <2>2. \A j \in DOMAIN s : i < j => s[j].tag # t
    BY <1>1, <1>3, <1>4
  <2> QED
    BY <2>1, <2>2 DEF Shows
<1>5. ASSUME \A i \in DOMAIN all : all[i].tag # t PROVE lost > 0
  <2>1. \A i \in DOMAIN s : s[i].tag # t
    BY <1>1, <1>3, <1>5
  <2> QED
    BY <2>1 DEF Shows
<1> QED
  BY <1>4, <1>5 DEF Shows

\* Samples of the tag show their value.
LEMMA NewestSamples ==
    ASSUME NEW s \in Seq(Samples), NEW new \in Seq(Samples),
           NEW lost, NEW t, NEW v,
           \E j \in DOMAIN new : new[j].tag = t,
           \A j \in DOMAIN new : new[j].tag = t => new[j].value = v,
           NEW all, all = s \o new
    PROVE  Shows(all, DOMAIN all, lost, t, v)
<1> PICK n : n = Len(s)
  OBVIOUS
<1> PICK m : m = Len(new)
  OBVIOUS
<1>1. /\ n \in Nat /\ m \in Nat /\ DOMAIN s = 1 .. n /\ DOMAIN new = 1 .. m
      /\ DOMAIN all = 1 .. (n + m)
      /\ \A j \in 1 .. m : all[n + j] = new[j]
  BY Concatenated
<1>2. PICK j \in 1 .. m : new[j].tag = t
  BY <1>1
<1>3. n + j \in 1 .. (n + m) /\ all[n + j].tag = t
  <2>1. n + j \in 1 .. (n + m)
    BY ONLY <1>1, j \in 1 .. m
  <2> QED
    BY <1>1, <1>2, <2>1
<1>4. ASSUME NEW i \in DOMAIN all, all[i].tag = t,
             \A k \in DOMAIN all : i < k => all[k].tag # t
      PROVE  all[i].value = v
  <2>1. i \in 1 .. (n + m) /\ ~(i < n + j)
    BY <1>1, <1>3, <1>4
  <2> PICK k : k = i - n
    OBVIOUS
  <2>2. k \in 1 .. m /\ i = n + k
    BY ONLY <1>1, <2>1, j \in 1 .. m, k = i - n
  <2> QED
    BY <1>1, <1>4, <2>2
<1> QED
  BY <1>1, <1>3, <1>4 DEF Shows

\* Positions of the older samples keep showing what they did.
LEMMA OlderSamples ==
    ASSUME NEW s \in Seq(Samples), NEW new \in Seq(Samples),
           NEW P \in SUBSET DOMAIN s,
           NEW lost, NEW t, NEW v, Shows(s, P, lost, t, v),
           NEW all, all = s \o new
    PROVE  Shows(all, P, lost, t, v)
<1> PICK n : n = Len(s)
  OBVIOUS
<1> PICK m : m = Len(new)
  OBVIOUS
<1>1. DOMAIN s = 1 .. n /\ \A i \in 1 .. n : all[i] = s[i]
  BY Concatenated
<1>2. \A i \in P : all[i] = s[i]
  BY <1>1
<1> QED
  BY <1>2 DEF Shows

\* A buffer cut at its oldest end shows the same, or nothing.
LEMMA CutSamples ==
    ASSUME NEW all, NEW P, NEW lost \in Nat, NEW t, NEW v,
           Shows(all, P, lost, t, v), P \in SUBSET Nat,
           NEW o \in Nat, NEW r, NEW Q \in SUBSET Nat,
           \A i \in Q : i + o \in P /\ r[i] = all[i + o],
           \A p \in P : o < p => p - o \in Q,
           o = 0 => \A p \in P : p \in Q
    PROVE  Shows(r, Q, lost + o, t, v)
<1>1. ASSUME NEW i \in Q, r[i].tag = t, \A j \in Q : i < j => r[j].tag # t
      PROVE  r[i].value = v
  <2>1. i + o \in P /\ all[i + o] = r[i] /\ i \in Nat
    OBVIOUS
  <2>2. ASSUME NEW k \in P, i + o < k PROVE all[k].tag # t
    <3> PICK j : j = k - o
      OBVIOUS
    <3>0. k \in Nat
      OBVIOUS
    <3>1. o < k /\ j \in Nat /\ i < j /\ j + o = k
      BY ONLY <2>1, <2>2, <3>0, o \in Nat, j = k - o
    <3>2. j \in Q
      BY <3>1
    <3>3. r[j] = all[k]
      BY <3>1, <3>2
    <3> QED
      BY <1>1, <3>1, <3>2, <3>3
  <2>3. all[i + o].tag = t
    BY <1>1, <2>1
  <2>4. all[i + o].value = v
    BY <2>1, <2>2, <2>3 DEF Shows
  <2> QED
    BY <2>1, <2>4
<1>2. ASSUME \A i \in Q : r[i].tag # t PROVE lost + o > 0
  <2>1. CASE o = 0
    <3>1. ASSUME NEW p \in P PROVE all[p].tag # t
      <4>1. p \in Q
        BY <2>1
      <4>2. p \in Nat
        OBVIOUS
      <4>3. p + o = p
        BY ONLY <2>1, <4>2
      <4> QED
        BY <1>2, <4>1, <4>3
    <3>2. lost > 0
      BY <3>1 DEF Shows
    <3> QED
      BY <2>1, <3>2
  <2>2. CASE o # 0
    BY <2>2
  <2> QED
    BY <2>1, <2>2
<1> QED
  BY <1>1, <1>2 DEF Shows

\* r is what is left of a buffer of k samples when its o oldest are cut.
IsCut(r, all, k, o) ==
    /\ k \in Nat /\ o \in 0 .. k /\ DOMAIN all = 1 .. k
    /\ Len(r) = k - o /\ DOMAIN r = 1 .. (k - o)
    /\ \A i \in 1 .. (k - o) : r[i] = all[i + o]

\* The buffer after a batch is the old one and the batch, cut to its newest.
LEMMA BufferIsCut ==
    ASSUME samples \in Seq(Samples), dropped \in Nat,
           NEW new \in Seq(Samples), AppendSamples(new),
           NEW all, all = samples \o new
    PROVE  /\ samples' \in Seq(Samples) /\ dropped' \in Nat
           /\ \E o : dropped' = dropped + o /\ IsCut(samples', all, Len(all), o)
<1> PICK k : k = Len(all)
  OBVIOUS
<1>1. all \in Seq(Samples)
  BY ConcatProperties
<1>2. k \in Nat /\ DOMAIN all = 1 .. k
  BY <1>1, LenProperties
<1> PICK o : o = Overflow(all, Capacity)
  OBVIOUS
<1> PICK r : r = Newest(all, k - o)
  OBVIOUS
<1>3. samples' = r /\ dropped' = dropped + o
  BY DEF AppendSamples
<1>4. /\ o \in 0 .. k /\ r \in Seq(Samples)
      /\ Len(r) = k - o /\ DOMAIN r = 1 .. (k - o)
      /\ \A i \in 1 .. (k - o) : r[i] = all[i + o]
  <2>1. Capacity \in Nat
    BY HistorianAssumption
  <2> QED
    BY ONLY <1>1, <2>1, NewestLeft, o = Overflow(all, Capacity),
            r = Newest(all, k - o), k = Len(all)
<1>5. dropped' \in Nat
  <2>1. o \in Nat
    BY <1>2, <1>4
  <2> QED
    BY <1>3, <2>1
<1>6. IsCut(samples', all, k, o)
  BY <1>2, <1>3, <1>4 DEF IsCut
<1> QED
  BY <1>3, <1>4, <1>5, <1>6

\* What the whole buffer shows of a tag survives the cut.
LEMMA WholeBufferShows ==
    ASSUME samples \in Seq(Samples), dropped \in Nat,
           NEW new \in Seq(Samples), AppendSamples(new),
           NEW all, all = samples \o new, NEW t, NEW v,
           Shows(all, DOMAIN all, dropped, t, v)
    PROVE  Shows(samples', DOMAIN samples', dropped', t, v)
<1> PICK k : k = Len(all)
  OBVIOUS
<1>0. PICK o : dropped' = dropped + o /\ IsCut(samples', all, k, o)
  BY BufferIsCut
<1>1. k \in Nat /\ DOMAIN all = 1 .. k /\ o \in 0 .. k
  BY <1>0 DEF IsCut
<1>2. /\ dropped' = dropped + o
      /\ DOMAIN samples' = 1 .. (k - o)
      /\ \A i \in 1 .. (k - o) : samples'[i] = all[i + o]
  BY <1>0 DEF IsCut
<1> PICK P : P = 1 .. k
  OBVIOUS
<1> PICK Q : Q = 1 .. (k - o)
  OBVIOUS
<1> PICK r : r = samples'
  OBVIOUS
<1> PICK lost : lost = dropped
  OBVIOUS
<1>3. /\ o \in Nat /\ P \in SUBSET Nat /\ Q \in SUBSET Nat
      /\ \A i \in Q : i + o \in P
      /\ \A p \in P : o < p => p - o \in Q
      /\ o = 0 => \A p \in P : p \in Q
  BY ONLY <1>1, P = 1 .. k, Q = 1 .. (k - o)
<1>4. \A i \in Q : r[i] = all[i + o]
  BY <1>2
<1>5. Shows(all, P, lost, t, v)
  BY <1>1
<1>6. lost \in Nat
  OBVIOUS
<1>7. Shows(r, Q, lost + o, t, v)
  BY ONLY <1>3, <1>4, <1>5, <1>6, CutSamples
<1>8. samples' = r /\ DOMAIN samples' = Q /\ dropped' = lost + o
  BY <1>2
<1> QED
  BY ONLY <1>7, <1>8

\* A batch leaves the trend, and what the detector remembers, at the table.
LEMMA BatchShowsTable ==
    ASSUME TrendInv, mode # "periodic", NEW now \in Nat, NEW table \in TagTables,
           Record(now, table)
    PROVE  /\ DOMAIN last' = TrendTags
           /\ \A t \in TrendTags :
                  /\ last'[t] = table[t]
                  /\ Shows(samples', DOMAIN samples', dropped', t, table[t])
<1> PICK new : new = NewSamples(now, table)
  OBVIOUS
<1> PICK all : all = samples \o new
  OBVIOUS
<1> PICK kept : kept = Stored(table)
  OBVIOUS
<1>1. Remember(new) /\ AppendSamples(new)
  BY DEF Record
<1>2. Batch(new, now, table, kept)
  BY BatchIsStored
<1>3. /\ DOMAIN last' = DOMAIN last \cup kept
      /\ \A t \in kept : last'[t] = table[t]
      /\ \A t \in DOMAIN last \ kept : last'[t] = last[t]
  BY ONLY <1>1, <1>2, BatchIsRemembered
<1>4. \A t \in TrendTags : t \notin kept => t \in DOMAIN last /\ last[t] = table[t]
  BY DEF Stored, Unchanged
<1>5. kept \subseteq TrendTags /\ DOMAIN last \subseteq TrendTags
  BY DEF Stored, TrendInv
<1>6. \A t \in TrendTags : Shows(all, DOMAIN all, dropped, t, table[t])
  <2> TAKE t \in TrendTags
  <2>1. CASE t \in kept
    <3>1. /\ \E j \in DOMAIN new : new[j].tag = t
          /\ \A j \in DOMAIN new : new[j].tag = t => new[j].value = table[t]
      BY <1>2, <2>1 DEF Batch
    <3>2. samples \in Seq(Samples) /\ new \in Seq(Samples)
      BY <1>2 DEF TrendInv, Batch
    <3> QED
      BY ONLY <3>1, <3>2, NewestSamples, all = samples \o new
  <2>2. CASE t \notin kept
    <3>1. t \in DOMAIN last /\ last[t] = table[t]
      BY <1>4, <2>2
    <3>2. Shows(samples, DOMAIN samples, dropped, t, table[t])
      BY <3>1 DEF TrendInv
    <3>3. \A j \in DOMAIN new : new[j].tag # t
      BY <1>2, <2>2 DEF Batch
    <3>4. samples \in Seq(Samples) /\ new \in Seq(Samples)
      BY <1>2 DEF TrendInv, Batch
    <3> QED
      BY ONLY <3>2, <3>3, <3>4, OtherSamples, all = samples \o new
  <2> QED
    BY <2>1, <2>2
<1>7. \A t \in TrendTags : Shows(samples', DOMAIN samples', dropped', t, table[t])
  <2> TAKE t \in TrendTags
  <2>1. Shows(all, DOMAIN all, dropped, t, table[t])
    BY <1>6
  <2>2. samples \in Seq(Samples) /\ new \in Seq(Samples) /\ dropped \in Nat
    BY <1>2 DEF TrendInv, Batch
  <2> QED
    BY ONLY <1>1, <2>1, <2>2, WholeBufferShows, all = samples \o new
<1>8. DOMAIN last' = TrendTags
  BY <1>3, <1>4, <1>5
<1>9. \A t \in TrendTags : last'[t] = table[t]
  <2> TAKE t \in TrendTags
  <2>1. t \in kept \/ (t \in DOMAIN last \ kept /\ last[t] = table[t])
    BY <1>4
  <2> QED
    BY <1>3, <2>1
<1> QED
  BY <1>7, <1>8, <1>9

\* The types of the trend, in every mode.
LEMMA RecordTypes ==
    ASSUME samples \in Seq(Samples), dropped \in Nat,
           NEW now \in Nat, NEW table \in TagTables, Record(now, table)
    PROVE  samples' \in Seq(Samples) /\ dropped' \in Nat /\ mode' = mode
<1>1. CASE mode = "periodic" /\ ~Due(now)
  BY <1>1 DEF Record, historianVars
<1>2. CASE ~(mode = "periodic" /\ ~Due(now))
  <2> PICK new : new = NewSamples(now, table)
    OBVIOUS
  <2>1. AppendSamples(new) /\ mode' = mode
    BY <1>2 DEF Record
  <2>2. new \in Seq(Samples)
    BY BatchIsStored DEF Batch
  <2> QED
    BY <2>1, <2>2, BufferIsCut
<1> QED
  BY <1>1, <1>2

\* What a tick records, in terms of the twin's next state.
LEMMA TickRecords ==
    ASSUME ticks \in Nat, Tick
    PROVE  /\ ticks' = ticks + 1 /\ ticks' * Dt \in Nat /\ tags' \in TagTables
           /\ Record(ticks' * Dt, tags')
<1>1. ticks' = ticks + 1 /\ tags' \in TagTables /\ Record(ticks' * Dt, tags')
  BY DEF Tick
<1>2. ticks' * Dt \in Nat
  <2> PICK n : n = ticks'
    OBVIOUS
  <2> PICK d : d = Dt
    OBVIOUS
  <2>1. n \in Nat /\ d \in Nat
    BY <1>1, RewindAssumption
  <2>2. n * d \in Nat
    BY ONLY <2>1
  <2> QED
    BY <2>2
<1> QED
  BY <1>1, <1>2

\* Reading the last sample of a tag gives what the trend shows of it.
LEMMA LastShown ==
    ASSUME NEW s \in Seq(Samples), NEW t, NEW lost, NEW v,
           Shows(s, DOMAIN s, lost, t, v)
    PROVE  /\ (\E i \in DOMAIN s : s[i].tag = t) => LastValue(s, t) = v
           /\ (\A i \in DOMAIN s : s[i].tag # t) =>
                 LastValue(s, t) = None /\ lost > 0
<1> PICK I : I = {i \in 1 .. Len(s) : s[i].tag = t}
  OBVIOUS
<1> PICK n : n = SelectLastInSeq(s, LAMBDA sample : sample.tag = t)
  OBVIOUS
<1>1. n = IF I # {} THEN Max(I) ELSE 0
  BY DEF SelectLastInSeq
<1>2. LastValue(s, t) = IF n = 0 THEN None ELSE s[n].value
  BY DEF LastValue
<1>3. Len(s) \in Nat /\ DOMAIN s = 1 .. Len(s)
  BY LenProperties
<1>4. ASSUME \E i \in DOMAIN s : s[i].tag = t PROVE LastValue(s, t) = v
  <2>1. I # {}
    BY <1>3, <1>4
  <2>2. n \in I /\ \A i \in I : i <= n
    BY <1>1, <1>3, <2>1, LastPosition
  <2>3. n \in DOMAIN s /\ s[n].tag = t /\ n # 0
    BY <1>3, <2>2
  <2>4. ASSUME NEW j \in DOMAIN s, n < j PROVE s[j].tag # t
    <3>1. j \in Nat /\ n \in Nat /\ ~(j <= n)
      BY <1>3, <2>3, <2>4
    <3>2. j \notin I
      BY <2>2, <3>1
    <3> QED
      BY <1>3, <3>2
  <2>5. s[n].value = v
    BY <2>3, <2>4 DEF Shows
  <2> QED
    BY <1>2, <2>3, <2>5
<1>5. ASSUME \A i \in DOMAIN s : s[i].tag # t
      PROVE  LastValue(s, t) = None /\ lost > 0
  <2>1. I = {}
    BY <1>3, <1>5
  <2>2. lost > 0
    BY <1>5 DEF Shows
  <2> QED
    BY <1>1, <1>2, <2>1, <2>2
<1> QED
  BY <1>4, <1>5

-----------------------------------------------------------------------------
(***************************************************************************)
(* The trend through ticks, rewinds and clears.                            *)
(***************************************************************************)

LEMMA TrendInit == Init => TrendInv
<1> SUFFICES ASSUME Init PROVE TrendInv
  OBVIOUS
<1>1. /\ samples = <<>> /\ dropped = 0 /\ rewinds = 0 /\ last = <<>>
      /\ settled = FALSE
  BY DEF Init, HistorianInit
<1>2. samples \in Seq(Samples)
  BY <1>1, EmptySeq
<1>3. DOMAIN last = {}
  BY <1>1
<1> QED
  BY <1>1, <1>2, <1>3 DEF TrendInv

LEMMA TrendTick ==
    ASSUME TrendInv, ticks \in Nat, Tick
    PROVE  TrendInv'
<1> PICK now : now = ticks' * Dt
  OBVIOUS
<1> PICK table : table = tags'
  OBVIOUS
<1>1. now \in Nat /\ table \in TagTables /\ Record(now, table)
  BY TickRecords
<1>2. samples' \in Seq(Samples) /\ dropped' \in Nat /\ mode' = mode
  <2>1. samples \in Seq(Samples) /\ dropped \in Nat
    BY DEF TrendInv
  <2> QED
    BY <1>1, <2>1, RecordTypes
<1>3. rewinds' \in Nat
  BY DEF TrendInv, Tick
<1>4. ASSUME mode # "periodic"
      PROVE  /\ DOMAIN last' = TrendTags
             /\ \A t \in TrendTags :
                    /\ last'[t] = table[t]
                    /\ Shows(samples', DOMAIN samples', dropped', t, table[t])
  BY ONLY TrendInv, <1>1, <1>4, BatchShowsTable
<1>5. mode' # "periodic" =>
         /\ DOMAIN last' \subseteq TrendTags
         /\ \A t \in DOMAIN last' :
                Shows(samples', DOMAIN samples', dropped', t, last'[t])
         /\ settled' => \A t \in TrendTags : t \in DOMAIN last' /\ last'[t] = tags'[t]
  BY <1>2, <1>4
<1> QED
  BY <1>2, <1>3, <1>5 DEF TrendInv

LEMMA TrendRewind ==
    ASSUME TrendInv, NEW n, RewindTo(n)
    PROVE  TrendInv'
<1>1. UNCHANGED <<mode, samples, dropped, last>> /\ settled' = FALSE
  BY DEF RewindTo, historianVars
<1>2. rewinds' \in Nat
  BY DEF RewindTo, TrendInv
<1> QED
  BY <1>1, <1>2 DEF TrendInv

LEMMA TrendClear ==
    ASSUME TrendInv, ClearHistorian
    PROVE  TrendInv'
<1>1. samples' = <<>> /\ dropped' = 0 /\ last' = <<>> /\ settled' = FALSE
  BY DEF ClearHistorian, Clear
<1>2. samples' \in Seq(Samples)
  BY <1>1, EmptySeq
<1>3. rewinds' \in Nat
  BY DEF ClearHistorian, TrendInv
<1>4. DOMAIN last' = {}
  BY <1>1
<1> QED
  BY <1>1, <1>2, <1>3, <1>4 DEF TrendInv

LEMMA TrendStep ==
    ASSUME TrendInv, ticks \in Nat, [Next]_vars
    PROVE  TrendInv'
<1>1. CASE Tick
  BY <1>1, TrendTick
<1>2. CASE \E n \in 1 .. ticks : RewindTo(n)
  BY <1>2, TrendRewind
<1>3. CASE ClearHistorian
  BY <1>3, TrendClear
<1>4. CASE UNCHANGED vars
  BY <1>4 DEF vars, historianVars, observedVars, historyVars, TrendInv
<1> QED
  BY <1>1, <1>2, <1>3, <1>4 DEF Next

\* However often the twin was rewound or the trend cleared, and whatever the
\* buffer dropped, the newest sample of a tag is its value once a tick has ended:
\* the change detector is never left behind on a branch the twin abandoned.
THEOREM TrendStaysCurrent == Spec => []LatestIsCurrent
<1> DEFINE Inv == BranchInv /\ TrendInv
<1>1. Init => Inv
  BY BranchInit, TrendInit
<1>2. Inv /\ [Next]_vars => Inv'
  <2> SUFFICES ASSUME Inv, [Next]_vars PROVE Inv'
    OBVIOUS
  <2>1. BranchInv'
    BY BranchStep
  <2>2. TrendInv'
    <3>1. ticks \in Nat
      BY DEF BranchInv
    <3> QED
      BY <3>1, TrendStep
  <2> QED
    BY <2>1, <2>2
<1>3. Inv => LatestIsCurrent
  <2> SUFFICES ASSUME TrendInv, settled, mode = "on_change", NEW t \in TrendTags
               PROVE  \/ Latest(t) = tags[t]
                      \/ Latest(t) = None /\ dropped > 0
    BY DEF LatestIsCurrent
  <2>1. samples \in Seq(Samples) /\ Shows(samples, DOMAIN samples, dropped, t, tags[t])
    BY DEF TrendInv
  <2>2. (\E i \in DOMAIN samples : samples[i].tag = t) => LastValue(samples, t) = tags[t]
    BY ONLY <2>1, LastShown
  <2>3. (\A i \in DOMAIN samples : samples[i].tag # t) =>
           LastValue(samples, t) = None /\ dropped > 0
    BY ONLY <2>1, LastShown
  <2> QED
    BY <2>2, <2>3 DEF Latest
<1> HIDE DEF Inv
<1> QED
  BY <1>1, <1>2, <1>3, PTL DEF Spec

-----------------------------------------------------------------------------
(***************************************************************************)
(* The trend of a twin that was never rewound.                             *)
(***************************************************************************)

\* A later batch does not change what the trend shows up to a time.
LEMMA PastKept ==
    ASSUME samples \in Seq(Samples), dropped \in Nat,
           NEW new \in Seq(Samples), AppendSamples(new),
           NEW time \in Nat, \A j \in DOMAIN new : ~(new[j].at <= time),
           NEW t, NEW v, Shows(samples, UpTo(samples, time), dropped, t, v)
    PROVE  Shows(samples', UpTo(samples', time), dropped', t, v)
<1> PICK all : all = samples \o new
  OBVIOUS
<1> PICK n : n = Len(samples)
  OBVIOUS
<1> PICK m : m = Len(new)
  OBVIOUS
<1> PICK k : k = Len(all)
  OBVIOUS
<1> PICK P : P = UpTo(samples, time)
  OBVIOUS
<1> PICK Q : Q = UpTo(samples', time)
  OBVIOUS
<1> PICK r : r = samples'
  OBVIOUS
<1> PICK lost : lost = dropped
  OBVIOUS
<1>1. /\ n \in Nat /\ m \in Nat /\ k = n + m
      /\ DOMAIN samples = 1 .. n /\ DOMAIN new = 1 .. m
      /\ \A i \in 1 .. n : all[i] = samples[i]
      /\ \A j \in 1 .. m : all[n + j] = new[j]
  BY Concatenated
<1>2. PICK o : dropped' = dropped + o /\ IsCut(samples', all, k, o)
  BY BufferIsCut
<1>3. /\ o \in 0 .. k /\ DOMAIN r = 1 .. (k - o)
      /\ \A i \in 1 .. (k - o) : r[i] = all[i + o]
  BY <1>2 DEF IsCut
<1>4. /\ P = {i \in 1 .. n : samples[i].at <= time}
      /\ Q = {i \in 1 .. (k - o) : r[i].at <= time}
  BY <1>1, <1>3 DEF UpTo
<1>5. Shows(all, P, lost, t, v)
  <2>1. P \in SUBSET DOMAIN samples
    BY <1>1, <1>4
  <2>2. Shows(samples, P, lost, t, v)
    OBVIOUS
  <2> QED
    BY <2>1, <2>2, OlderSamples
<1>6. \A i \in Q : i + o \in P /\ r[i] = all[i + o]
  <2> TAKE i \in Q
  <2> PICK h : h = i + o
    OBVIOUS
  <2>1. i \in 1 .. (k - o) /\ r[i].at <= time /\ r[i] = all[h]
    BY <1>3, <1>4
  <2>2. h \in 1 .. n + m
    BY ONLY <1>1, <1>3, <2>1, h = i + o
  <2>3. CASE h \in 1 .. n
    BY <1>1, <1>4, <2>1, <2>3
  <2>4. CASE h \notin 1 .. n
    <3> PICK j : j = h - n
      OBVIOUS
    <3>1. j \in 1 .. m /\ n + j = h
      BY ONLY <1>1, <2>2, <2>4, j = h - n
    <3>2. all[h] = new[j] /\ ~(new[j].at <= time)
      BY <1>1, <3>1
    <3> QED
      BY <2>1, <3>2
  <2> QED
    BY <2>1, <2>3, <2>4
<1>7. \A p \in P : o < p => p - o \in Q
  <2> SUFFICES ASSUME NEW p \in P, o < p PROVE p - o \in Q
    OBVIOUS
  <2> PICK i : i = p - o
    OBVIOUS
  <2>1. p \in 1 .. n /\ samples[p].at <= time
    BY <1>4
  <2>2. i \in 1 .. (k - o) /\ i + o = p
    BY ONLY <1>1, <1>3, <2>1, o < p, i = p - o
  <2>3. r[i] = samples[p]
    BY <1>1, <1>3, <2>1, <2>2
  <2> QED
    BY <1>4, <2>1, <2>2, <2>3
<1>8. o = 0 => \A p \in P : p \in Q
  <2> SUFFICES ASSUME o = 0, NEW p \in P PROVE p \in Q
    OBVIOUS
  <2>1. p \in 1 .. n
    BY <1>4
  <2>2. o < p /\ p - o = p
    BY ONLY <2>1, <1>1, o = 0
  <2> QED
    BY <1>7, <2>2
<1>9. P \in SUBSET Nat /\ Q \in SUBSET Nat /\ o \in Nat /\ lost \in Nat
  BY <1>1, <1>3, <1>4
<1>10. Shows(r, Q, lost + o, t, v)
  BY ONLY <1>5, <1>6, <1>7, <1>8, <1>9, CutSamples
<1> QED
  BY <1>2, <1>10

\* The samples stay in the order of their times, none later than the batch.
LEMMA OrderKept ==
    ASSUME samples \in Seq(Samples), dropped \in Nat,
           NEW new \in Seq(Samples), AppendSamples(new),
           NEW before \in Nat, NEW now \in Nat, before <= now,
           InOrder(samples, before), \A j \in DOMAIN new : new[j].at = now
    PROVE  InOrder(samples', now)
<1> PICK all : all = samples \o new
  OBVIOUS
<1> PICK n : n = Len(samples)
  OBVIOUS
<1> PICK m : m = Len(new)
  OBVIOUS
<1> PICK k : k = Len(all)
  OBVIOUS
<1> PICK r : r = samples'
  OBVIOUS
<1>1. /\ n \in Nat /\ m \in Nat /\ k = n + m
      /\ DOMAIN samples = 1 .. n /\ DOMAIN new = 1 .. m
      /\ \A i \in 1 .. n : all[i] = samples[i]
      /\ \A j \in 1 .. m : all[n + j] = new[j]
  BY Concatenated
<1>2. PICK o : dropped' = dropped + o /\ IsCut(samples', all, k, o)
  BY BufferIsCut
<1>3. /\ o \in 0 .. k /\ DOMAIN r = 1 .. (k - o)
      /\ \A i \in 1 .. (k - o) : r[i] = all[i + o]
  BY <1>2 DEF IsCut
<1>4. \A i \in 1 .. n : all[i].at \in Nat /\ all[i].at <= now
  <2> TAKE i \in 1 .. n
  <2>1. samples[i] \in Samples /\ samples[i].at <= before
    BY <1>1, ElementOfSeq DEF InOrder
  <2> PICK a : a = samples[i].at
    OBVIOUS
  <2>2. a \in Nat /\ a <= before
    BY <2>1 DEF Samples
  <2>3. a <= now
    BY ONLY <2>2, before \in Nat, now \in Nat, before <= now
  <2> QED
    BY <1>1, <2>2, <2>3
<1>5. \A h \in 1 .. k : h \notin 1 .. n => all[h].at = now
  <2> SUFFICES ASSUME NEW h \in 1 .. k, h \notin 1 .. n PROVE all[h].at = now
    OBVIOUS
  <2> PICK j : j = h - n
    OBVIOUS
  <2>1. j \in 1 .. m /\ n + j = h
    BY ONLY <1>1, h \in 1 .. k, h \notin 1 .. n, j = h - n
  <2>2. all[h] = new[j] /\ j \in DOMAIN new
    BY <1>1, <2>1
  <2> QED
    BY <2>2
<1>6. \A h \in 1 .. k : all[h].at <= now
  BY <1>4, <1>5
<1>7. \A h, l \in 1 .. k : h <= l => all[h].at <= all[l].at
  <2> SUFFICES ASSUME NEW h \in 1 .. k, NEW l \in 1 .. k, h <= l
               PROVE  all[h].at <= all[l].at
    OBVIOUS
  <2>1. CASE l \in 1 .. n
    <3>1. h \in 1 .. n
      BY ONLY <1>1, <2>1, h \in 1 .. k, h <= l
    <3> QED
      BY <1>1, <2>1, <3>1 DEF InOrder
  <2>2. CASE l \notin 1 .. n
    BY <1>5, <1>6, <2>2
  <2> QED
    BY <2>1, <2>2
<1>8. \A i \in 1 .. (k - o) : i + o \in 1 .. k
  BY ONLY <1>1, <1>3
<1>9. \A i, j \in 1 .. (k - o) : i <= j => i + o <= j + o
  BY ONLY <1>1, <1>3
<1>10. \A i, j \in DOMAIN r : i <= j => r[i].at <= r[j].at
  <2> SUFFICES ASSUME NEW i \in DOMAIN r, NEW j \in DOMAIN r, i <= j
               PROVE  r[i].at <= r[j].at
    OBVIOUS
  <2>1. i + o \in 1 .. k /\ j + o \in 1 .. k /\ i + o <= j + o
    BY <1>3, <1>8, <1>9
  <2>2. r[i] = all[i + o] /\ r[j] = all[j + o]
    BY <1>3
  <2> QED
    BY <1>7, <2>1, <2>2
<1>11. \A i \in DOMAIN r : r[i].at <= now
  BY <1>3, <1>6, <1>8
<1> QED
  BY <1>10, <1>11 DEF InOrder

\* A read up to a time scans the samples up to that time.
LEMMA ScannedIsUpTo ==
    ASSUME samples \in Seq(Samples), NEW bound, InOrder(samples, bound),
           NEW time \in Nat, NEW r, r = Scanned(time)
    PROVE  /\ r \in Seq(Samples) /\ DOMAIN r = UpTo(samples, time)
           /\ \A i \in DOMAIN r : r[i] = samples[i]
<1> PICK s : s = samples
  OBVIOUS
<1> PICK n : n = Len(s)
  OBVIOUS
<1> PICK I : I = {i \in 1 .. n : s[i].at > time}
  OBVIOUS
<1> PICK later : later = SelectInSeq(s, LAMBDA e : e.at > time)
  OBVIOUS
<1>1. n \in Nat /\ DOMAIN s = 1 .. n /\ \A i \in 1 .. n : s[i] \in Samples
  BY LenProperties, ElementOfSeq
<1>2. \A i \in 1 .. n : s[i].at \in Nat
  BY <1>1 DEF Samples
<1>3. later = IF I # {} THEN Min(I) ELSE 0
  BY DEF SelectInSeq
<1>4. r = IF later = 0 THEN s ELSE SubSeq(s, 1, later - 1)
  BY DEF Scanned
<1>5. CASE I = {}
  <2>1. \A i \in 1 .. n : s[i].at <= time
    BY <1>2, <1>5
  <2>2. UpTo(s, time) = DOMAIN s
    BY <1>1, <2>1 DEF UpTo
  <2> QED
    BY <1>3, <1>4, <1>5, <2>2
<1>6. CASE I # {}
  <2>1. later \in I /\ \A i \in I : later <= i
    BY <1>1, <1>3, <1>6, FirstPosition
  <2>2. later \in 1 .. n /\ later # 0 /\ s[later].at > time
    BY <2>1
  <2> PICK p : p = later - 1
    OBVIOUS
  <2>3. p \in Nat /\ p <= n /\ p < later
    BY ONLY <1>1, <2>2, p = later - 1
  <2>4. \A i \in 1 .. n : i <= p <=> s[i].at <= time
    <3> TAKE i \in 1 .. n
    <3>1. ASSUME i <= p PROVE s[i].at <= time
      <4>1. ~(later <= i)
        BY ONLY <1>1, <2>2, <2>3, <3>1, i \in 1 .. n
      <4>2. i \notin I
        BY <2>1, <4>1
      <4> QED
        BY <1>2, <4>2
    <3>2. ASSUME ~(i <= p) PROVE ~(s[i].at <= time)
      <4>1. later <= i
        BY ONLY <1>1, <2>2, <2>3, <3>2, i \in 1 .. n, p = later - 1
      <4>2. s[later].at <= s[i].at
        BY <1>1, <2>2, <4>1 DEF InOrder
      <4> PICK a : a = s[i].at
        OBVIOUS
      <4> PICK b : b = s[later].at
        OBVIOUS
      <4>3. a \in Nat /\ b \in Nat /\ b <= a /\ b > time
        BY <1>2, <2>2, <4>2
      <4>4. ~(a <= time)
        BY ONLY <4>3, time \in Nat
      <4> QED
        BY <4>4
    <3> QED
      BY <3>1, <3>2
  <2>5. r = SubSeq(s, 1, p)
    BY <1>4, <2>2
  <2>6. /\ SubSeq(s, 1, p) \in Seq(Samples)
        /\ Len(SubSeq(s, 1, p)) = IF 1 <= p THEN p - 1 + 1 ELSE 0
        /\ \A i \in 1 .. p - 1 + 1 : SubSeq(s, 1, p)[i] = s[1 + i - 1]
    <3>1. \A i \in 1 .. p : s[i] \in Samples
      <4>1. \A i \in 1 .. p : i \in 1 .. n
        BY ONLY <1>1, <2>3
      <4> QED
        BY <1>1, <4>1
    <3> QED
      BY ONLY <2>3, <3>1, SubSeqProperties
  <2> PICK l : l = Len(r)
    OBVIOUS
  <2>7. l = p
    <3>1. l = IF 1 <= p THEN p - 1 + 1 ELSE 0
      BY <2>5, <2>6
    <3> QED
      BY ONLY <2>3, <3>1
  <2>8. r \in Seq(Samples) /\ DOMAIN r = 1 .. p
    BY <2>5, <2>6, <2>7, LenProperties
  <2>9. \A i \in 1 .. p : r[i] = s[i]
    <3> TAKE i \in 1 .. p
    <3>1. i \in 1 .. p - 1 + 1 /\ 1 + i - 1 = i
      BY ONLY <2>3, i \in 1 .. p
    <3> QED
      BY <2>5, <2>6, <3>1
  <2>10. UpTo(s, time) = 1 .. p
    <3>1. \A i : i \in 1 .. p <=> i \in 1 .. n /\ i <= p
      BY ONLY <1>1, <2>3
    <3> QED
      BY <1>1, <2>4, <3>1 DEF UpTo
  <2> QED
    BY <2>8, <2>9, <2>10
<1> QED
  BY <1>5, <1>6

LEMMA HistoryInit == Init => HistoryInv
<1> SUFFICES ASSUME Init PROVE HistoryInv
  OBVIOUS
<1>1. samples = <<>> /\ ticks = 0 /\ since = 0
  BY DEF Init, HistorianInit
<1>2. DOMAIN samples = {}
  BY <1>1
<1> QED
  BY <1>1, <1>2 DEF HistoryInv, InOrder

\* Later ticks are of later times, and none of them is off by less than Dt.
LEMMA TimesOfTicks ==
    ASSUME NEW j \in Nat, NEW k \in Nat, j < k
    PROVE  /\ j * Dt \in Nat /\ k * Dt \in Nat
           /\ j * Dt <= k * Dt /\ ~(k * Dt <= j * Dt)
<1> PICK d : d = Dt
  OBVIOUS
<1>1. d \in Nat \ {0}
  BY RewindAssumption
<1>2. j * d \in Nat /\ k * d \in Nat
  BY ONLY <1>1, j \in Nat, k \in Nat
<1>3. j * d < k * d
  BY ONLY <1>1, j \in Nat, k \in Nat, j < k
<1> QED
  BY <1>2, <1>3

LEMMA HistoryTick ==
    ASSUME BranchInv, TrendInv, HistoryInv, Tick
    PROVE  HistoryInv'
<1> SUFFICES ASSUME rewinds = 0, mode # "periodic"
             PROVE  HistoryInv'
  <2>1. samples \in Seq(Samples) /\ dropped \in Nat /\ ticks \in Nat
    BY DEF BranchInv, TrendInv
  <2>2. mode' = mode
    BY <2>1, TickRecords, RecordTypes
  <2>3. rewinds' = rewinds
    BY DEF Tick
  <2> QED
    BY <2>2, <2>3 DEF HistoryInv
<1> PICK t : t = ticks
  OBVIOUS
<1> PICK now : now = ticks' * Dt
  OBVIOUS
<1> PICK table : table = tags'
  OBVIOUS
<1> PICK new : new = NewSamples(now, table)
  OBVIOUS
<1> PICK first : first = since
  OBVIOUS
<1>1. /\ t \in Nat /\ branch \in Seq(TagTables) /\ Len(branch) = t
      /\ samples \in Seq(Samples) /\ dropped \in Nat
  BY DEF BranchInv, TrendInv
<1>2. /\ ticks' = t + 1 /\ now \in Nat /\ table \in TagTables
      /\ Record(now, table)
  BY <1>1, TickRecords
<1>3. AppendSamples(new)
  BY <1>2 DEF Record
<1>4. new \in Seq(Samples) /\ \A j \in DOMAIN new : new[j].at = now
  BY <1>2, BatchIsStored DEF Batch
<1>5. /\ since' = first /\ branch' = Append(branch, table)
      /\ first \in 0 .. t
  BY DEF Tick, HistoryInv
<1>6. since' \in 0 .. ticks'
  <2>1. first \in 0 .. t + 1
    BY ONLY <1>1, <1>5
  <2> QED
    BY <1>2, <1>5, <2>1
<1>7. InOrder(samples', now)
  <2> PICK before : before = t * Dt
    OBVIOUS
  <2>1. InOrder(samples, before)
    BY DEF HistoryInv
  <2>2. before \in Nat /\ before <= now
    <3>1. t + 1 \in Nat /\ t < t + 1
      BY ONLY <1>1
    <3> QED
      BY <1>1, <1>2, <3>1, TimesOfTicks
  <2> QED
    BY ONLY <1>1, <1>2, <1>3, <1>4, <2>1, <2>2, OrderKept
<1>8. ASSUME NEW k \in first + 1 .. t, NEW tag \in TrendTags
      PROVE  Shows(samples', UpTo(samples', k * Dt), dropped', tag, branch'[k][tag])
  <2> PICK time : time = k * Dt
    OBVIOUS
  <2> PICK v : v = branch[k][tag]
    OBVIOUS
  <2>1. k \in Nat /\ k \in 1 .. t /\ k < t + 1 /\ t + 1 \in Nat
    BY ONLY <1>1, <1>5, k \in first + 1 .. t
  <2>2. time \in Nat /\ ~(now <= time)
    BY <1>2, <2>1, TimesOfTicks
  <2>3. \A j \in DOMAIN new : ~(new[j].at <= time)
    BY <1>4, <2>2
  <2>4. Shows(samples, UpTo(samples, time), dropped, tag, v)
    BY DEF HistoryInv
  <2>5. Shows(samples', UpTo(samples', time), dropped', tag, v)
    BY ONLY <1>1, <1>3, <1>4, <2>2, <2>3, <2>4, PastKept
  <2>6. branch'[k] = branch[k]
    BY <1>1, <1>2, <1>5, <2>1, AppendProperties
  <2> QED
    BY <2>5, <2>6
<1>9. ASSUME NEW tag \in TrendTags
      PROVE  Shows(samples', UpTo(samples', now), dropped', tag, table[tag])
  <2>1. Shows(samples', DOMAIN samples', dropped', tag, table[tag])
    BY <1>2, BatchShowsTable
  <2>2. UpTo(samples', now) = DOMAIN samples'
    BY <1>7 DEF UpTo, InOrder
  <2> QED
    BY <2>1, <2>2
<1>10. ASSUME NEW k \in since' + 1 .. ticks', NEW tag \in TrendTags
       PROVE  Shows(samples', UpTo(samples', k * Dt), dropped', tag, branch'[k][tag])
  <2>1. k \in first + 1 .. t + 1
    BY <1>2, <1>5
  <2>2. k \in first + 1 .. t \/ k = t + 1
    BY ONLY <1>1, <1>5, <2>1
  <2>3. CASE k \in first + 1 .. t
    BY <1>8, <2>3
  <2>4. CASE k = t + 1
    <3>1. branch'[k] = table
      BY <1>1, <1>2, <1>5, <2>4, AppendProperties
    <3>2. k * Dt = now
      BY <1>2, <2>4
    <3> QED
      BY <1>9, <3>1, <3>2
  <2> QED
    BY <2>2, <2>3, <2>4
<1>11. InOrder(samples', ticks' * Dt)
  BY <1>7
<1> QED
  BY <1>6, <1>10, <1>11 DEF HistoryInv

LEMMA HistoryClear ==
    ASSUME BranchInv, HistoryInv, ClearHistorian
    PROVE  HistoryInv'
<1> PICK t : t = ticks
  OBVIOUS
<1>1. samples' = <<>> /\ since' = t /\ ticks' = t
  BY DEF ClearHistorian, Clear, observedVars
<1>2. t \in Nat
  BY DEF BranchInv
<1>3. DOMAIN samples' = {}
  BY <1>1
<1>4. t \in 0 .. t /\ (t + 1) .. t = {}
  BY ONLY <1>2
<1> QED
  BY <1>1, <1>3, <1>4 DEF HistoryInv, InOrder

LEMMA HistoryStep ==
    ASSUME BranchInv, TrendInv, HistoryInv, [Next]_vars
    PROVE  HistoryInv'
<1>1. CASE Tick
  BY <1>1, HistoryTick
<1>2. CASE \E n \in 1 .. ticks : RewindTo(n)
  <2>1. rewinds' = rewinds + 1
    BY <1>2 DEF RewindTo
  <2>2. rewinds' # 0
    BY <2>1 DEF TrendInv
  <2> QED
    BY <2>2 DEF HistoryInv
<1>3. CASE ClearHistorian
  BY <1>3, HistoryClear
<1>4. CASE UNCHANGED vars
  BY <1>4 DEF vars, historianVars, observedVars, historyVars, HistoryInv,
             InOrder, UpTo, Shows
<1> QED
  BY <1>1, <1>2, <1>3, <1>4 DEF Next

\* Until a rewind, the tag table reconstructed for a past tick of the branch is
\* the one the tick had, and it is whole unless samples were dropped or cleared,
\* whatever the twin computed and however long it ran.
THEOREM BranchesAreReconstructed == Spec => []ReconstructionIsTrue
<1> DEFINE Inv == BranchInv /\ TrendInv /\ HistoryInv
<1>1. Init => Inv
  BY BranchInit, TrendInit, HistoryInit
<1>2. Inv /\ [Next]_vars => Inv'
  <2> SUFFICES ASSUME Inv, [Next]_vars PROVE Inv'
    OBVIOUS
  <2>1. BranchInv'
    BY BranchStep
  <2>2. TrendInv'
    <3>1. ticks \in Nat
      BY DEF BranchInv
    <3> QED
      BY <3>1, TrendStep
  <2>3. HistoryInv'
    BY HistoryStep
  <2> QED
    BY <2>1, <2>2, <2>3
<1>3. Inv => ReconstructionIsTrue
  <2> SUFFICES ASSUME Inv, rewinds = 0, mode # "periodic", NEW k \in since + 1 .. ticks
               PROVE  LET table == SnapshotAt(k * Dt)
                      IN  /\ \A t \in DOMAIN table : table[t] = branch[k][t]
                          /\ dropped = 0 => DOMAIN table = TrendTags
    BY DEF ReconstructionIsTrue
  <2> PICK time : time = k * Dt
    OBVIOUS
  <2> PICK r : r = Scanned(time)
    OBVIOUS
  <2> PICK table : table = SnapshotAt(time)
    OBVIOUS
  <2>1. /\ samples \in Seq(Samples) /\ InOrder(samples, ticks * Dt)
        /\ \A t \in TrendTags :
               Shows(samples, UpTo(samples, time), dropped, t, branch[k][t])
    BY DEF TrendInv, HistoryInv
  <2>2. time \in Nat
    <3> PICK d : d = Dt
      OBVIOUS
    <3>1. d \in Nat /\ since \in 0 .. ticks /\ ticks \in Nat
      BY RewindAssumption DEF HistoryInv, BranchInv
    <3>2. k \in Nat
      BY <3>1
    <3>3. k * d \in Nat
      BY ONLY <3>1, <3>2
    <3> QED
      BY <3>3
  <2>3. /\ r \in Seq(Samples) /\ DOMAIN r = UpTo(samples, time)
        /\ \A i \in DOMAIN r : r[i] = samples[i]
    BY ONLY <2>1, <2>2, ScannedIsUpTo, r = Scanned(time)
  <2>4. \A t \in TrendTags : Shows(r, DOMAIN r, dropped, t, branch[k][t])
    BY <2>1, <2>3 DEF Shows
  <2>5. \A t \in TrendTags :
           /\ (\E i \in DOMAIN r : r[i].tag = t) => LastValue(r, t) = branch[k][t]
           /\ (\A i \in DOMAIN r : r[i].tag # t) => dropped > 0
    BY ONLY <2>3, <2>4, LastShown
  <2> PICK seen : seen = {s.tag : s \in ToSet(r)}
    OBVIOUS
  <2>6. table = [t \in seen |-> LastValue(r, t)]
    BY DEF SnapshotAt, ValueAt
  <2>7. \A t : t \in seen <=> \E i \in DOMAIN r : r[i].tag = t
    BY DEF ToSet
  <2>8. seen \subseteq TrendTags
    <3>1. \A i \in DOMAIN r : r[i] \in Samples
      BY <2>3, ElementOfSeq, LenProperties
    <3>2. \A i \in DOMAIN r : r[i].tag \in TrendTags
      BY <3>1 DEF Samples
    <3> QED
      BY <2>7, <3>2
  <2>9. \A t \in DOMAIN table : table[t] = branch[k][t]
    BY <2>5, <2>6, <2>7, <2>8
  <2>10. dropped = 0 => DOMAIN table = TrendTags
    <3> SUFFICES ASSUME dropped = 0 PROVE TrendTags \subseteq seen
      BY <2>6, <2>8
    <3>1. ~(dropped > 0)
      OBVIOUS
    <3> QED
      BY <2>5, <2>7, <3>1
  <2> QED
    BY <2>9, <2>10
<1> HIDE DEF Inv
<1> QED
  BY <1>1, <1>2, <1>3, PTL DEF Spec

-----------------------------------------------------------------------------
(***************************************************************************)
(* The rate of a periodic trend.                                           *)
(***************************************************************************)

\* DueTime and PeriodicKeepsRate, of any batches up to any tick.
DueAt(list, k) == list[1] * Dt + (k - 1) * Interval
OnRate(list, t) ==
    /\ \A k \in DOMAIN list : list[k] * Dt \in DueAt(list, k) .. DueAt(list, k) + Dt - 1
    /\ t * Dt < DueAt(list, Len(list) + 1)

LEMMA DueAtFacts ==
    ASSUME NEW list \in Seq(Nat), list # <<>>, NEW k \in Nat \ {0}
    PROVE  /\ DueAt(list, k) \in Nat
           /\ DueAt(list, k + 1) = DueAt(list, k) + Interval
           /\ DueAt(list, 1) = list[1] * Dt
<1> PICK b : b = list[1]
  OBVIOUS
<1> PICK d : d = Dt
  OBVIOUS
<1> PICK v : v = Interval
  OBVIOUS
<1>1. b \in Nat
  <2> PICK n : n = Len(list)
    OBVIOUS
  <2>1. n \in Nat /\ n # 0
    BY LenProperties, EmptySeq
  <2>2. 1 \in 1 .. n
    BY ONLY <2>1
  <2> QED
    BY <2>2, ElementOfSeq
<1>2. d \in Nat /\ v \in Nat
  BY RewindAssumption, HistorianAssumption
<1>3. b * d + (k - 1) * v \in Nat
  <2>1. b * d \in Nat
    BY ONLY <1>1, <1>2
  <2>2. k - 1 \in Nat
    OBVIOUS
  <2>3. (k - 1) * v \in Nat
    BY ONLY <1>2, <2>2
  <2> QED
    BY ONLY <2>1, <2>3
<1>4. b * d + (k + 1 - 1) * v = b * d + (k - 1) * v + v
  BY ONLY <1>1, <1>2, k \in Nat \ {0}
<1>5. b * d + (1 - 1) * v = b * d
  BY ONLY <1>1, <1>2
<1> QED
  BY <1>3, <1>4, <1>5 DEF DueAt

\* The first batch starts the rate.
LEMMA FirstBatch ==
    ASSUME NEW t \in Nat
    PROVE  OnRate(<<t>>, t)
<1> PICK list : list = <<t>>
  OBVIOUS
<1> PICK d : d = Dt
  OBVIOUS
<1> PICK v : v = Interval
  OBVIOUS
<1>1. list \in Seq(Nat) /\ list # <<>> /\ Len(list) = 1 /\ DOMAIN list = {1} /\ list[1] = t
  OBVIOUS
<1>2. d \in Nat \ {0} /\ v \in Nat \ {0}
  BY RewindAssumption, HistorianAssumption
<1>3. DueAt(list, 1) = t * d /\ DueAt(list, 1 + 1) = t * d + v
  <2>1. 1 \in Nat \ {0}
    OBVIOUS
  <2> QED
    BY <1>1, <2>1, DueAtFacts
<1> PICK x : x = t * d
  OBVIOUS
<1>4. x \in Nat
  BY ONLY <1>2, t \in Nat, x = t * d
<1>5. x \in x .. x + d - 1 /\ x < x + v
  BY ONLY <1>2, <1>4
<1> QED
  BY <1>1, <1>3, <1>5 DEF OnRate

\* A batch that is due is stored by the first tick at which it is, and the next
\* one is due after that tick.
LEMMA NextBatch ==
    ASSUME NEW list \in Seq(Nat), list # <<>>, NEW t \in Nat, Interval >= Dt,
           OnRate(list, t), DueAt(list, Len(list) + 1) <= (t + 1) * Dt
    PROVE  OnRate(Append(list, t + 1), t + 1)
<1> PICK n : n = Len(list)
  OBVIOUS
<1> PICK more : more = Append(list, t + 1)
  OBVIOUS
<1> PICK d : d = Dt
  OBVIOUS
<1> PICK v : v = Interval
  OBVIOUS
<1> PICK due : due = DueAt(list, n + 1)
  OBVIOUS
<1> PICK x : x = t * d
  OBVIOUS
<1>1. n \in Nat \ {0} /\ DOMAIN list = 1 .. n
  BY LenProperties, EmptySeq
<1>2. d \in Nat \ {0} /\ v \in Nat \ {0} /\ v >= d
  BY RewindAssumption, HistorianAssumption
<1>3. /\ more \in Seq(Nat) /\ Len(more) = n + 1
      /\ \A k \in 1 .. n : more[k] = list[k]
      /\ more[n + 1] = t + 1
  <2>1. t + 1 \in Nat
    OBVIOUS
  <2> QED
    BY <2>1, AppendProperties
<1>4. DOMAIN more = 1 .. n + 1
  BY <1>3, LenProperties
<1>5. more[1] = list[1]
  <2>1. 1 \in 1 .. n
    BY <1>1
  <2> QED
    BY <1>3, <2>1
<1>6. \A k : DueAt(more, k) = DueAt(list, k)
  BY <1>5 DEF DueAt
<1>7. due \in Nat /\ DueAt(list, n + 1 + 1) = due + v
  <2>1. n + 1 \in Nat \ {0}
    BY <1>1
  <2> QED
    BY <2>1, DueAtFacts
<1>8. x \in Nat /\ (t + 1) * d = x + d
  BY ONLY <1>2, t \in Nat, x = t * d
<1>9. x < due /\ due <= x + d
  BY <1>8 DEF OnRate
<1>10. x + d \in due .. due + d - 1 /\ x + d < due + v
  BY ONLY <1>2, <1>7, <1>8, <1>9
<1>11. \A k \in DOMAIN more :
          more[k] * Dt \in DueAt(more, k) .. DueAt(more, k) + Dt - 1
  <2> TAKE k \in DOMAIN more
  <2>1. k \in 1 .. n \/ k = n + 1
    BY ONLY <1>1, <1>4, k \in DOMAIN more
  <2>2. CASE k \in 1 .. n
    BY <1>1, <1>3, <1>6, <2>2 DEF OnRate
  <2>3. CASE k = n + 1
    <3>1. more[k] * Dt = x + d
      BY <1>3, <1>8, <2>3
    <3>2. DueAt(more, k) = due
      BY <1>6, <2>3
    <3> QED
      BY <1>10, <3>1, <3>2
  <2> QED
    BY <2>1, <2>2, <2>3
<1>12. (t + 1) * Dt < DueAt(more, Len(more) + 1)
  <2>1. DueAt(more, Len(more) + 1) = due + v
    BY <1>3, <1>6, <1>7
  <2> QED
    BY <1>8, <1>10, <2>1
<1> QED
  BY <1>11, <1>12 DEF OnRate

\* A due periodic trend stores a batch, unless it follows no tag.
LEMMA BatchIsCounted ==
    ASSUME samples \in Seq(Samples), dropped \in Nat, mode = "periodic",
           NEW now \in Nat, NEW table \in TagTables, Due(now), Record(now, table)
    PROVE  dropped' + Len(samples') > dropped + Len(samples) <=> TrendTags # {}
<1> PICK new : new = NewSamples(now, table)
  OBVIOUS
<1> PICK all : all = samples \o new
  OBVIOUS
<1> PICK n : n = Len(samples)
  OBVIOUS
<1> PICK m : m = Len(new)
  OBVIOUS
<1> PICK k : k = Len(all)
  OBVIOUS
<1> PICK l : l = Len(samples')
  OBVIOUS
<1> PICK lost : lost = dropped
  OBVIOUS
<1>1. Stored(table) = TrendTags
  BY DEF Stored
<1>2. Batch(new, now, table, TrendTags)
  BY <1>1, BatchIsStored
<1>3. new \in Seq(Samples) /\ AppendSamples(new)
  BY <1>2 DEF Batch, Record
<1>4. /\ n \in Nat /\ m \in Nat /\ DOMAIN new = 1 .. m /\ k = n + m
  BY <1>3, Concatenated
<1>5. PICK o : dropped' = dropped + o /\ IsCut(samples', all, k, o)
  BY <1>3, BufferIsCut
<1>6. o \in 0 .. k /\ l = k - o
  BY <1>5 DEF IsCut
<1>7. m > 0 <=> TrendTags # {}
  <2>1. ASSUME NEW t \in TrendTags PROVE m > 0
    <3>1. PICK j \in 1 .. m : TRUE
      BY <1>2, <1>4 DEF Batch
    <3> QED
      BY ONLY <1>4, <3>1
  <2>2. ASSUME m > 0 PROVE TrendTags # {}
    <3>1. 1 \in 1 .. m
      BY ONLY <1>4, <2>2
    <3> QED
      BY <1>2, <1>4, <3>1 DEF Batch
  <2> QED
    BY <2>1, <2>2
<1>8. lost + o + l > lost + n <=> m > 0
  <2>1. lost \in Nat
    OBVIOUS
  <2> QED
    BY ONLY <1>4, <1>6, <2>1
<1> QED
  BY <1>5, <1>7, <1>8

LEMMA PeriodicInit == Init => PeriodicInv
<1> SUFFICES ASSUME Init PROVE PeriodicInv
  OBVIOUS
<1>1. nextPeriodic = None /\ batches = <<>>
  BY DEF Init, HistorianInit
<1>2. batches \in Seq(Nat)
  BY <1>1, EmptySeq
<1> QED
  BY <1>1, <1>2 DEF PeriodicInv, PeriodicKeepsRate

\* The property, of the batches there are.
LEMMA RateIs ==
    ASSUME batches # <<>>, mode = "periodic", rewinds = 0
    PROVE  PeriodicKeepsRate <=> (Interval >= Dt => OnRate(batches, ticks))
BY DEF PeriodicKeepsRate, OnRate, DueTime, DueAt

LEMMA PeriodicTick ==
    ASSUME BranchInv, TrendInv, PeriodicInv, Tick
    PROVE  PeriodicInv'
<1> PICK t : t = ticks
  OBVIOUS
<1> PICK now : now = ticks' * Dt
  OBVIOUS
<1> PICK table : table = tags'
  OBVIOUS
<1> PICK list : list = batches
  OBVIOUS
<1> PICK n : n = Len(list)
  OBVIOUS
<1>1. samples \in Seq(Samples) /\ dropped \in Nat /\ t \in Nat
  BY DEF BranchInv, TrendInv
<1>2. /\ ticks' = t + 1 /\ now \in Nat /\ now = (t + 1) * Dt /\ table \in TagTables
      /\ Record(now, table)
  BY <1>1, TickRecords
<1>3. mode' = mode /\ rewinds' = rewinds
  BY <1>1, <1>2, RecordTypes DEF Tick
<1> SUFFICES ASSUME mode = "periodic", rewinds = 0 PROVE PeriodicInv'
  BY <1>3 DEF PeriodicInv
<1>4. /\ nextPeriodic \in Nat \cup {None} /\ list \in Seq(Nat)
      /\ nextPeriodic = None => list = <<>>
      /\ nextPeriodic # None /\ TrendTags # {} => list # <<>>
      /\ list # <<>> => TrendTags # {} /\ nextPeriodic = DueAt(list, n + 1)
      /\ list # <<>> /\ Interval >= Dt => OnRate(list, t)
  BY RateIs DEF PeriodicInv, DueTime, DueAt
<1>5. None \notin Nat /\ Interval \in Nat
  BY HistorianAssumption
<1>6. CASE ~Due(now)
  <2>1. /\ nextPeriodic' = nextPeriodic /\ samples' = samples /\ dropped' = dropped
    BY <1>2, <1>6 DEF Record, historianVars
  <2>2. batches' = list
    <3>1. ~(dropped + Len(samples) > dropped + Len(samples))
      <4> PICK l : l = Len(samples)
        OBVIOUS
      <4> PICK lost : lost = dropped
        OBVIOUS
      <4>1. l \in Nat /\ lost \in Nat
        BY <1>1, LenProperties
      <4>2. ~(lost + l > lost + l)
        BY ONLY <4>1
      <4> QED
        BY <4>2
    <3> QED
      BY <2>1, <3>1 DEF Tick
  <2>3. nextPeriodic \in Nat /\ now < nextPeriodic
    <3>1. nextPeriodic # None /\ ~(nextPeriodic <= now)
      BY <1>6 DEF Due
    <3>2. nextPeriodic \in Nat
      BY <1>4, <3>1
    <3> PICK p : p = nextPeriodic
      OBVIOUS
    <3>3. now < p
      BY <1>2, <3>1, <3>2
    <3> QED
      BY <3>2, <3>3
  <2>4. batches' # <<>> /\ Interval >= Dt => OnRate(batches', ticks')
    BY <1>2, <1>4, <2>2, <2>3 DEF OnRate
  <2>5. PeriodicKeepsRate'
    BY <2>4 DEF PeriodicKeepsRate, OnRate, DueTime, DueAt
  <2>6. batches' # <<>> => nextPeriodic' = DueTime(Len(batches) + 1)'
    BY <1>4, <2>1, <2>2 DEF DueTime, DueAt
  <2> QED
    BY <1>4, <2>1, <2>2, <2>5, <2>6 DEF PeriodicInv
<1>7. CASE Due(now)
  <2>1. dropped' + Len(samples') > dropped + Len(samples) <=> TrendTags # {}
    BY <1>1, <1>2, <1>7, BatchIsCounted
  <2>2. nextPeriodic' = (IF nextPeriodic = None THEN now ELSE nextPeriodic) + Interval
    BY <1>2, <1>7 DEF Record
  <2>3. nextPeriodic' \in Nat /\ nextPeriodic' # None
    <3> PICK p : p = IF nextPeriodic = None THEN now ELSE nextPeriodic
      OBVIOUS
    <3>1. p \in Nat
      BY <1>2, <1>4
    <3>2. p + Interval \in Nat
      BY ONLY <1>5, <3>1
    <3> QED
      BY <1>5, <2>2, <3>2
  <2>4. CASE TrendTags = {}
    <3>1. batches' = <<>>
      BY <1>4, <2>1, <2>4 DEF Tick
    <3>2. batches' \in Seq(Nat)
      BY <3>1, EmptySeq
    <3> QED
      BY <2>3, <2>4, <3>1, <3>2 DEF PeriodicInv, PeriodicKeepsRate
  <2>5. CASE TrendTags # {}
    <3> PICK more : more = Append(list, t + 1)
      OBVIOUS
    <3>1. batches' = more
      BY <1>2, <2>1, <2>5 DEF Tick
    <3>2. more \in Seq(Nat) /\ more # <<>> /\ Len(more) = n + 1
      <4>1. t + 1 \in Nat
        BY <1>1
      <4>2. Append(list, t + 1) \in Seq(Nat) /\ Len(Append(list, t + 1)) = Len(list) + 1
        BY <1>4, <4>1, AppendProperties
      <4>3. n \in Nat
        BY <1>4, LenProperties
      <4> QED
        BY <4>2, <4>3, EmptySeq
    <3>3. /\ nextPeriodic' = DueAt(more, n + 1 + 1)
          /\ Interval >= Dt => OnRate(more, t + 1)
      <4>1. CASE nextPeriodic = None
        <5>1. list = <<>> /\ n = 0 /\ more = <<t + 1>>
          BY <1>4, <4>1
        <5>2. t + 1 \in Nat
          BY <1>1
        <5>3. OnRate(more, t + 1)
          BY <5>1, <5>2, FirstBatch
        <5>4. DueAt(more, 1 + 1) = now + Interval
          <6>1. 1 \in Nat \ {0} /\ more[1] = t + 1
            BY <5>1
          <6> QED
            BY <1>2, <3>2, <6>1, DueAtFacts
        <5> QED
          BY <2>2, <4>1, <5>1, <5>3, <5>4
      <4>2. CASE nextPeriodic # None
        <5>1. list # <<>> /\ nextPeriodic = DueAt(list, n + 1)
          BY <1>4, <2>5, <4>2
        <5>2. DueAt(list, n + 1) <= (t + 1) * Dt
          BY <1>2, <1>7, <4>2, <5>1 DEF Due
        <5>3. Interval >= Dt => OnRate(more, t + 1)
          BY <1>1, <1>4, <5>1, <5>2, NextBatch
        <5>4. DueAt(more, n + 1 + 1) = nextPeriodic + Interval
          <6>1. n \in Nat /\ n # 0
            BY <1>4, <5>1, LenProperties, EmptySeq
          <6>2. n + 1 \in Nat \ {0} /\ 1 \in 1 .. n
            BY ONLY <6>1
          <6>3. more[1] = list[1]
            BY <1>1, <1>4, <6>2, AppendProperties
          <6>4. DueAt(list, n + 1 + 1) = DueAt(list, n + 1) + Interval
            BY <1>4, <5>1, <6>2, DueAtFacts
          <6>5. DueAt(more, n + 1 + 1) = DueAt(list, n + 1 + 1)
            BY <6>3 DEF DueAt
          <6> QED
            BY <5>1, <6>4, <6>5
        <5> QED
          BY <2>2, <4>2, <5>3, <5>4
      <4> QED
        BY <4>1, <4>2
    <3>4. PeriodicKeepsRate'
      BY <1>2, <3>1, <3>3 DEF PeriodicKeepsRate, OnRate, DueTime, DueAt
    <3>5. nextPeriodic' = DueTime(Len(batches) + 1)'
      BY <3>1, <3>2, <3>3 DEF DueTime, DueAt
    <3> QED
      BY <2>3, <2>5, <3>1, <3>2, <3>4, <3>5 DEF PeriodicInv
  <2> QED
    BY <2>4, <2>5
<1> QED
  BY <1>6, <1>7

LEMMA PeriodicStep ==
    ASSUME BranchInv, TrendInv, PeriodicInv, [Next]_vars
    PROVE  PeriodicInv'
<1>1. CASE Tick
  BY <1>1, PeriodicTick
<1>2. CASE \E n \in 1 .. ticks : RewindTo(n)
  <2>1. rewinds' = rewinds + 1
    BY <1>2 DEF RewindTo
  <2>2. rewinds' # 0
    BY <2>1 DEF TrendInv
  <2> QED
    BY <2>2 DEF PeriodicInv
<1>3. CASE ClearHistorian
  <2>1. nextPeriodic' = None /\ batches' = <<>>
    BY <1>3 DEF ClearHistorian, Clear
  <2>2. batches' \in Seq(Nat)
    BY <2>1, EmptySeq
  <2> QED
    BY <2>1, <2>2 DEF PeriodicInv, PeriodicKeepsRate
<1>4. CASE UNCHANGED vars
  BY <1>4 DEF vars, historianVars, observedVars, historyVars, PeriodicInv,
             PeriodicKeepsRate, DueTime
<1> QED
  BY <1>1, <1>2, <1>3, <1>4 DEF Next

\* Until a rewind, a periodic trend keeps its rate for good: no batch is early or
\* a whole tick late, none is skipped, and the lateness of one never adds to the
\* next, whether or not the interval is a multiple of the tick.
THEOREM PeriodicKeepsItsRate == Spec => []PeriodicKeepsRate
<1> DEFINE Inv == BranchInv /\ TrendInv /\ PeriodicInv
<1>1. Init => Inv
  BY BranchInit, TrendInit, PeriodicInit
<1>2. Inv /\ [Next]_vars => Inv'
  <2> SUFFICES ASSUME Inv, [Next]_vars PROVE Inv'
    OBVIOUS
  <2>1. BranchInv'
    BY BranchStep
  <2>2. TrendInv'
    <3>1. ticks \in Nat
      BY DEF BranchInv
    <3> QED
      BY <3>1, TrendStep
  <2>3. PeriodicInv'
    BY PeriodicStep
  <2> QED
    BY <2>1, <2>2, <2>3
<1>3. Inv => PeriodicKeepsRate
  BY DEF PeriodicInv, PeriodicKeepsRate
<1> HIDE DEF Inv
<1> QED
  BY <1>1, <1>2, <1>3, PTL DEF Spec

-----------------------------------------------------------------------------
(***************************************************************************)
(* Types, and the bounds of the buffer and of the recorder's list.         *)
(***************************************************************************)

\* A sequence cut to its newest elements holds no more than it may.
LEMMA CutIsBounded ==
    ASSUME NEW S, NEW s \in Seq(S), NEW keep \in Nat,
           NEW r, r = Newest(s, Len(s) - Overflow(s, keep))
    PROVE  r \in Seq(S) /\ Len(r) <= keep
<1> PICK n : n = Len(s)
  OBVIOUS
<1> PICK o : o = Overflow(s, keep)
  OBVIOUS
<1> PICK l : l = Len(r)
  OBVIOUS
<1>1. n \in Nat /\ o = IF n > keep THEN n - keep ELSE 0
  BY LenProperties DEF Overflow
<1>2. r \in Seq(S) /\ l = n - o
  <2>1. r = Newest(s, n - o)
    OBVIOUS
  <2>2. r \in Seq(S) /\ Len(r) = n - o
    BY ONLY <2>1, NewestLeft, s \in Seq(S), keep \in Nat,
            o = Overflow(s, keep), n = Len(s)
  <2> QED
    BY <2>2
<1>3. l <= keep
  BY ONLY <1>1, <1>2, keep \in Nat
<1> QED
  BY <1>2, <1>3

LEMMA RecordKeepsTypes ==
    ASSUME HistorianTypeOK, NEW now \in Nat, NEW table \in TagTables,
           Record(now, table)
    PROVE  HistorianTypeOK'
<1>1. samples \in Seq(Samples) /\ dropped \in Nat
  BY DEF HistorianTypeOK, Samples
<1>2. samples' \in Seq(Samples) /\ dropped' \in Nat /\ mode' = mode
  BY <1>1, RecordTypes
<1>3. CASE mode = "periodic" /\ ~Due(now)
  BY <1>3 DEF Record, historianVars, HistorianTypeOK
<1>4. CASE ~(mode = "periodic" /\ ~Due(now))
  <2> PICK new : new = NewSamples(now, table)
    OBVIOUS
  <2> PICK kept : kept = Stored(table)
    OBVIOUS
  <2>1. /\ Remember(new) /\ AppendSamples(new)
        /\ nextPeriodic' =
              IF mode # "periodic" THEN nextPeriodic
              ELSE (IF nextPeriodic = None THEN now ELSE nextPeriodic) + Interval
    BY <1>4 DEF Record
  <2>2. Batch(new, now, table, kept)
    BY BatchIsStored
  <2>3. Len(samples') <= Capacity
    <3> PICK all : all = samples \o new
      OBVIOUS
    <3>1. all \in Seq(Samples)
      BY <1>1, <2>2, ConcatProperties DEF Batch
    <3>2. samples' = Newest(all, Len(all) - Overflow(all, Capacity))
      BY <2>1 DEF AppendSamples
    <3>3. Capacity \in Nat
      BY HistorianAssumption
    <3> QED
      BY <3>1, <3>2, <3>3, CutIsBounded
  <2>4. /\ DOMAIN last' = DOMAIN last \cup kept
        /\ \A t \in kept : last'[t] = table[t]
        /\ \A t \in DOMAIN last \ kept : last'[t] = last[t]
    BY ONLY <2>1, <2>2, BatchIsRemembered
  <2>5. kept \subseteq TrendTags /\ \A t \in kept : table[t] \in TagValues
    <3>1. TrendTags \subseteq ToSet(TagOrder)
      BY HistorianAssumption
    <3> QED
      BY <3>1 DEF Stored, TagTables
  <2>6. /\ DOMAIN last' \subseteq TrendTags
        /\ \A t \in DOMAIN last' : last'[t] \in TagValues
    <3>1. DOMAIN last \subseteq TrendTags /\ \A t \in DOMAIN last : last[t] \in TagValues
      BY DEF HistorianTypeOK
    <3> QED
      BY <2>4, <2>5, <3>1
  <2>7. nextPeriodic' \in Nat \cup {None}
    <3>1. nextPeriodic \in Nat \cup {None} /\ Interval \in Nat
      BY HistorianAssumption DEF HistorianTypeOK
    <3> PICK p : p = nextPeriodic
      OBVIOUS
    <3> PICK v : v = Interval
      OBVIOUS
    <3>2. CASE mode # "periodic"
      BY <2>1, <3>1, <3>2
    <3>3. CASE mode = "periodic"
      <4>1. nextPeriodic' = (IF p = None THEN now ELSE p) + v
        BY <2>1, <3>3
      <4>2. now + v \in Nat /\ (p \in Nat => p + v \in Nat)
        BY <3>1
      <4> QED
        BY <3>1, <4>1, <4>2
    <3> QED
      BY <3>2, <3>3
  <2>8. mode' \in Modes
    BY <1>2 DEF HistorianTypeOK
  <2>9. samples' \in Seq([at : Nat, tag : TrendTags, value : TagValues])
    BY <1>2 DEF Samples
  <2> QED
    BY <1>2, <2>3, <2>6, <2>7, <2>8, <2>9 DEF HistorianTypeOK
<1> QED
  BY <1>3, <1>4

LEMMA TypeInit == Init => TypeOK
<1> SUFFICES ASSUME Init PROVE TypeOK
  OBVIOUS
<1>1. /\ mode \in Modes /\ samples = <<>> /\ dropped = 0 /\ last = <<>>
      /\ nextPeriodic = None
  BY DEF Init, HistorianInit
<1>2. /\ ticks = 0 /\ tags \in TagTables /\ snapshots = <<>> /\ branch = <<>>
      /\ settled = FALSE /\ rewinds = 0 /\ since = 0 /\ batches = <<>>
  BY DEF Init
<1>3. HistorianTypeOK
  <2>1. DOMAIN last = {}
    BY <1>1
  <2>2. /\ samples \in Seq([at : Nat, tag : TrendTags, value : TagValues])
        /\ Len(samples) = 0
    BY <1>1, EmptySeq
  <2>3. 0 <= Capacity
    BY HistorianAssumption
  <2> QED
    BY <1>1, <2>1, <2>2, <2>3 DEF HistorianTypeOK
<1>4. /\ snapshots \in Seq([ticks : Nat, tags : TagTables]) /\ Len(snapshots) = 0
      /\ branch \in Seq(TagTables) /\ batches \in Seq(Nat)
  BY <1>2, EmptySeq
<1>5. 0 \in 0 .. MaxTicks /\ 0 \in 0 .. MaxRewinds /\ 0 <= Keep
  BY RewindAssumption
<1> QED
  BY <1>2, <1>3, <1>4, <1>5 DEF TypeOK

LEMMA TypeTick ==
    ASSUME TypeOK, Tick
    PROVE  TypeOK'
<1> PICK t : t = ticks
  OBVIOUS
<1> PICK now : now = ticks' * Dt
  OBVIOUS
<1> PICK table : table = tags'
  OBVIOUS
<1>1. t \in Nat /\ t < MaxTicks /\ MaxTicks \in Nat
  BY RewindAssumption DEF TypeOK, Tick
<1>2. /\ ticks' = t + 1 /\ now \in Nat /\ table \in TagTables
      /\ Record(now, table)
  BY <1>1, TickRecords
<1>3. HistorianTypeOK'
  BY <1>2, RecordKeepsTypes DEF TypeOK
<1>4. ticks' \in 0 .. MaxTicks /\ t + 1 \in Nat
  <2>1. t + 1 \in 0 .. MaxTicks /\ t + 1 \in Nat
    BY ONLY <1>1
  <2> QED
    BY <1>2, <2>1
<1>5. snapshots' \in Seq([ticks : Nat, tags : TagTables]) /\ Len(snapshots') <= Keep
  <2> PICK e : e = [ticks |-> t + 1, tags |-> table]
    OBVIOUS
  <2> PICK S : S = [ticks : Nat, tags : TagTables]
    OBVIOUS
  <2> PICK all : all = Append(snapshots, e)
    OBVIOUS
  <2>1. snapshots \in Seq(S) /\ Len(snapshots) <= Keep /\ e \in S /\ Keep \in Nat
    BY <1>2, <1>4, RewindAssumption DEF TypeOK
  <2>2. all \in Seq(S)
    BY <2>1, AppendProperties
  <2>3. \/ snapshots' = snapshots
        \/ snapshots' = Newest(all, Len(all) - Overflow(all, Keep))
    BY <1>2 DEF Tick, MaybeCapture
  <2>4. CASE snapshots' = snapshots
    BY <2>1, <2>4
  <2>5. CASE snapshots' = Newest(all, Len(all) - Overflow(all, Keep))
    BY <2>1, <2>2, <2>5, CutIsBounded
  <2> QED
    BY <2>3, <2>4, <2>5
<1>6. branch' \in Seq(TagTables)
  <2>1. branch \in Seq(TagTables) /\ branch' = Append(branch, table)
    BY DEF TypeOK, Tick
  <2> QED
    BY <1>2, <2>1, AppendProperties
<1>7. batches' \in Seq(Nat)
  <2>1. batches \in Seq(Nat) /\ (batches' = Append(batches, t + 1) \/ batches' = batches)
    BY <1>2 DEF TypeOK, Tick
  <2> QED
    BY <1>4, <2>1, AppendProperties
<1>8. /\ tags' \in TagTables /\ settled' \in BOOLEAN
      /\ rewinds' \in 0 .. MaxRewinds /\ since' \in 0 .. MaxTicks
  BY <1>2 DEF TypeOK, Tick
<1> QED
  BY <1>3, <1>4, <1>5, <1>6, <1>7, <1>8 DEF TypeOK

LEMMA TypeRewind ==
    ASSUME TypeOK, BranchInv, NEW n \in 1 .. ticks, RewindTo(n)
    PROVE  TypeOK'
<1> PICK i : i = At(n)
  OBVIOUS
<1> PICK e : e = snapshots[i]
  OBVIOUS
<1> PICK t : t = ticks
  OBVIOUS
<1>1. t \in Nat /\ t <= MaxTicks /\ MaxTicks \in Nat /\ n \in 1 .. t
  BY RewindAssumption DEF TypeOK
<1>2. /\ i # 0 /\ ticks' = e.ticks /\ tags' = e.tags
      /\ branch' = SubSeq(branch, 1, ticks')
      /\ settled' = FALSE /\ rewinds' = rewinds + 1 /\ since' = ticks'
      /\ batches' = <<>> /\ snapshots' = snapshots
      /\ UNCHANGED historianVars
  BY DEF RewindTo
<1>3. snapshots \in Seq(Captures)
  BY DEF BranchInv
<1>4. i \in DOMAIN snapshots /\ e.ticks <= n
  <2>1. n \in Nat
    BY <1>1
  <2> QED
    BY <1>2, <1>3, <2>1, AtFinds DEF IsAt
<1>5. e \in Captures /\ e.ticks \in Nat \ {0}
  BY <1>3, <1>4, CaptureTicks
<1> PICK k : k = e.ticks
  OBVIOUS
<1>6. k \in 0 .. MaxTicks
  BY ONLY <1>1, <1>4, <1>5, k = e.ticks
<1>7. rewinds' \in 0 .. MaxRewinds
  <2> PICK w : w = rewinds
    OBVIOUS
  <2>1. w \in Nat /\ w < MaxRewinds /\ MaxRewinds \in Nat
    BY RewindAssumption DEF TypeOK, RewindTo
  <2>2. w + 1 \in 0 .. MaxRewinds
    BY ONLY <2>1
  <2> QED
    BY <1>2, <2>2
<1>8. branch' \in Seq(TagTables)
  BY BranchRewind DEF BranchInv
<1>9. tags' \in TagTables
  BY <1>2, <1>5 DEF Captures
<1>10. batches' \in Seq(Nat)
  BY <1>2, EmptySeq
<1>11. HistorianTypeOK'
  BY <1>2 DEF TypeOK, HistorianTypeOK, historianVars
<1>12. /\ snapshots' \in Seq([ticks : Nat, tags : TagTables])
       /\ Len(snapshots') <= Keep
  BY <1>2 DEF TypeOK
<1> QED
  BY <1>2, <1>6, <1>7, <1>8, <1>9, <1>10, <1>11, <1>12 DEF TypeOK

LEMMA TypeClear ==
    ASSUME TypeOK, ClearHistorian
    PROVE  TypeOK'
<1>1. /\ samples' = <<>> /\ dropped' = 0 /\ last' = <<>> /\ nextPeriodic' = None
      /\ mode' = mode /\ settled' = FALSE /\ since' = ticks /\ batches' = <<>>
      /\ UNCHANGED <<ticks, tags, snapshots, branch, rewinds>>
  BY DEF ClearHistorian, Clear, observedVars
<1>2. HistorianTypeOK'
  <2>1. DOMAIN last' = {}
    BY <1>1
  <2>2. /\ samples' \in Seq([at : Nat, tag : TrendTags, value : TagValues])
        /\ Len(samples') = 0
    BY <1>1, EmptySeq
  <2>3. 0 <= Capacity
    BY HistorianAssumption
  <2>4. mode' \in Modes
    BY <1>1 DEF TypeOK, HistorianTypeOK
  <2> QED
    BY <1>1, <2>1, <2>2, <2>3, <2>4 DEF HistorianTypeOK
<1>3. batches' \in Seq(Nat)
  BY <1>1, EmptySeq
<1> QED
  BY <1>1, <1>2, <1>3 DEF TypeOK

\* The trend store never holds more than its capacity and the recorder never more
\* captures than it keeps, and everything both hold is of its type.
THEOREM StoresStayBounded == Spec => []TypeOK
<1> DEFINE Inv == BranchInv /\ TypeOK
<1>1. Init => Inv
  BY BranchInit, TypeInit
<1>2. Inv /\ [Next]_vars => Inv'
  <2> SUFFICES ASSUME Inv, [Next]_vars PROVE Inv'
    OBVIOUS
  <2>1. BranchInv'
    BY BranchStep
  <2>2. TypeOK'
    <3>1. CASE Tick
      BY <3>1, TypeTick
    <3>2. CASE \E n \in 1 .. ticks : RewindTo(n)
      BY <3>2, TypeRewind
    <3>3. CASE ClearHistorian
      BY <3>3, TypeClear
    <3>4. CASE UNCHANGED vars
      BY <3>4 DEF vars, historianVars, observedVars, historyVars, TypeOK,
                 HistorianTypeOK
    <3> QED
      BY <3>1, <3>2, <3>3, <3>4 DEF Next
  <2> QED
    BY <2>1, <2>2
<1>3. Inv => TypeOK
  OBVIOUS
<1> HIDE DEF Inv
<1> QED
  BY <1>1, <1>2, <1>3, PTL DEF Spec
=============================================================================
