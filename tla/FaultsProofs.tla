---------------------------- MODULE FaultsProofs -----------------------------
(***************************************************************************)
(* The fault list, for every plan of faults, any signals and plant values, *)
(* and runs, snapshots and rewinds of any length.                          *)
(***************************************************************************)
EXTENDS Faults, SequenceTheorems, FiniteSetTheorems, WellFoundedInduction, TLAPS

\* A list of faults is a sequence of whatever its entries are.
LEMMA ListIsSequence ==
    ASSUME NEW p \in Plans, NEW list, NEW active, Agree(p, list, active)
    PROVE  /\ Len(p) \in Nat /\ DOMAIN p = 1 .. Len(p)
           /\ \A i \in DOMAIN p : p[i].amount \in Int
           /\ list \in Seq({list[i] : i \in DOMAIN list})
           /\ Len(list) \in 0 .. Len(p) /\ DOMAIN list = 1 .. Len(list)
           /\ DOMAIN list \subseteq DOMAIN p
<1> PICK S : S = [kind : Kinds, signal : Signals, amount : Int]
  OBVIOUS
<1>1. p \in Seq(S)
  BY FaultsAssumption
<1>2. Len(p) \in Nat /\ DOMAIN p = 1 .. Len(p)
  BY <1>1, LenProperties
<1>3. \A i \in DOMAIN p : p[i].amount \in Int
  <2>1. \A i \in DOMAIN p : p[i] \in S
    BY <1>1, <1>2, ElementOfSeq
  <2> QED
    BY <2>1
<1>4. PICK n \in 0 .. Len(p) : DOMAIN list = 1 .. n
  BY DEF Agree
<1>5. n \in Nat /\ n <= Len(p)
  BY <1>2
<1>6. list \in [1 .. n -> {list[i] : i \in DOMAIN list}]
  BY <1>4 DEF Agree
<1>7. list \in Seq({list[i] : i \in DOMAIN list})
  BY <1>5, <1>6, SeqDef
<1>8. Len(list) = n
  BY <1>4, <1>5, <1>7, LenProperties
<1> QED
  BY <1>2, <1>3, <1>4, <1>5, <1>7, <1>8

\* A step of a fault moves a drift that is active and nothing else's bias.
LEMMA StepOfFault ==
    ASSUME NEW p, NEW f, NEW v, f = [k \in Fields |-> f[k]]
    PROVE  /\ Stepped(p, f, v) = [k \in Fields |-> Stepped(p, f, v)[k]]
           /\ Stepped(p, f, v).bias =
                 IF p.kind = "drift" /\ f.active THEN f.bias + p.amount ELSE f.bias
<1>1. DOMAIN f = Fields
  OBVIOUS
<1> QED
  BY <1>1 DEF Stepped, Fields

\* One tick more adds the amount once more.
LEMMA OneTickMore ==
    ASSUME NEW a \in Int, NEW t \in Nat
    PROVE  a * t + a = a * (t + 1) /\ a * 0 = 0
  BY SMTT(30)

\* A tick adds to a drift what it adds to its ticks.
LEMMA TickAgrees ==
    ASSUME NEW p \in Plans, NEW list, NEW active, Agree(p, list, active),
           NEW value, NEW next, NEW nextActive,
           next = [i \in DOMAIN list |-> Stepped(p[i], list[i], value[i])],
           nextActive = [i \in DOMAIN p |->
                            IF i \in DOMAIN list /\ list[i].active
                            THEN active[i] + 1 ELSE active[i]]
    PROVE  Agree(p, next, nextActive)
<1>1. /\ DOMAIN list \subseteq DOMAIN p /\ DOMAIN next = DOMAIN list
      /\ \A i \in DOMAIN p : p[i].amount \in Int
  BY ListIsSequence
<1>2. \A i \in DOMAIN p : active[i] \in Nat
  BY DEF Agree
<1>3. nextActive \in [DOMAIN p -> Nat] /\ \A i \in DOMAIN p \ DOMAIN list : nextActive[i] = 0
  BY <1>2 DEF Agree
<1>4. ASSUME NEW i \in DOMAIN list
      PROVE  /\ next[i] = [k \in Fields |-> next[i][k]]
             /\ p[i].kind = "drift" => next[i].bias = p[i].amount * nextActive[i]
  <2>1. /\ list[i] = [k \in Fields |-> list[i][k]]
        /\ next[i] = Stepped(p[i], list[i], value[i])
    BY DEF Agree
  <2>2. /\ next[i] = [k \in Fields |-> next[i][k]]
        /\ next[i].bias = IF p[i].kind = "drift" /\ list[i].active
                          THEN list[i].bias + p[i].amount ELSE list[i].bias
    BY <2>1, StepOfFault
  <2>3. ASSUME p[i].kind = "drift"
        PROVE  next[i].bias = p[i].amount * nextActive[i]
    <3>1. list[i].bias = p[i].amount * active[i] /\ i \in DOMAIN p
      BY <1>1, <2>3 DEF Agree
    <3>2. p[i].amount * active[i] + p[i].amount = p[i].amount * (active[i] + 1)
      BY <1>1, <1>2, <3>1, OneTickMore
    <3> QED
      BY <2>2, <2>3, <3>1, <3>2
  <2> QED
    BY <2>2, <2>3
<1>5. /\ \E n \in 0 .. Len(p) : DOMAIN next = 1 .. n
      /\ next = [i \in DOMAIN next |-> next[i]]
  BY <1>1 DEF Agree
<1> QED
  BY <1>1, <1>3, <1>4, <1>5 DEF Agree

\* A new fault has no ticks and no bias.
LEMMA AttachAgrees ==
    ASSUME NEW p \in Plans, NEW list, NEW active, Agree(p, list, active),
           Len(list) < Len(p), NEW next, next = Append(list, NewFault)
    PROVE  Agree(p, next, active)
<1> PICK n : n = Len(list)
  OBVIOUS
<1> PICK S : S = {list[i] : i \in DOMAIN list} \cup {NewFault}
  OBVIOUS
<1>1. /\ n \in Nat /\ n + 1 \in 0 .. Len(p) /\ n + 1 \in DOMAIN p
      /\ DOMAIN list = 1 .. n /\ list \in Seq(S)
      /\ \A i \in DOMAIN p : p[i].amount \in Int
  <2>1. list \in Seq({list[i] : i \in DOMAIN list})
    BY ListIsSequence
  <2>2. list \in Seq(S)
    BY <2>1, SeqMonotonic
  <2>3. /\ n \in 0 .. Len(p) /\ DOMAIN list = 1 .. n
        /\ Len(p) \in Nat /\ DOMAIN p = 1 .. Len(p)
        /\ \A i \in DOMAIN p : p[i].amount \in Int
    BY ListIsSequence
  <2>4. n \in Nat /\ n + 1 \in 0 .. Len(p) /\ n + 1 \in 1 .. Len(p)
    BY <2>3
  <2> QED
    BY <2>2, <2>3, <2>4
<1>2. /\ next \in Seq(S) /\ Len(next) = n + 1
      /\ \A i \in 1 .. n : next[i] = list[i]
      /\ next[n + 1] = NewFault
  BY <1>1, AppendProperties
<1>3. DOMAIN next = 1 .. n + 1 /\ next = [i \in DOMAIN next |-> next[i]]
  BY <1>2, LenProperties
<1>4. 1 .. n + 1 = (1 .. n) \cup {n + 1} /\ n + 1 \notin 1 .. n
  BY <1>1
<1>5. NewFault = [k \in Fields |-> NewFault[k]] /\ NewFault.bias = 0
  BY DEF NewFault, Fields
<1>6. active[n + 1] = 0 /\ p[n + 1].amount * 0 = 0
  BY <1>1, <1>4, OneTickMore DEF Agree
<1>7. \A i \in DOMAIN next :
         /\ next[i] = [k \in Fields |-> next[i][k]]
         /\ p[i].kind = "drift" => next[i].bias = p[i].amount * active[i]
  BY <1>1, <1>2, <1>3, <1>4, <1>5, <1>6 DEF Agree
<1>8. active \in [DOMAIN p -> Nat] /\ \A i \in DOMAIN p \ DOMAIN next : active[i] = 0
  BY <1>1, <1>3, <1>4 DEF Agree
<1>9. \E m \in 0 .. Len(p) : DOMAIN next = 1 .. m
  BY <1>1, <1>3
<1> QED
  BY <1>3, <1>7, <1>8, <1>9 DEF Agree

\* The fault removed takes its ticks with it.
LEMMA RemoveAgrees ==
    ASSUME NEW p \in Plans, NEW list, NEW active, Agree(p, list, active),
           list # <<>>, NEW next, next = SubSeq(list, 1, Len(list) - 1),
           NEW nextActive, nextActive = [active EXCEPT ![Len(list)] = 0]
    PROVE  Agree(p, next, nextActive)
<1> PICK n : n = Len(list)
  OBVIOUS
<1> PICK S : S = {list[i] : i \in DOMAIN list}
  OBVIOUS
<1>1. /\ n \in Nat \ {0} /\ n - 1 \in 0 .. Len(p) /\ n \in DOMAIN p
      /\ DOMAIN list = 1 .. n /\ list \in Seq(S)
  <2>1. /\ list \in Seq(S) /\ n \in 0 .. Len(p) /\ DOMAIN list = 1 .. n
        /\ DOMAIN p = 1 .. Len(p) /\ Len(p) \in Nat
    BY ListIsSequence
  <2>2. n # 0
    BY <2>1, EmptySeq
  <2> QED
    BY <2>1, <2>2
<1>2. next = [i \in 1 .. (n - 1) |-> list[i]]
  BY <1>1, SubSeqProperties
<1>3. 1 .. n = (1 .. (n - 1)) \cup {n} /\ n \notin 1 .. (n - 1)
  BY <1>1
<1>4. /\ nextActive \in [DOMAIN p -> Nat] /\ nextActive[n] = 0
      /\ \A i \in DOMAIN p : i # n => nextActive[i] = active[i]
  BY <1>1 DEF Agree
<1>5. \A i \in DOMAIN next :
         /\ next[i] = [k \in Fields |-> next[i][k]]
         /\ p[i].kind = "drift" => next[i].bias = p[i].amount * nextActive[i]
  <2> SUFFICES ASSUME NEW i \in 1 .. (n - 1)
               PROVE  /\ list[i] = [k \in Fields |-> list[i][k]]
                      /\ p[i].kind = "drift" =>
                            list[i].bias = p[i].amount * nextActive[i]
    BY <1>2
  <2>1. i \in DOMAIN list /\ i \in DOMAIN p /\ nextActive[i] = active[i]
    BY <1>1, <1>3, <1>4, ListIsSequence
  <2> QED
    BY <2>1 DEF Agree
<1>6. \A i \in DOMAIN p \ DOMAIN next : nextActive[i] = 0
  BY <1>1, <1>2, <1>3, <1>4 DEF Agree
<1>7. \E m \in 0 .. Len(p) : DOMAIN next = 1 .. m
  BY <1>1, <1>2
<1> QED
  BY <1>2, <1>4, <1>5, <1>6, <1>7 DEF Agree

\* Switching a fault, or restoring its entry, leaves its bias alone.
LEMMA FlagAgrees ==
    ASSUME NEW p \in Plans, NEW list, NEW active, Agree(p, list, active),
           NEW next, DOMAIN next = DOMAIN list, next = [i \in DOMAIN next |-> next[i]],
           \A i \in DOMAIN next : /\ next[i] = [k \in Fields |-> next[i][k]]
                                  /\ next[i].bias = list[i].bias
    PROVE  Agree(p, next, active)
  BY DEF Agree

-----------------------------------------------------------------------------
\* The list at hand and the captured one agree with their ticks after every
\* step that changes either.
LEMMA DriftInvariant == Spec => []DriftInv
<1>1. Init => DriftInv
  <2> SUFFICES ASSUME Init PROVE DriftInv
    OBVIOUS
  <2>1. plan \in Plans /\ faults = <<>> /\ saved = None
        /\ activeTicks = [i \in DOMAIN plan |-> 0]
    BY DEF Init
  <2>2. Len(plan) \in Nat
    BY <2>1, FaultsAssumption, LenProperties
  <2>3. DOMAIN faults = 1 .. 0 /\ faults = [i \in DOMAIN faults |-> faults[i]]
    BY <2>1
  <2>4. Agree(plan, faults, activeTicks)
    BY <2>1, <2>2, <2>3 DEF Agree
  <2> QED
    BY <2>1, <2>4 DEF DriftInv
<1>2. DriftInv /\ [Next]_vars => DriftInv'
  <2> SUFFICES ASSUME DriftInv, [Next]_vars PROVE DriftInv'
    OBVIOUS
  <2>0. /\ plan \in Plans /\ Agree(plan, faults, activeTicks) /\ plan' = plan
        /\ saved # None => Agree(plan, saved.branch.faults, saved.history.activeTicks)
    BY DEF DriftInv, Next, vars
  <2>1. ASSUME NEW w \in [Signals -> PlantValues], Tick(w) PROVE DriftInv'
    <3> PICK value : value = [i \in DOMAIN faults |-> BusUnder(w)[i - 1][plan[i].signal]]
      OBVIOUS
    <3>1. faults' = [i \in DOMAIN faults |-> Stepped(plan[i], faults[i], value[i])]
      BY <2>1 DEF Tick
    <3>2. activeTicks' = [i \in DOMAIN plan |->
                             IF i \in DOMAIN faults /\ faults[i].active
                             THEN activeTicks[i] + 1 ELSE activeTicks[i]]
      BY <2>1 DEF Tick
    <3> PICK next : next = faults'
      OBVIOUS
    <3> PICK nextActive : nextActive = activeTicks'
      OBVIOUS
    <3>3. Agree(plan, next, nextActive)
      BY <2>0, <3>1, <3>2, TickAgrees
    <3> QED
      BY <2>0, <2>1, <3>3 DEF Tick, DriftInv
  <2>2. ASSUME NEW w \in [Signals -> PlantValues], TickRaises(w) PROVE DriftInv'
    BY <2>0, <2>2 DEF TickRaises, DriftInv
  <2>3. CASE Attach
    <3>1. Agree(plan, faults', activeTicks')
      BY <2>0, <2>3, AttachAgrees DEF Attach
    <3> QED
      BY <2>0, <2>3, <3>1 DEF Attach, DriftInv
  <2>4. CASE Remove
    <3>1. Agree(plan, faults', activeTicks')
      BY <2>0, <2>4, RemoveAgrees DEF Remove
    <3> QED
      BY <2>0, <2>4, <3>1 DEF Remove, DriftInv
  <2>5. ASSUME NEW i \in DOMAIN faults, Switch(i) PROVE DriftInv'
    <3>1. /\ DOMAIN faults' = DOMAIN faults
          /\ faults' = [j \in DOMAIN faults' |-> faults'[j]]
      BY <2>5 DEF Switch
    <3>2. ASSUME NEW j \in DOMAIN faults
          PROVE  /\ faults'[j] = [k \in Fields |-> faults'[j][k]]
                 /\ faults'[j].bias = faults[j].bias
      <4>1. faults[j] = [k \in Fields |-> faults[j][k]]
        BY <2>0 DEF Agree
      <4>2. faults'[j] = IF j = i THEN [faults[j] EXCEPT !.active = ~@] ELSE faults[j]
        BY <2>5 DEF Switch
      <4> QED
        BY <4>1, <4>2 DEF Fields
    <3>3. Agree(plan, faults', activeTicks)
      BY <2>0, <3>1, <3>2, FlagAgrees
    <3> QED
      BY <2>0, <2>5, <3>3 DEF Switch, DriftInv
  <2>6. CASE SwitchDropout
    BY <2>0, <2>6 DEF SwitchDropout, branch, history, DriftInv
  <2>7. CASE Capture
    <3>1. /\ saved'.branch.faults = faults /\ saved'.history.activeTicks = activeTicks
          /\ UNCHANGED <<faults, activeTicks>>
      BY <2>7 DEF Capture, branch, history
    <3> QED
      BY <2>0, <3>1 DEF DriftInv
  <2>8. CASE Restore
    <3> PICK list : list = saved.branch.faults
      OBVIOUS
    <3> PICK active : active = saved.history.activeTicks
      OBVIOUS
    <3>1. /\ Agree(plan, list, active)
          /\ faults' = RestoredSequence(list)
          /\ activeTicks' = saved.history.activeTicks /\ saved' = saved
      BY <2>0, <2>8 DEF Restore
    <3> PICK next : next = faults'
      OBVIOUS
    <3>2. /\ DOMAIN next = DOMAIN list
          /\ next = [j \in DOMAIN next |-> next[j]]
      BY <3>1 DEF RestoredSequence
    <3>3. ASSUME NEW j \in DOMAIN list
          PROVE  /\ next[j] = [k \in Fields |-> next[j][k]]
                 /\ next[j].bias = list[j].bias
      <4>1. list[j] = [k \in Fields |-> list[j][k]]
        BY <3>1 DEF Agree
      <4>2. \/ next[j] = [list[j] EXCEPT !.live = FALSE]
            \/ next[j] = [list[j] EXCEPT !.live = faults[j].live]
        BY <3>1 DEF RestoredSequence
      <4>3. CASE next[j] = [list[j] EXCEPT !.live = FALSE]
        BY <4>1, <4>3 DEF Fields
      <4>4. CASE next[j] = [list[j] EXCEPT !.live = faults[j].live]
        BY <4>1, <4>4 DEF Fields
      <4> QED
        BY <4>2, <4>3, <4>4
    <3>4. Agree(plan, next, active)
      <4>1. \A j \in DOMAIN next : /\ next[j] = [k \in Fields |-> next[j][k]]
                                   /\ next[j].bias = list[j].bias
        BY <3>2, <3>3
      <4>2. plan \in Plans /\ Agree(plan, list, active)
        BY <2>0, <3>1
      <4> QED
        BY ONLY <3>2, <4>1, <4>2, FlagAgrees
    <3>5. Agree(plan', faults', activeTicks')
      BY <2>0, <3>1, <3>4
    <3>6. Agree(plan', saved'.branch.faults, saved'.history.activeTicks)
      BY <2>0, <3>1
    <3> QED
      BY <2>0, <3>5, <3>6 DEF DriftInv
  <2>9. CASE UNCHANGED vars
    BY <2>0, <2>9 DEF vars, branch, history, DriftInv
  <2> QED
    BY <2>1, <2>2, <2>3, <2>4, <2>5, <2>6, <2>7, <2>8, <2>9 DEF Next
<1> QED
  BY <1>1, <1>2, PTL DEF Spec

\* A drift's bias is its rate times the ticks it has been active on this branch:
\* whatever is attached, removed and switched around it, through dropouts,
\* captures and any number of rewinds (DriftFault.step, SnapshotRecorder).
THEOREM DriftsKeepTheirTime == Spec => []DriftIsItsActiveTime
<1>1. DriftInv => DriftIsItsActiveTime
  BY DEF DriftInv, Agree, DriftIsItsActiveTime
<1> QED
  BY <1>1, DriftInvariant, PTL

-----------------------------------------------------------------------------
\* A nonempty set of numbers has a least one.
LEMMA LeastNumber ==
    ASSUME NEW T \in SUBSET Nat, T # {}
    PROVE  \E x \in T : \A y \in T : x <= y
<1> DEFINE R == {pair \in Nat \X Nat : pair[1] < pair[2]}
<1>1. IsWellFoundedOn(R, Nat)
  BY NatLessThanWellFounded DEF OpToRel
<1>2. PICK x \in T : \A y \in T : ~(<<y, x>> \in R)
  <2> HIDE DEF R
  <2> QED
    BY <1>1, WFMin
<1>3. \A y \in T : ~(y < x)
  <2> SUFFICES ASSUME NEW y \in T PROVE <<y, x>> \in R <=> y < x
    BY <1>2
  <2> QED
    OBVIOUS
<1> QED
  BY <1>3

\* So what holds of 0 and passes from each number to the next holds of all.
LEMMA InductionUpTo ==
    ASSUME NEW n \in Nat, NEW T, 0 \in T,
           \A k \in 0 .. n : k < n /\ k \in T => k + 1 \in T
    PROVE  \A k \in 0 .. n : k \in T
<1> DEFINE Missed == {k \in 0 .. n : k \notin T}
<1> SUFFICES ASSUME Missed # {} PROVE FALSE
  OBVIOUS
<1>1. PICK x \in Missed : \A y \in Missed : x <= y
  <2>1. Missed \in SUBSET Nat
    OBVIOUS
  <2> HIDE DEF Missed
  <2> QED
    BY <2>1, LeastNumber
<1>2. x \in 0 .. n /\ x # 0 /\ x \notin T
  OBVIOUS
<1>3. x - 1 \in 0 .. n /\ x - 1 < n /\ x - 1 < x
  BY <1>2
<1>4. x - 1 \in T
  BY <1>1, <1>3
<1>5. (x - 1) + 1 = x
  BY <1>2
<1> QED
  BY <1>2, <1>3, <1>4, <1>5

\* A chain of values, each of which a step makes from the one before.
StepsIn(n, V, step) == step \in [1 .. n -> [V -> V]]
IsChain(n, V, first, step, f) ==
    /\ f \in [0 .. n -> V]
    /\ f[0] = first
    /\ \A i \in 1 .. n : f[i] = step[i][f[i - 1]]

\* Any n steps have their chain.
LEMMA ChainExists ==
    ASSUME NEW n \in Nat, NEW V, NEW first \in V, NEW step, StepsIn(n, V, step)
    PROVE  \E f : IsChain(n, V, first, step, f)
<1> DEFINE T == {k \in 0 .. n : \E f \in [0 .. k -> V] :
              f[0] = first /\ \A i \in 1 .. k : f[i] = step[i][f[i - 1]]}
<1>1. 0 \in T
  <2> PICK f : f = [i \in 0 .. 0 |-> first]
    OBVIOUS
  <2>1. f \in [0 .. 0 -> V] /\ f[0] = first /\ 0 \in 0 .. n
    OBVIOUS
  <2>2. \A i \in 1 .. 0 : f[i] = step[i][f[i - 1]]
    OBVIOUS
  <2> QED
    BY <2>1, <2>2
<1>2. ASSUME NEW k \in 0 .. n, k < n, k \in T PROVE k + 1 \in T
  <2>1. PICK f \in [0 .. k -> V] :
              f[0] = first /\ \A i \in 1 .. k : f[i] = step[i][f[i - 1]]
    BY <1>2
  <2>2. k \in Nat /\ k + 1 \in 1 .. n /\ k + 1 \in 0 .. n /\ k \in 0 .. k
    BY <1>2
  <2>3. f[k] \in V /\ step[k + 1][f[k]] \in V
    BY <2>2 DEF StepsIn
  <2> DEFINE g == [i \in 0 .. (k + 1) |-> IF i = k + 1 THEN step[k + 1][f[k]] ELSE f[i]]
  <2>4. g \in [0 .. (k + 1) -> V]
    <3> SUFFICES ASSUME NEW i \in 0 .. (k + 1), i # k + 1 PROVE f[i] \in V
      BY <2>3
    <3>1. i \in 0 .. k
      BY <2>2
    <3> QED
      BY <3>1
  <2>5. g[0] = first
    BY <2>1, <2>2
  <2>6. ASSUME NEW i \in 1 .. (k + 1) PROVE g[i] = step[i][g[i - 1]]
    <3>1. i - 1 \in 0 .. k /\ i - 1 # k + 1 /\ i - 1 \in 0 .. (k + 1) /\ i \in 0 .. (k + 1)
      BY <2>2
    <3>2. g[i - 1] = f[i - 1]
      BY <3>1
    <3>3. CASE i = k + 1
      <4>1. i - 1 = k
        BY <2>2, <3>3
      <4>2. g[i] = step[k + 1][f[k]]
        BY <3>1, <3>3
      <4> HIDE DEF g
      <4> QED
        BY <3>2, <3>3, <4>1, <4>2
    <3>4. CASE i # k + 1
      <4>1. i \in 1 .. k
        BY <2>2, <3>4
      <4>2. g[i] = f[i]
        BY <3>1, <3>4
      <4> HIDE DEF g
      <4> QED
        BY <2>1, <3>2, <4>1, <4>2
    <3> QED
      BY <3>3, <3>4
  <2> HIDE DEF g
  <2> QED
    BY <2>2, <2>4, <2>5, <2>6
<1>3. n \in 0 .. n
  OBVIOUS
<1>4. n \in T
  <2> HIDE DEF T
  <2> QED
    BY <1>1, <1>2, <1>3, InductionUpTo
<1>5. PICK f \in [0 .. n -> V] :
         f[0] = first /\ \A i \in 1 .. n : f[i] = step[i][f[i - 1]]
  BY <1>4
<1> QED
  BY <1>5 DEF IsChain

\* What the library's fold makes of the numbers that fn gives the members of S.
IsSum(fn, g, S) ==
    g = [s \in SUBSET S |->
            IF s = {} THEN 0
            ELSE fn[CHOOSE x \in s : TRUE] + g[s \ {CHOOSE x \in s : TRUE}]]

\* The sums over all sets of positions up to each one.
PartialSums(n, fn, h) ==
    /\ fn \in [1 .. n -> Int]
    /\ h \in [0 .. n -> [SUBSET (1 .. n) -> Int]]
    /\ \A s \in SUBSET (1 .. n) : h[0][s] = 0
    /\ \A s \in SUBSET (1 .. n), k \in 1 .. n :
          h[k][s] = h[k - 1][s] + (IF k \in s THEN fn[k] ELSE 0)

\* Whatever the numbers, their partial sums exist.
LEMMA PartialSumsExist ==
    ASSUME NEW n \in Nat, NEW fn \in [1 .. n -> Int]
    PROVE  \E h : PartialSums(n, fn, h)
<1> PICK V : V = [SUBSET (1 .. n) -> Int]
  OBVIOUS
<1> PICK zero : zero = [s \in SUBSET (1 .. n) |-> 0]
  OBVIOUS
<1> PICK step : step = [k \in 1 .. n |-> [g \in V |->
                          [s \in SUBSET (1 .. n) |->
                              g[s] + (IF k \in s THEN fn[k] ELSE 0)]]]
  OBVIOUS
<1>1. zero \in V
  OBVIOUS
<1>2. StepsIn(n, V, step)
  <2>1. ASSUME NEW k \in 1 .. n, NEW g \in V, NEW s \in SUBSET (1 .. n)
        PROVE  g[s] + (IF k \in s THEN fn[k] ELSE 0) \in Int
    <3>1. fn[k] \in Int /\ g[s] \in Int
      OBVIOUS
    <3> QED
      BY <3>1
  <2> QED
    BY <2>1 DEF StepsIn
<1> PICK h : IsChain(n, V, zero, step, h)
  BY <1>1, <1>2, ChainExists
<1>3. /\ h \in [0 .. n -> V]
      /\ h[0] = zero /\ \A k \in 1 .. n : h[k] = step[k][h[k - 1]]
  BY DEF IsChain
<1>4. ASSUME NEW s \in SUBSET (1 .. n), NEW k \in 1 .. n
      PROVE  h[k][s] = h[k - 1][s] + (IF k \in s THEN fn[k] ELSE 0)
  <2>1. k - 1 \in 0 .. n
    OBVIOUS
  <2>2. h[k - 1] \in V /\ h[k] = step[k][h[k - 1]]
    BY <1>3, <2>1
  <2> PICK g \in V : g = h[k - 1]
    BY <2>2
  <2>3. step[k][g][s] = g[s] + (IF k \in s THEN fn[k] ELSE 0)
    OBVIOUS
  <2> QED
    BY <2>2, <2>3
<1>5. h[0] = zero /\ h \in [0 .. n -> [SUBSET (1 .. n) -> Int]]
  BY <1>3
<1>6. \A s \in SUBSET (1 .. n) : h[0][s] = 0
  BY <1>5
<1>7. PartialSums(n, fn, h)
  BY ONLY fn \in [1 .. n -> Int], <1>4, <1>5, <1>6 DEF PartialSums
<1> QED
  BY <1>7

\* A sum in which any member may be the one taken out first.
AddsEach(n, fn, sum) ==
    \A s \in SUBSET (1 .. n) : \A x \in s : sum[s] = fn[x] + sum[s \ {x}]

\* So it is with the last of the partial sums.
LEMMA SumWithout ==
    ASSUME NEW n \in Nat, NEW fn, NEW h, PartialSums(n, fn, h)
    PROVE  AddsEach(n, fn, h[n])
<1> SUFFICES ASSUME NEW s \in SUBSET (1 .. n), NEW x \in s
             PROVE  h[n][s] = fn[x] + h[n][s \ {x}]
  BY DEF AddsEach
<1> PICK t : t = s \ {x}
  OBVIOUS
<1> fn \in [1 .. n -> Int]
  BY DEF PartialSums
<1>0. t \in SUBSET (1 .. n) /\ x \in 1 .. n /\ x \notin t
      /\ \A k : k # x => (k \in s <=> k \in t)
  OBVIOUS
<1> DEFINE T == {k \in 0 .. n :
              h[k][s] = h[k][t] + (IF x <= k THEN fn[x] ELSE 0)}
<1>1. 0 \in T
  <2>1. h[0][s] = 0 /\ h[0][t] = 0
    BY <1>0 DEF PartialSums
  <2>2. 0 \in 0 .. n /\ ~(x <= 0)
    BY <1>0
  <2> QED
    BY <2>1, <2>2
<1>2. ASSUME NEW k \in 0 .. n, k < n, k \in T PROVE k + 1 \in T
  <2>1. k + 1 \in 1 .. n /\ k + 1 \in 0 .. n /\ (k + 1) - 1 = k
    BY <1>2
  <2>2. /\ h[k + 1][s] = h[k][s] + (IF k + 1 \in s THEN fn[k + 1] ELSE 0)
        /\ h[k + 1][t] = h[k][t] + (IF k + 1 \in t THEN fn[k + 1] ELSE 0)
    <3>1. \A u \in SUBSET (1 .. n), j \in 1 .. n :
             h[j][u] = h[j - 1][u] + (IF j \in u THEN fn[j] ELSE 0)
      BY DEF PartialSums
    <3> PICK j \in 1 .. n : j = k + 1
      BY <2>1
    <3>2. /\ h[j][s] = h[j - 1][s] + (IF j \in s THEN fn[j] ELSE 0)
          /\ h[j][t] = h[j - 1][t] + (IF j \in t THEN fn[j] ELSE 0)
      BY ONLY <1>0, <3>1, j \in 1 .. n, s \in SUBSET (1 .. n)
    <3> QED
      BY ONLY <2>1, <3>2, j = k + 1
  <2>3. h[k][s] \in Int /\ h[k][t] \in Int /\ fn[k + 1] \in Int /\ fn[x] \in Int
    <3>1. h[k] \in [SUBSET (1 .. n) -> Int]
      BY DEF PartialSums
    <3>2. h[k][s] \in Int /\ h[k][t] \in Int
      BY <1>0, <3>1
    <3> QED
      BY <1>0, <2>1, <3>2
  <2>4. h[k][s] = h[k][t] + (IF x <= k THEN fn[x] ELSE 0)
    BY <1>2
  <2>5. CASE k + 1 = x
    <3>1. k + 1 \in s /\ k + 1 \notin t /\ ~(x <= k) /\ x <= k + 1
      BY <1>0, <2>5
    <3>2. h[k + 1][s] = h[k + 1][t] + fn[x]
      BY <2>2, <2>3, <2>4, <2>5, <3>1
    <3> QED
      BY <2>1, <3>1, <3>2
  <2>6. CASE k + 1 # x
    <3>1. k + 1 \in s <=> k + 1 \in t
      BY <1>0, <2>6
    <3>2. x <= k <=> x <= k + 1
      BY <1>0, <2>6
    <3>3. h[k + 1][s] = h[k + 1][t] + (IF x <= k THEN fn[x] ELSE 0)
      BY <2>2, <2>3, <2>4, <3>1
    <3> QED
      BY <2>1, <3>2, <3>3
  <2> QED
    BY <2>5, <2>6
<1>3. n \in T
  <2>1. n \in 0 .. n
    OBVIOUS
  <2> HIDE DEF T
  <2> QED
    BY <1>1, <1>2, <2>1, InductionUpTo
<1>4. h[n][s] \in Int /\ h[n][t] \in Int /\ fn[x] \in Int /\ x <= n
  <2>1. n \in 0 .. n
    OBVIOUS
  <2>2. h[n] \in [SUBSET (1 .. n) -> Int]
    BY <2>1 DEF PartialSums
  <2>3. h[n][s] \in Int /\ h[n][t] \in Int
    BY <1>0, <2>2
  <2> QED
    BY <1>0, <2>3
<1> QED
  BY <1>3, <1>4

\* Nothing adds up to nothing.
LEMMA SumOfNone ==
    ASSUME NEW n \in Nat, NEW fn, NEW h, PartialSums(n, fn, h)
    PROVE  h[n][{}] = 0
<1> DEFINE T == {k \in 0 .. n : h[k][{}] = 0}
<1>1. 0 \in T
  BY DEF PartialSums
<1>2. ASSUME NEW k \in 0 .. n, k < n, k \in T PROVE k + 1 \in T
  <2>1. k + 1 \in 1 .. n /\ k + 1 \in 0 .. n /\ (k + 1) - 1 = k
    BY <1>2
  <2>2. h[k + 1][{}] = h[k][{}] + 0
    BY <2>1 DEF PartialSums
  <2> QED
    BY <1>2, <2>1, <2>2
<1>3. n \in T
  <2>1. n \in 0 .. n
    OBVIOUS
  <2> HIDE DEF T
  <2> QED
    BY <1>1, <1>2, <2>1, InductionUpTo
<1> QED
  BY <1>3

\* The fold's recursion has a solution, and it is the sum.
LEMMA FoldIsSum ==
    ASSUME NEW n \in Nat, NEW fn, NEW h, PartialSums(n, fn, h),
           NEW S \in SUBSET (1 .. n)
    PROVE  /\ \E g : IsSum(fn, g, S)
           /\ \A g : IsSum(fn, g, S) => g[S] = h[n][S]
<1>1. \A s \in SUBSET S : s \in SUBSET (1 .. n)
  OBVIOUS
<1>2. h[n][{}] = 0
  BY SumOfNone
<1>3. ASSUME NEW s \in SUBSET S, s # {}
      PROVE  /\ (CHOOSE x \in s : TRUE) \in s
             /\ h[n][s] = fn[CHOOSE x \in s : TRUE] + h[n][s \ {CHOOSE x \in s : TRUE}]
  <2>1. (CHOOSE x \in s : TRUE) \in s
    BY <1>3
  <2> PICK x \in s : x = (CHOOSE y \in s : TRUE)
    BY <2>1
  <2>2. s \in SUBSET (1 .. n)
    BY <1>1
  <2>3. h[n][s] = fn[x] + h[n][s \ {x}]
    <3>1. AddsEach(n, fn, h[n])
      BY SumWithout
    <3> QED
      BY ONLY <2>2, <3>1, x \in s DEF AddsEach
  <2> QED
    BY <2>1, <2>3
<1>4. \E g : IsSum(fn, g, S)
  <2> PICK g : g = [s \in SUBSET S |-> h[n][s]]
    OBVIOUS
  <2>1. ASSUME NEW s \in SUBSET S
        PROVE  g[s] = IF s = {} THEN 0
                      ELSE fn[CHOOSE x \in s : TRUE] + g[s \ {CHOOSE x \in s : TRUE}]
    <3>1. CASE s = {}
      BY <1>2, <3>1
    <3>2. CASE s # {}
      <4> PICK t : t = s \ {CHOOSE x \in s : TRUE}
        OBVIOUS
      <4>1. t \in SUBSET S /\ g[t] = h[n][t] /\ g[s] = h[n][s]
        OBVIOUS
      <4> QED
        BY <1>3, <3>2, <4>1
    <3> QED
      BY <3>1, <3>2
  <2>2. g = [s \in SUBSET S |-> g[s]]
    OBVIOUS
  <2>3. IsSum(fn, g, S)
    BY ONLY <2>1, <2>2, Zenon DEF IsSum
  <2> QED
    BY <2>3
<1>5. ASSUME NEW g, IsSum(fn, g, S) PROVE g[S] = h[n][S]
  <2>1. IsFiniteSet(S) /\ Cardinality(S) \in Nat
    <3>1. IsFiniteSet(1 .. n)
      BY FS_Interval
    <3>2. IsFiniteSet(S)
      BY <3>1, FS_Subset
    <3> QED
      BY <3>2, FS_CardinalityType
  <2> PICK c \in Nat : c = Cardinality(S)
    BY <2>1
  <2> DEFINE T == {k \in 0 .. c : \A s \in SUBSET S : Cardinality(s) = k => g[s] = h[n][s]}
  <2>2. \A s \in SUBSET S : IsFiniteSet(s)
    BY <2>1, FS_Subset
  <2>3. 0 \in T
    <3>1. ASSUME NEW s \in SUBSET S, Cardinality(s) = 0 PROVE g[s] = h[n][s]
      <4>1. s = {}
        BY <2>2, <3>1, FS_EmptySet
      <4>2. g[s] = 0
        BY <1>5, <4>1 DEF IsSum
      <4> QED
        BY <1>2, <4>1, <4>2
    <3> QED
      BY <3>1
  <2>4. ASSUME NEW k \in 0 .. c, k < c, k \in T PROVE k + 1 \in T
    <3>1. ASSUME NEW s \in SUBSET S, Cardinality(s) = k + 1 PROVE g[s] = h[n][s]
      <4>1. s # {}
        <5>1. k + 1 # 0
          OBVIOUS
        <5> QED
          BY <3>1, <5>1, FS_EmptySet
      <4> PICK t : t = s \ {CHOOSE x \in s : TRUE}
        OBVIOUS
      <4>2. t \in SUBSET S
        OBVIOUS
      <4>3. Cardinality(t) = k
        <5>1. Cardinality(t) = Cardinality(s) - 1
          BY <1>3, <2>2, <4>1, FS_RemoveElement
        <5> QED
          BY <3>1, <5>1
      <4>4. g[t] = h[n][t]
        BY <2>4, <4>2, <4>3
      <4>5. g[s] = fn[CHOOSE x \in s : TRUE] + g[t]
        BY <1>5, <4>1 DEF IsSum
      <4> QED
        BY <1>3, <4>1, <4>4, <4>5
    <3> QED
      BY <2>4, <3>1
  <2>5. c \in T
    <3>1. c \in 0 .. c
      OBVIOUS
    <3> HIDE DEF T
    <3> QED
      BY <2>3, <2>4, <3>1, InductionUpTo
  <2> QED
    BY <2>5
<1> QED
  BY <1>4, <1>5

\* A bounded set of numbers has a greatest one.
LEMMA MaxOfSome ==
    ASSUME NEW n \in Nat, NEW T \in SUBSET (0 .. n), T # {}
    PROVE  Max(T) \in T /\ \A y \in T : y <= Max(T)
<1> DEFINE D == {n - y : y \in T}
<1>1. D \in SUBSET Nat /\ D # {}
  <2>1. \A y \in T : n - y \in Nat
    OBVIOUS
  <2> QED
    BY <2>1
<1>2. PICK d \in D : \A c \in D : d <= c
  <2> HIDE DEF D
  <2> QED
    BY <1>1, LeastNumber
<1>3. PICK x \in T : d = n - x
  BY <1>2
<1>4. \A y \in T : x >= y
  <2> TAKE y \in T
  <2>1. n - y \in D /\ n - x <= n - y
    BY <1>2, <1>3
  <2> QED
    BY <2>1
<1>5. Max(T) \in T /\ \A y \in T : Max(T) >= y
  BY <1>4 DEF Max
<1>6. Max(T) \in 0 .. n /\ \A y \in T : y \in 0 .. n
  BY <1>5
<1> QED
  BY <1>5, <1>6

\* Past the positions in D, a chain has added the numbers at them.
Adds(n, fn, last, D, r) ==
    /\ r \in [0 .. n -> Int]
    /\ D \subseteq 1 .. n /\ \A k \in D : k > last
    /\ \A k \in 1 .. n :
          k > last => r[k] = r[k - 1] + (IF k \in D THEN fn[k] ELSE 0)

\* Its last value is the sum of the numbers at D.
LEMMA ChainOfSums ==
    ASSUME NEW n \in Nat, NEW fn, NEW h, PartialSums(n, fn, h), NEW last \in 0 .. n,
           NEW D, NEW r, Adds(n, fn, last, D, r)
    PROVE  r[n] = r[last] + h[n][D]
<1>0. /\ fn \in [1 .. n -> Int] /\ r \in [0 .. n -> Int] /\ r[last] \in Int
      /\ D \in SUBSET (1 .. n)
  BY DEF PartialSums, Adds
<1> DEFINE T == {k \in 0 .. n : /\ k <= last => h[k][D] = 0
                                /\ k >= last => r[k] = r[last] + h[k][D]}
<1>1. 0 \in T
  <2>1. h[0][D] = 0
    BY <1>0 DEF PartialSums
  <2>2. 0 \in 0 .. n /\ (0 >= last => last = 0)
    OBVIOUS
  <2> QED
    BY <1>0, <2>1, <2>2
<1>2. ASSUME NEW k \in 0 .. n, k < n, k \in T PROVE k + 1 \in T
  <2> PICK j \in 1 .. n : j = k + 1
    BY <1>2
  <2>1. h[j][D] = h[j - 1][D] + (IF j \in D THEN fn[j] ELSE 0)
    BY <1>0 DEF PartialSums
  <2>2. j > last => r[j] = r[j - 1] + (IF j \in D THEN fn[j] ELSE 0)
    BY DEF Adds
  <2>3. j - 1 = k
    OBVIOUS
  <2>4. h[k] \in [SUBSET (1 .. n) -> Int]
    BY DEF PartialSums
  <2>5. h[k][D] \in Int /\ r[k] \in Int
    BY <1>0, <2>4
  <2>6. CASE j <= last
    <3>1. k <= last /\ h[k][D] = 0 /\ j \notin D
      <4>1. j \notin D
        BY <2>6 DEF Adds
      <4> QED
        BY <1>2, <2>6, <4>1
    <3>2. h[j][D] = 0
      BY <2>1, <2>3, <3>1
    <3>3. k >= last => FALSE
      BY <2>6
    <3>4. CASE j = last
      BY <1>0, <2>6, <3>2, <3>4
    <3>5. CASE j < last
      BY <2>6, <3>2, <3>5
    <3> QED
      BY <2>6, <3>4, <3>5
  <2>7. CASE j > last
    <3>1. k >= last /\ r[k] = r[last] + h[k][D]
      BY <1>2, <2>7
    <3> PICK e \in Int : e = (IF j \in D THEN fn[j] ELSE 0)
      BY <1>0
    <3>2. r[j] = r[k] + e /\ h[j][D] = h[k][D] + e
      BY <2>1, <2>2, <2>3, <2>7
    <3> PICK a \in Int, b \in Int : a = r[last] /\ b = h[k][D]
      BY <1>0, <2>5
    <3>3. (a + b) + e = a + (b + e)
      OBVIOUS
    <3>4. r[j] = (a + b) + e /\ r[last] + h[j][D] = a + (b + e)
      BY ONLY <3>1, <3>2, a = r[last], b = h[k][D]
    <3>5. r[j] = r[last] + h[j][D]
      BY ONLY <3>3, <3>4
    <3> QED
      BY <2>7, <3>5
  <2> QED
    BY <2>6, <2>7
<1>3. n \in T
  <2>1. n \in 0 .. n
    OBVIOUS
  <2> HIDE DEF T
  <2> QED
    BY <1>1, <1>2, <2>1, InductionUpTo
<1> QED
  BY <1>3

-----------------------------------------------------------------------------
\* The entries of a list that keep to their types: an active freeze has taken
\* what it holds.
Typed(p, list) ==
    \A i \in DOMAIN list :
        /\ list[i].bias \in Int
        /\ p[i].kind = "frozen" /\ list[i].was => list[i].held \in Int

\* What the PLC makes of w, one fault after the other leaving its reading.
IsReading(p, list, w, s, r) ==
    /\ r \in [0 .. Len(list) -> Int]
    /\ r[0] = w[s]
    /\ \A i \in DOMAIN list :
          r[i] = IF p[i].signal = s THEN Perturbed(p[i], list[i], r[i - 1])
                 ELSE r[i - 1]

\* The PLC's tags hold the last value of each signal's reading.
Reads(p, list, w, sn) ==
    \A s \in Signals : \E r : /\ IsReading(p, list, w, s, r)
                              /\ sn[s] = Truncated(r[Len(list)])

\* A plan is a sequence of faults of the model.
PlansAre(p) ==
    /\ Len(p) \in Nat /\ DOMAIN p = 1 .. Len(p)
    /\ \A i \in DOMAIN p : /\ p[i].kind \in Kinds /\ p[i].signal \in Signals
                           /\ p[i].amount \in Int

\* The fold as the property writes it, and the numbers as a function.
SumByBias(g, S) ==
    g = [s \in SUBSET S |->
            IF s = {} THEN 0
            ELSE Bias(CHOOSE x \in s : TRUE) + g[s \ {CHOOSE x \in s : TRUE}]]

AreBiases(n, fn, S) == S \subseteq 1 .. n /\ \A i \in 1 .. n : fn[i] = Bias(i)

\* The library's sum of the biases.
LEMMA SumOfBiases ==
    ASSUME NEW n \in Nat, NEW fn, NEW h, PartialSums(n, fn, h), NEW S,
           AreBiases(n, fn, S)
    PROVE  MapThenSumSet(Bias, S) = h[n][S]
<1>0. S \in SUBSET (1 .. n) /\ \A i \in 1 .. n : fn[i] = Bias(i)
  BY DEF AreBiases
<1>1. PICK g : IsSum(fn, g, S)
  BY <1>0, FoldIsSum
<1>2. ASSUME NEW s \in SUBSET S, s # {}
      PROVE  fn[CHOOSE x \in s : TRUE] = Bias(CHOOSE x \in s : TRUE)
  <2>1. (CHOOSE x \in s : TRUE) \in s
    BY <1>2
  <2> QED
    BY <1>0, <2>1
<1>3. \A f : SumByBias(f, S) <=> IsSum(fn, f, S)
  <2> TAKE f
  <2>1. \A s \in SUBSET S :
           (IF s = {} THEN 0
            ELSE Bias(CHOOSE x \in s : TRUE) + f[s \ {CHOOSE x \in s : TRUE}])
           = (IF s = {} THEN 0
              ELSE fn[CHOOSE x \in s : TRUE] + f[s \ {CHOOSE x \in s : TRUE}])
    BY <1>2
  <2>2. [s \in SUBSET S |->
           IF s = {} THEN 0
            ELSE Bias(CHOOSE x \in s : TRUE) + f[s \ {CHOOSE x \in s : TRUE}]]
        = [s \in SUBSET S |->
             IF s = {} THEN 0
              ELSE fn[CHOOSE x \in s : TRUE] + f[s \ {CHOOSE x \in s : TRUE}]]
    BY ONLY <2>1, Zenon
  <2> QED
    BY ONLY <2>2, Zenon DEF SumByBias, IsSum
<1> DEFINE iter == CHOOSE f : SumByBias(f, S)
<1>4. SumByBias(iter, S)
  BY <1>1, <1>3
<1>5. MapThenSumSet(Bias, S) = iter[S]
  BY DEF MapThenSumSet, MapThenFoldSet, SumByBias
<1>6. iter[S] = h[n][S]
  <2>1. \A f : IsSum(fn, f, S) => f[S] = h[n][S]
    BY <1>0, FoldIsSum
  <2> HIDE DEF iter
  <2> QED
    BY ONLY <1>3, <1>4, <2>1
<1> QED
  BY <1>5, <1>6

-----------------------------------------------------------------------------
\* A reading is what the last holding fault holds and the biases after it.
LEMMA ReadingIsSum ==
    ASSUME PlansAre(plan), Len(faults) \in Nat, DOMAIN faults = 1 .. Len(faults),
           DOMAIN faults \subseteq DOMAIN plan, Typed(plan, faults),
           NEW s \in Signals, NEW r, IsReading(plan, faults, written, s, r)
    PROVE  LET last == Max(Holding(s) \cup {0})
               base == IF last = 0 THEN written[s] ELSE Hold(last)
               biases == {i \in On(s) : i > last}
           IN  r[Len(faults)] = base + MapThenSumSet(Bias, biases)
<1> PICK n \in Nat : n = Len(faults)
  OBVIOUS
<1> DEFINE H == Holding(s) \cup {0}
<1>1. /\ DOMAIN faults = 1 .. n /\ On(s) \subseteq 1 .. n
      /\ Holding(s) \subseteq On(s) /\ H \in SUBSET (0 .. n) /\ H # {}
  BY DEF On, Holding
<1> PICK last \in 0 .. n : last = Max(H)
  <2> HIDE DEF H
  <2> QED
    BY <1>1, MaxOfSome
<1>2. /\ last = 0 \/ last \in Holding(s)
      /\ \A k \in 1 .. n : k > last => k \notin Holding(s)
  <2>1. last \in H /\ \A y \in H : y <= last
    <3> HIDE DEF H
    <3> QED
      BY <1>1, MaxOfSome
  <2>2. \A k \in Holding(s) : k <= last
    BY <2>1
  <2>3. ASSUME NEW k \in 1 .. n, k > last, k \in Holding(s) PROVE FALSE
    BY ONLY <2>2, <2>3, n \in Nat, last \in 0 .. n
  <2> QED
    BY <2>1, <2>3
<1> PICK D : D = {i \in On(s) : i > last}
  OBVIOUS
<1>3. D \subseteq 1 .. n /\ \A k \in 1 .. n : k > last => (k \in D <=> k \in On(s))
  BY <1>1
<1> PICK fn : fn = [i \in 1 .. n |-> Bias(i)]
  OBVIOUS
<1>4. \A i \in 1 .. n : fn[i] = Bias(i) /\ fn[i] \in Int
  <2>1. ASSUME NEW i \in 1 .. n PROVE Bias(i) \in Int
    BY <1>1 DEF Bias, Typed, PlansAre
  <2> QED
    BY <2>1
<1>5. fn \in [1 .. n -> Int]
  BY <1>4
<1>6. /\ r \in [0 .. n -> Int] /\ r[0] = written[s]
      /\ \A i \in 1 .. n :
            r[i] = IF plan[i].signal = s THEN Perturbed(plan[i], faults[i], r[i - 1])
                   ELSE r[i - 1]
  BY <1>1 DEF IsReading
<1>7. ASSUME NEW k \in 1 .. n, k > last
      PROVE  r[k] = r[k - 1] + (IF k \in D THEN fn[k] ELSE 0)
  <2>1. r[k - 1] \in Int
    <3>1. k - 1 \in 0 .. n
      OBVIOUS
    <3> QED
      BY <1>6, <3>1
  <2>2. CASE k \in On(s)
    <3>1. /\ faults[k].active /\ plan[k].signal = s
          /\ plan[k].kind \in {"offset", "drift"}
      BY <1>1, <1>2, <1>7, <2>2 DEF On, Holding, PlansAre, Kinds
    <3>2. r[k] = Perturbed(plan[k], faults[k], r[k - 1])
      BY <1>6, <3>1
    <3>3. r[k] = r[k - 1] + Bias(k)
      BY <3>1, <3>2 DEF Perturbed, Bias
    <3>4. k \in D /\ Bias(k) = fn[k]
      BY <1>3, <1>4, <1>7, <2>2
    <3> QED
      BY <3>3, <3>4
  <2>3. CASE k \notin On(s)
    <3>1. ~faults[k].active \/ plan[k].signal # s
      BY <1>1, <2>3 DEF On
    <3>2. r[k] = r[k - 1]
      BY <1>6, <3>1 DEF Perturbed
    <3>3. k \notin D
      BY <1>3, <1>7, <2>3
    <3> QED
      BY <2>1, <3>2, <3>3
  <2> QED
    BY <2>2, <2>3
<1>8. Adds(n, fn, last, D, r)
  <2>1. \A k \in D : k > last
    OBVIOUS
  <2> QED
    BY <1>3, <1>6, <1>7, <2>1 DEF Adds
<1> PICK h : PartialSums(n, fn, h)
  BY <1>5, PartialSumsExist
<1>9. r[n] = r[last] + h[n][D]
  BY <1>8, ChainOfSums
<1>10. MapThenSumSet(Bias, D) = h[n][D]
  <2>1. AreBiases(n, fn, D)
    BY <1>3, <1>4 DEF AreBiases
  <2> QED
    BY <2>1, SumOfBiases
<1>11. r[last] = IF last = 0 THEN written[s] ELSE Hold(last)
  <2>1. CASE last = 0
    BY <1>6, <2>1
  <2>2. CASE last # 0
    <3>1. /\ last \in 1 .. n /\ faults[last].active /\ plan[last].signal = s
          /\ plan[last].kind \in {"stuck", "frozen"}
      BY <1>1, <1>2, <2>2 DEF On, Holding
    <3>2. r[last] = Perturbed(plan[last], faults[last], r[last - 1])
      BY <1>6, <3>1
    <3> QED
      BY <2>2, <3>1, <3>2 DEF Perturbed, Hold
  <2> QED
    BY <2>1, <2>2
<1>12. last = Max(Holding(s) \cup {0})
  OBVIOUS
<1> QED
  BY ONLY <1>9, <1>10, <1>11, <1>12, n = Len(faults), D = {i \in On(s) : i > last}, Zenon

-----------------------------------------------------------------------------
\* An entry with the fields of a fault, and the types a run gives it.
EntryOk(p, f) ==
    /\ f = [k \in Fields |-> f[k]]
    /\ f.bias \in Int
    /\ p.kind = "frozen" /\ f.was => f.held \in Int

\* A step keeps an entry's types, and leaves a number on the signal.
LEMMA StepLeavesNumber ==
    ASSUME NEW p, NEW f, NEW v \in Int, EntryOk(p, f), p.kind \in Kinds, p.amount \in Int
    PROVE  /\ EntryOk(p, Stepped(p, f, v))
           /\ Stepped(p, f, v).active = f.active
           /\ Perturbed(p, Stepped(p, f, v), v) \in Int
<1>1. DOMAIN f = Fields
  BY DEF EntryOk
<1> PICK g : g = Stepped(p, f, v)
  OBVIOUS
<1>2. /\ g.bias = IF p.kind = "drift" /\ f.active THEN f.bias + p.amount ELSE f.bias
      /\ g.held = IF p.kind = "frozen" /\ f.active /\ ~f.was THEN v ELSE f.held
      /\ g.was = (p.kind = "frozen" /\ f.active)
      /\ g.active = f.active
      /\ g = [k \in Fields |-> g[k]]
  BY <1>1 DEF Stepped, Fields
<1>3. g.bias \in Int
  BY <1>2 DEF EntryOk
<1>4. p.kind = "frozen" /\ f.active => g.held \in Int
  BY <1>2 DEF EntryOk
<1>5. p.kind = "frozen" /\ g.was => g.held \in Int
  <2> SUFFICES ASSUME p.kind = "frozen", g.was PROVE g.held \in Int
    OBVIOUS
  <2>1. f.active
    BY <1>2
  <2> QED
    BY <1>4, <2>1
<1>6. Perturbed(p, g, v) \in Int
  BY <1>2, <1>3, <1>4 DEF Perturbed, Kinds
<1> QED
  BY <1>2, <1>3, <1>5, <1>6 DEF EntryOk

\* The bus a fault leaves, having found b.
Left(i, b) ==
    [b EXCEPT ![plan[i].signal] =
        Perturbed(plan[i], Stepped(plan[i], faults[i], b[plan[i].signal]),
                  b[plan[i].signal])]

\* The bus before and after each fault, and a list it can be worked out for.
IsUnder(u, bus) ==
    u = [i \in 0 .. Len(faults) |-> IF i = 0 THEN bus ELSE Left(i, u[i - 1])]
ListOk ==
    /\ PlansAre(plan) /\ Len(faults) \in Nat /\ DOMAIN faults = 1 .. Len(faults)
    /\ DOMAIN faults \subseteq DOMAIN plan
    /\ \A i \in DOMAIN faults : EntryOk(plan[i], faults[i])

\* It is a bus again.
LEMMA LeftIsBus ==
    ASSUME ListOk, NEW i \in DOMAIN faults, NEW b \in [Signals -> Int]
    PROVE  Left(i, b) \in [Signals -> Int]
<1>1. /\ plan[i].signal \in Signals /\ plan[i].kind \in Kinds /\ plan[i].amount \in Int
      /\ EntryOk(plan[i], faults[i])
  BY DEF ListOk, PlansAre
<1> PICK v \in Int : v = b[plan[i].signal]
  BY <1>1
<1>2. Perturbed(plan[i], Stepped(plan[i], faults[i], v), v) \in Int
  BY <1>1, StepLeavesNumber
<1> PICK x \in Int : x = Perturbed(plan[i], Stepped(plan[i], faults[i], v), v)
  BY <1>2
<1>3. Left(i, b) = [b EXCEPT ![plan[i].signal] = x]
  BY DEF Left
<1> QED
  BY <1>1, <1>3

\* The recursion of BusUnder has a solution, which is a bus at each fault.
LEMMA BusUnderList ==
    ASSUME ListOk, NEW bus \in [Signals -> Int]
    PROVE  /\ IsUnder(BusUnder(bus), bus)
           /\ \A i \in 0 .. Len(faults) : BusUnder(bus)[i] \in [Signals -> Int]
<1> PICK n \in Nat : n = Len(faults)
  BY DEF ListOk
<1> PICK V : V = [Signals -> Int]
  OBVIOUS
<1> PICK step : step = [i \in 1 .. n |-> [b \in V |-> Left(i, b)]]
  OBVIOUS
<1>1. StepsIn(n, V, step)
  <2>1. \A i \in 1 .. n : \A b \in V : Left(i, b) \in V
    BY LeftIsBus DEF ListOk
  <2> QED
    BY <2>1 DEF StepsIn
<1> PICK f : IsChain(n, V, bus, step, f)
  BY <1>1, ChainExists
<1>2. f \in [0 .. n -> V] /\ f[0] = bus
  BY DEF IsChain
<1>3. \A i \in 1 .. n : f[i] = Left(i, f[i - 1])
  <2> TAKE i \in 1 .. n
  <2>1. i - 1 \in 0 .. n
    OBVIOUS
  <2>2. f[i - 1] \in V /\ f[i] = step[i][f[i - 1]]
    BY <1>2, <2>1 DEF IsChain
  <2> QED
    BY <2>2
<1>4. IsUnder(f, bus)
  <2>1. \A i \in 0 .. n : f[i] = IF i = 0 THEN bus ELSE Left(i, f[i - 1])
    BY <1>2, <1>3
  <2>2. f = [i \in 0 .. n |-> f[i]]
    BY <1>2
  <2>3. f = [i \in 0 .. n |-> IF i = 0 THEN bus ELSE Left(i, f[i - 1])]
    BY ONLY <2>1, <2>2, Zenon
  <2> QED
    BY ONLY <2>3, n = Len(faults) DEF IsUnder
<1> PICK u : u = BusUnder(bus)
  OBVIOUS
<1>5. IsUnder(u, bus)
  BY <1>4 DEF IsUnder, Left, BusUnder
<1>6. u[0] = bus /\ \A i \in 1 .. n : u[i] = Left(i, u[i - 1])
  <2>1. u = [i \in 0 .. n |-> IF i = 0 THEN bus ELSE Left(i, u[i - 1])]
    BY <1>5, n = Len(faults) DEF IsUnder
  <2>2. \A i \in 0 .. n : u[i] = IF i = 0 THEN bus ELSE Left(i, u[i - 1])
    BY ONLY <2>1
  <2>3. 0 \in 0 .. n /\ \A i \in 1 .. n : i \in 0 .. n /\ i # 0
    OBVIOUS
  <2> QED
    BY ONLY <2>2, <2>3
<1>7. \A k \in 0 .. n : u[k] \in V
  <2> PICK T : T = {k \in 0 .. n : u[k] \in V}
    OBVIOUS
  <2>1. 0 \in T
    BY <1>6
  <2>2. ASSUME NEW k \in 0 .. n, k < n, k \in T PROVE k + 1 \in T
    <3>1. k + 1 \in 1 .. n /\ k + 1 \in 0 .. n /\ (k + 1) - 1 = k /\ u[k] \in V
      BY <2>2
    <3>2. u[k + 1] = Left(k + 1, u[k])
      BY <1>6, <3>1
    <3>3. k + 1 \in DOMAIN faults
      BY <3>1 DEF ListOk
    <3>4. Left(k + 1, u[k]) \in V
      BY <3>1, <3>3, LeftIsBus
    <3> QED
      BY <3>1, <3>2, <3>4
  <2>3. \A k \in 0 .. n : k \in T
    BY ONLY <2>1, <2>2, n \in Nat, InductionUpTo
  <2> QED
    BY <2>3
<1> QED
  BY <1>5, <1>7

\* A tick that reads the inputs reads what its faults make of what was written.
LEMMA TickReads ==
    ASSUME ListOk, NEW w \in [Signals -> Int], NEW next, NEW sn,
           next = [i \in DOMAIN faults |->
                     Stepped(plan[i], faults[i], BusUnder(w)[i - 1][plan[i].signal])],
           Len(next) = Len(faults)
    PROVE  /\ Typed(plan, next)
           /\ sn = [s \in Signals |-> Truncated(BusUnder(w)[Len(faults)][s])]
                 => Reads(plan, next, w, sn)
<1> PICK n \in Nat : n = Len(faults)
  BY DEF ListOk
<1> PICK u : u = BusUnder(w)
  OBVIOUS
<1>1. /\ IsUnder(u, w)
      /\ \A i \in 0 .. n : u[i] \in [Signals -> Int]
  BY BusUnderList
<1>2. u[0] = w /\ \A i \in 1 .. n : u[i] = Left(i, u[i - 1])
  <2>1. u = [i \in 0 .. n |-> IF i = 0 THEN w ELSE Left(i, u[i - 1])]
    BY <1>1, n = Len(faults) DEF IsUnder
  <2>2. \A i \in 0 .. n : u[i] = IF i = 0 THEN w ELSE Left(i, u[i - 1])
    BY ONLY <2>1
  <2>3. 0 \in 0 .. n /\ \A i \in 1 .. n : i \in 0 .. n /\ i # 0
    OBVIOUS
  <2> QED
    BY ONLY <2>2, <2>3
<1>3. DOMAIN faults = 1 .. n /\ DOMAIN next = 1 .. n /\ Len(next) = n
  BY DEF ListOk
<1>4. ASSUME NEW i \in 1 .. n
      PROVE  /\ i - 1 \in 0 .. n /\ u[i - 1] \in [Signals -> Int]
             /\ plan[i].signal \in Signals
             /\ next[i] = Stepped(plan[i], faults[i], u[i - 1][plan[i].signal])
             /\ EntryOk(plan[i], next[i])
  <2>1. i - 1 \in 0 .. n
    OBVIOUS
  <2>2. /\ plan[i].signal \in Signals /\ plan[i].kind \in Kinds
        /\ plan[i].amount \in Int /\ EntryOk(plan[i], faults[i])
    BY <1>3 DEF ListOk, PlansAre
  <2> PICK v \in Int : v = u[i - 1][plan[i].signal]
    BY <1>1, <2>1, <2>2
  <2>3. next[i] = Stepped(plan[i], faults[i], v)
    BY <1>3
  <2>4. EntryOk(plan[i], Stepped(plan[i], faults[i], v))
    BY <2>2, StepLeavesNumber
  <2> QED
    BY <1>1, <2>1, <2>2, <2>3, <2>4
<1>5. Typed(plan, next)
  BY <1>3, <1>4 DEF Typed, EntryOk
<1>6. ASSUME NEW s \in Signals
      PROVE  \E r : IsReading(plan, next, w, s, r) /\ r[n] = u[n][s]
  <2> PICK r : r = [i \in 0 .. n |-> u[i][s]]
    OBVIOUS
  <2>1. r \in [0 .. n -> Int] /\ r[0] = w[s] /\ r[n] = u[n][s]
    BY <1>1, <1>2
  <2>2. ASSUME NEW i \in 1 .. n
        PROVE  r[i] = IF plan[i].signal = s THEN Perturbed(plan[i], next[i], r[i - 1])
                      ELSE r[i - 1]
    <3>1. r[i] = u[i][s] /\ r[i - 1] = u[i - 1][s]
      BY <1>4
    <3> PICK b \in [Signals -> Int] : b = u[i - 1]
      BY <1>4
    <3>2. u[i] = [b EXCEPT ![plan[i].signal] =
                    Perturbed(plan[i], next[i], b[plan[i].signal])]
      BY <1>2, <1>4 DEF Left
    <3> QED
      BY <1>4, <3>1, <3>2
  <2>3. IsReading(plan, next, w, s, r)
    BY <1>3, <2>1, <2>2 DEF IsReading
  <2> QED
    BY <2>1, <2>3
<1>7. ASSUME sn = [s \in Signals |-> Truncated(u[n][s])] PROVE Reads(plan, next, w, sn)
  <2> SUFFICES ASSUME NEW s \in Signals
               PROVE  \E r : /\ IsReading(plan, next, w, s, r)
                             /\ sn[s] = Truncated(r[Len(next)])
    BY DEF Reads
  <2>1. PICK r : IsReading(plan, next, w, s, r) /\ r[n] = u[n][s]
    BY <1>6
  <2>2. sn[s] = Truncated(u[n][s])
    BY <1>7
  <2>3. sn[s] = Truncated(r[Len(next)])
    BY ONLY <1>3, <2>1, <2>2
  <2> QED
    BY <2>1, <2>3
<1> QED
  BY <1>5, <1>7

\* What a restore leaves out of the entries, no reading depends on.
SameFault(f, g) ==
    f.active = g.active /\ f.bias = g.bias /\ f.held = g.held /\ f.was = g.was

\* Entries that differ in nothing else read alike.
LEMMA RestoredReads ==
    ASSUME NEW p, NEW list, NEW next, NEW w, NEW sn,
           DOMAIN next = DOMAIN list, Len(next) = Len(list),
           \A i \in DOMAIN list : SameFault(next[i], list[i])
    PROVE  /\ Typed(p, list) => Typed(p, next)
           /\ Reads(p, list, w, sn) => Reads(p, next, w, sn)
<1>1. Typed(p, list) => Typed(p, next)
  BY DEF Typed, SameFault
<1>2. ASSUME NEW i \in DOMAIN list, NEW v
      PROVE  Perturbed(p[i], next[i], v) = Perturbed(p[i], list[i], v)
  <2>1. /\ next[i].active = list[i].active /\ next[i].bias = list[i].bias
        /\ next[i].held = list[i].held
    BY DEF SameFault
  <2> QED
    BY ONLY <2>1 DEF Perturbed
<1>3. ASSUME NEW s, NEW r, IsReading(p, list, w, s, r) PROVE IsReading(p, next, w, s, r)
  BY <1>2, <1>3 DEF IsReading
<1> QED
  BY <1>1, <1>3 DEF Reads

-----------------------------------------------------------------------------
\* The list is typed, and what the PLC last heard, or a snapshot holds that it
\* heard, is what the list made of what the plant had written.
ReadingInv ==
    /\ Typed(plan, faults)
    /\ heard /\ quiet => Reads(plan, faults, written, seen)
    /\ saved # None =>
          /\ Typed(plan, saved.branch.faults)
          /\ saved.history.heard =>
                Reads(plan, saved.branch.faults, saved.history.written,
                      saved.branch.seen)

\* The plans are typed by assumption.
LEMMA PlanIsTyped == ASSUME plan \in Plans PROVE PlansAre(plan)
<1> PICK S : S = [kind : Kinds, signal : Signals, amount : Int]
  OBVIOUS
<1>1. plan \in Seq(S)
  BY FaultsAssumption
<1>2. Len(plan) \in Nat /\ DOMAIN plan = 1 .. Len(plan)
  BY <1>1, LenProperties
<1>3. \A i \in DOMAIN plan : plan[i] \in S
  BY <1>1, <1>2, ElementOfSeq
<1> QED
  BY <1>2, <1>3 DEF PlansAre

\* The drift invariant and the types make a list a bus can be worked out for.
LEMMA ListIsOk ==
    ASSUME DriftInv, Typed(plan, faults)
    PROVE  ListOk
<1>1. plan \in Plans /\ Agree(plan, faults, activeTicks)
  BY DEF DriftInv
<1> PICK active : active = activeTicks
  OBVIOUS
<1> PICK list : list = faults
  OBVIOUS
<1>2. /\ Len(list) \in 0 .. Len(plan) /\ Len(plan) \in Nat
      /\ DOMAIN list = 1 .. Len(list)
      /\ DOMAIN list \subseteq DOMAIN plan
  <2>1. plan \in Plans /\ Agree(plan, list, active)
    BY <1>1
  <2> QED
    BY ONLY <2>1, ListIsSequence
<1>3. \A i \in DOMAIN faults : EntryOk(plan[i], faults[i])
  <2>1. \A i \in DOMAIN faults : faults[i] = [k \in Fields |-> faults[i][k]]
    BY <1>1 DEF Agree
  <2> QED
    BY <2>1 DEF Typed, EntryOk
<1> QED
  BY <1>1, <1>2, <1>3, PlanIsTyped DEF ListOk

\* A tick makes the readings anew, a capture keeps them and a restore brings
\* them back; whoever changes the list in between ends the quiet.
LEMMA ReadingInvariant == Spec => []ReadingInv
<1>1. Init => ReadingInv
  <2> SUFFICES ASSUME Init PROVE ReadingInv
    OBVIOUS
  <2>1. faults = <<>> /\ saved = None /\ heard = FALSE
    BY DEF Init
  <2>2. DOMAIN faults = {}
    BY <2>1
  <2> QED
    BY <2>1, <2>2 DEF ReadingInv, Typed
<1>2. DriftInv /\ DriftInv' /\ ReadingInv /\ [Next]_vars => ReadingInv'
  <2> SUFFICES ASSUME DriftInv, DriftInv', ReadingInv, [Next]_vars PROVE ReadingInv'
    OBVIOUS
  <2>0. /\ plan' = plan /\ Typed(plan, faults) /\ ListOk
        /\ Len(faults') \in Nat /\ DOMAIN faults' = 1 .. Len(faults')
    <3>1. plan' = plan /\ Typed(plan, faults)
      BY DEF Next, vars, ReadingInv
    <3> PICK list : list = faults'
      OBVIOUS
    <3> PICK active : active = activeTicks'
      OBVIOUS
    <3>2. plan \in Plans /\ Agree(plan, list, active)
      BY <3>1 DEF DriftInv
    <3>3. Len(list) \in 0 .. Len(plan) /\ Len(plan) \in Nat /\ DOMAIN list = 1 .. Len(list)
      BY ONLY <3>2, ListIsSequence
    <3> QED
      BY <3>1, <3>3, ListIsOk
  <2>1. ASSUME NEW w \in [Signals -> PlantValues], Tick(w) PROVE ReadingInv'
    <3>1. w \in [Signals -> Int]
      BY FaultsAssumption
    <3> PICK next : next = faults'
      OBVIOUS
    <3> PICK sn : sn = seen'
      OBVIOUS
    <3>2. next = [i \in DOMAIN faults |->
                    Stepped(plan[i], faults[i], BusUnder(w)[i - 1][plan[i].signal])]
      BY <2>1 DEF Tick
    <3>3. Len(next) = Len(faults)
      <4>1. /\ 1 .. Len(next) = 1 .. Len(faults)
            /\ Len(next) \in Nat /\ Len(faults) \in Nat
        BY <2>0, <3>2 DEF ListOk
      <4> QED
        BY ONLY <4>1
    <3>4. /\ Typed(plan, next)
          /\ sn = [s \in Signals |-> Truncated(BusUnder(w)[Len(faults)][s])]
                => Reads(plan, next, w, sn)
      BY <2>0, <3>1, <3>2, <3>3, TickReads
    <3>5. heard' => sn = [s \in Signals |-> Truncated(BusUnder(w)[Len(faults)][s])]
      BY <2>1 DEF Tick, TransferInputs
    <3>6. written' = w /\ saved' = saved
      BY <2>1 DEF Tick
    <3> QED
      BY <2>0, <3>4, <3>5, <3>6 DEF ReadingInv
  <2>2. ASSUME NEW w \in [Signals -> PlantValues], TickRaises(w) PROVE ReadingInv'
    BY <2>0, <2>2 DEF TickRaises, ReadingInv
  <2>3. CASE Attach
    <3>1. ASSUME NEW i \in DOMAIN faults'
          PROVE  /\ faults'[i].bias \in Int
                 /\ plan[i].kind = "frozen" /\ faults'[i].was => faults'[i].held \in Int
      <4>1. Len(faults) \in Nat /\ DOMAIN faults = 1 .. Len(faults)
        BY <2>0 DEF ListOk
      <4>2. faults' = Append(faults, NewFault)
        BY <2>3 DEF Attach
      <4>3. faults'[i] = IF i \in DOMAIN faults THEN faults[i] ELSE NewFault
        BY <4>1, <4>2
      <4> QED
        BY <2>0, <4>3 DEF Typed, NewFault
    <3>2. Typed(plan, faults')
      BY <3>1 DEF Typed
    <3> QED
      BY <2>0, <2>3, <3>2 DEF Attach, ReadingInv
  <2>4. CASE Remove
    <3>1. ASSUME NEW i \in DOMAIN faults' PROVE i \in DOMAIN faults /\ faults'[i] = faults[i]
      <4>1. Len(faults) \in Nat /\ DOMAIN faults = 1 .. Len(faults) /\ faults # <<>>
        BY <2>0, <2>4 DEF ListOk, Remove
      <4>2. faults' = SubSeq(faults, 1, Len(faults) - 1)
        BY <2>4 DEF Remove
      <4> QED
        BY <4>1, <4>2
    <3>2. Typed(plan, faults')
      BY <2>0, <3>1 DEF Typed
    <3> QED
      BY <2>0, <2>4, <3>2 DEF Remove, ReadingInv
  <2>5. ASSUME NEW i \in DOMAIN faults, Switch(i) PROVE ReadingInv'
    <3>1. DOMAIN faults' = DOMAIN faults
      BY <2>5 DEF Switch
    <3>2. ASSUME NEW j \in DOMAIN faults
          PROVE  /\ faults'[j].bias = faults[j].bias /\ faults'[j].was = faults[j].was
                 /\ faults'[j].held = faults[j].held
      <4>1. DOMAIN faults[j] = Fields
        BY <2>0 DEF ListOk, EntryOk
      <4>2. faults'[j] = IF j = i THEN [faults[j] EXCEPT !.active = ~@] ELSE faults[j]
        BY <2>5 DEF Switch
      <4> QED
        BY <4>1, <4>2 DEF Fields
    <3>3. Typed(plan, faults')
      BY <2>0, <3>1, <3>2 DEF Typed
    <3> QED
      BY <2>0, <2>5, <3>3 DEF Switch, ReadingInv
  <2>6. CASE SwitchDropout
    BY <2>0, <2>6 DEF SwitchDropout, branch, history, ReadingInv
  <2>7. CASE Capture
    <3>1. /\ saved'.branch.faults = faults /\ saved'.branch.seen = seen
          /\ saved'.history.written = written /\ saved'.history.heard = heard
          /\ quiet /\ UNCHANGED <<faults, seen, written, heard, quiet>>
      BY <2>7 DEF Capture, branch, history
    <3>2. heard => Reads(plan, faults, written, seen)
      BY <3>1 DEF ReadingInv
    <3> QED
      BY <2>0, <3>1, <3>2 DEF ReadingInv
  <2>8. CASE Restore
    <3> PICK list : list = saved.branch.faults
      OBVIOUS
    <3> PICK next : next = faults'
      OBVIOUS
    <3>1. /\ saved # None /\ next = RestoredSequence(list) /\ saved' = saved
          /\ written' = saved.history.written /\ seen' = saved.branch.seen
          /\ heard' = saved.history.heard
      BY <2>8 DEF Restore
    <3>2. Agree(plan, list, saved.history.activeTicks)
      BY <3>1 DEF DriftInv
    <3>3. DOMAIN next = DOMAIN list
      BY <3>1 DEF RestoredSequence
    <3>4. Len(next) = Len(list)
      <4> PICK active : active = saved.history.activeTicks
        OBVIOUS
      <4>1. plan \in Plans /\ Agree(plan, list, active)
        BY <3>2 DEF DriftInv
      <4>2. Len(list) \in 0 .. Len(plan) /\ Len(plan) \in Nat
            /\ DOMAIN list = 1 .. Len(list)
        BY ONLY <4>1, ListIsSequence
      <4>3. /\ 1 .. Len(next) = 1 .. Len(list)
            /\ Len(next) \in Nat /\ Len(list) \in Nat
        BY <2>0, <3>3, <4>2
      <4> QED
        BY ONLY <4>3
    <3>5. ASSUME NEW i \in DOMAIN list PROVE SameFault(next[i], list[i])
      <4>1. DOMAIN list[i] = Fields
        BY <3>2 DEF Agree
      <4>2. \/ next[i] = [list[i] EXCEPT !.live = FALSE]
            \/ next[i] = [list[i] EXCEPT !.live = faults[i].live]
        BY <3>1 DEF RestoredSequence
      <4>3. CASE next[i] = [list[i] EXCEPT !.live = FALSE]
        BY <4>1, <4>3 DEF Fields, SameFault
      <4>4. CASE next[i] = [list[i] EXCEPT !.live = faults[i].live]
        BY <4>1, <4>4 DEF Fields, SameFault
      <4> QED
        BY <4>2, <4>3, <4>4
    <3>6. /\ Typed(plan, list) => Typed(plan, next)
          /\ \A w, sn : Reads(plan, list, w, sn) => Reads(plan, next, w, sn)
      BY ONLY <3>3, <3>4, <3>5, RestoredReads
    <3>7. /\ Typed(plan, list)
          /\ saved.history.heard => Reads(plan, list, saved.history.written, saved.branch.seen)
      BY <3>1 DEF ReadingInv
    <3> QED
      BY <2>0, <3>1, <3>6, <3>7 DEF ReadingInv
  <2>9. CASE UNCHANGED vars
    BY <2>0, <2>9 DEF vars, branch, history, ReadingInv
  <2> QED
    BY <2>1, <2>2, <2>3, <2>4, <2>5, <2>6, <2>7, <2>8, <2>9 DEF Next
<1> QED
  BY <1>1, <1>2, DriftInvariant, PTL DEF Spec

\* What the PLC reads is the value of the last holding fault, or the plant's,
\* plus the biases of the faults after it, whatever the list, with several
\* faults on a signal, a freeze held over others' changes, and after any
\* restore (Executive._tick's fault steps, faults.py, InProcessTransport).
THEOREM InputsShowTheFaults == Spec => []PlcSeesTheFaults
<1>1. DriftInv /\ ReadingInv => PlcSeesTheFaults
  <2> SUFFICES ASSUME DriftInv, ReadingInv, heard, quiet, NEW s \in Signals
               PROVE  LET last == Max(Holding(s) \cup {0})
                          base == IF last = 0 THEN written[s] ELSE Hold(last)
                          biases == {i \in On(s) : i > last}
                      IN  seen[s] = Truncated(base + MapThenSumSet(Bias, biases))
    BY DEF PlcSeesTheFaults
  <2>1. Typed(plan, faults) /\ Reads(plan, faults, written, seen)
    BY DEF ReadingInv
  <2>2. ListOk
    BY <2>1, ListIsOk
  <2>3. PICK r : /\ IsReading(plan, faults, written, s, r)
                 /\ seen[s] = Truncated(r[Len(faults)])
    BY <2>1 DEF Reads
  <2>4. LET last == Max(Holding(s) \cup {0})
            base == IF last = 0 THEN written[s] ELSE Hold(last)
            biases == {i \in On(s) : i > last}
        IN  r[Len(faults)] = base + MapThenSumSet(Bias, biases)
    BY <2>1, <2>2, <2>3, ReadingIsSum DEF ListOk
  <2> QED
    BY ONLY <2>3, <2>4, Zenon
<1> QED
  BY <1>1, DriftInvariant, ReadingInvariant, PTL
=============================================================================
