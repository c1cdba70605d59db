--------------------------- MODULE LibraryProofs ----------------------------
(***************************************************************************)
(* The instruction blocks, the plant components and the register codec,    *)
(* for every preset, gain, dead time and scaling and histories of any      *)
(* length.                                                                 *)
(***************************************************************************)
EXTENDS InstructionBlocks, PlantComponents, RegisterCodec,
        SequenceTheorems, FiniteSetTheorems, TLAPS

Inputs == [in : BOOLEAN, reset : BOOLEAN]

\* What one more element adds to a history.
LEMMA OneMore ==
    ASSUME NEW S, NEW h \in Seq(S), NEW x \in S, NEW g, g = Append(h, x)
    PROVE  /\ Len(h) \in Nat /\ DOMAIN h = 1 .. Len(h)
           /\ Len(g) = Len(h) + 1 /\ DOMAIN g = 1 .. Len(h) + 1
           /\ g \in Seq(S)
           /\ \A i \in 1 .. Len(h) : g[i] = h[i]
           /\ g[Len(h) + 1] = x
           /\ g # <<>>
           /\ h = <<>> <=> Len(h) = 0
  BY AppendProperties, LenProperties, EmptySeq

LEMMA Products ==
    ASSUME NEW n \in Nat, NEW d \in Nat \ {0}
    PROVE  /\ (n + 1) * d = n * d + d /\ n * d \in Nat
           /\ \A m \in Nat : m <= n => m * d <= n * d
           /\ 0 * d = 0
  OBVIOUS

HistoryOK == history \in Seq(Inputs)

LEMMA HistoryInvariant == BlockSpec => []HistoryOK
<1>1. BlockInit => HistoryOK
  BY EmptySeq DEF BlockInit, HistoryOK
<1>2. HistoryOK /\ [BlockNext]_blockVars => HistoryOK'
  <2> SUFFICES ASSUME HistoryOK, [BlockNext]_blockVars PROVE HistoryOK'
    OBVIOUS
  <2>1. CASE \E in, reset \in BOOLEAN : Call(in, reset)
    <3>1. PICK in \in BOOLEAN, reset \in BOOLEAN :
             history' = Append(history, [in |-> in, reset |-> reset])
      BY <2>1 DEF Call
    <3>2. [in |-> in, reset |-> reset] \in Inputs
      BY DEF Inputs
    <3> QED
      BY <3>1, <3>2, AppendProperties DEF HistoryOK
  <2>2. CASE CallsEnd \/ UNCHANGED blockVars
    BY <2>2 DEF CallsEnd, blockVars, HistoryOK
  <2> QED
    BY <2>1, <2>2 DEF BlockNext
<1> QED
  BY <1>1, <1>2, PTL DEF BlockSpec

-----------------------------------------------------------------------------
\* A TON after a run of n calls with the input on, and one call more.
LEMMA TonStep ==
    ASSUME NEW t, NEW n \in Nat, NEW in \in BOOLEAN,
           t.elapsed = Smaller(Preset, n * Dt), t.q \in BOOLEAN,
           t.q <=> n > 0 /\ n * Dt >= Preset
    PROVE  LET u == TON(t, Preset, in, Dt)
               m == IF in THEN n + 1 ELSE 0
           IN  /\ u.elapsed = Smaller(Preset, m * Dt) /\ u.q \in BOOLEAN
               /\ u.q <=> m > 0 /\ m * Dt >= Preset
<1>1. Preset \in Nat /\ Dt \in Nat \ {0}
  BY BlockAssumption
<1>2. (n + 1) * Dt = n * Dt + Dt /\ n * Dt \in Nat /\ 0 * Dt = 0
  BY <1>1, Products
<1>3. CASE in
  <2> DEFINE elapsed == Smaller(Preset, t.elapsed + Dt)
             on == t.q \/ elapsed >= Preset
  <2>1. elapsed = Smaller(Preset, (n + 1) * Dt) /\ elapsed \in Nat
    BY <1>1, <1>2 DEF Smaller
  <2>2. on <=> n + 1 > 0 /\ (n + 1) * Dt >= Preset
    BY <1>1, <1>2, <2>1 DEF Smaller
  <2>3. on \in BOOLEAN
    OBVIOUS
  <2>4. TON(t, Preset, in, Dt) = [elapsed |-> elapsed, q |-> on]
    BY <1>3 DEF TON
  <2> HIDE DEF elapsed, on
  <2>5. TON(t, Preset, in, Dt).elapsed = elapsed /\ TON(t, Preset, in, Dt).q = on
    BY <2>4
  <2> QED
    BY <1>3, <2>1, <2>2, <2>3, <2>5
<1>4. CASE ~in
  BY <1>1, <1>2, <1>4 DEF TON, IdleTimer, Smaller
<1> QED
  BY <1>3, <1>4

\* A TOF whose input was last on m calls ago, and one call more.
LEMMA TofStep ==
    ASSUME NEW t, NEW m \in Nat, NEW in \in BOOLEAN, NEW ever \in BOOLEAN,
           t.q \in BOOLEAN, t.q <=> ever /\ (m * Dt < Preset \/ m = 0),
           t.q => t.elapsed = m * Dt,
           NEW k, k = (IF in THEN 0 ELSE m + 1),
           NEW u, u = TOF(t, Preset, in, Dt)
    PROVE  /\ u.q \in BOOLEAN
           /\ u.q <=> (in \/ ever) /\ (k * Dt < Preset \/ k = 0)
           /\ u.q => u.elapsed = k * Dt
<1>1. Preset \in Nat /\ Dt \in Nat \ {0}
  BY BlockAssumption
<1>2. (m + 1) * Dt = m * Dt + Dt /\ m * Dt \in Nat /\ 0 * Dt = 0
  BY <1>1, Products
<1>3. CASE in
  BY <1>2, <1>3 DEF TOF
<1>4. CASE ~in /\ t.q
  <2> DEFINE elapsed == Smaller(Preset, t.elapsed + Dt)
             on == elapsed < Preset
  <2>1. on <=> (m + 1) * Dt < Preset
    BY <1>1, <1>2, <1>4 DEF Smaller
  <2>2. on => elapsed = (m + 1) * Dt
    BY <1>1, <1>2, <1>4 DEF Smaller
  <2>3. TOF(t, Preset, in, Dt) = [elapsed |-> elapsed, q |-> on]
    BY <1>4 DEF TOF
  <2>4. on \in BOOLEAN
    OBVIOUS
  <2> HIDE DEF elapsed, on
  <2>5. /\ TOF(t, Preset, in, Dt).elapsed = elapsed
        /\ TOF(t, Preset, in, Dt).q = on
    BY <2>3
  <2>6. m + 1 # 0
    OBVIOUS
  <2> QED
    BY <1>4, <2>1, <2>2, <2>4, <2>5, <2>6
<1>5. CASE ~in /\ ~t.q
  <2>1. TOF(t, Preset, in, Dt) = t
    BY <1>5 DEF TOF
  <2>2. ever => m * Dt >= Preset /\ (m + 1) * Dt >= Preset
    BY <1>1, <1>2, <1>5
  <2> QED
    BY <1>1, <1>2, <1>5, <2>1, <2>2
<1> QED
  BY <1>3, <1>4, <1>5

\* The two timers, their histories and one call more.
LEMMA TimersInvariant == BlockSpec => []TimersInv
<1>0. Preset \in Nat /\ Dt \in Nat \ {0}
  BY BlockAssumption
<1>1. BlockInit => TimersInv
  <2> SUFFICES ASSUME BlockInit PROVE TimersInv
    OBVIOUS
  <2>1. history = <<>> /\ Len(history) = 0 /\ Calls = {} /\ 0 \in 0 .. Len(history)
    BY DEF BlockInit, Calls
  <2>2. /\ ton.q = FALSE /\ tof.q = FALSE /\ ton.elapsed = 0
    BY DEF BlockInit, IdleTimer
  <2>3. OnFor(0) /\ LastOn(0)
    BY <2>1 DEF OnFor, HeldFor, LastOn
  <2>4. 0 = Smaller(Preset, 0 * Dt)
    BY <1>0 DEF Smaller
  <2>5. \E n \in 0 .. Len(history) :
           /\ OnFor(n)
           /\ ton.elapsed = Smaller(Preset, n * Dt)
           /\ ton.q <=> n > 0 /\ n * Dt >= Preset
    BY <2>1, <2>2, <2>3, <2>4
  <2>6. \E i \in 0 .. Len(history) :
           /\ LastOn(i)
           /\ tof.q <=> i > 0 /\ ((Len(history) - i) * Dt < Preset \/ i = Len(history))
           /\ tof.q => tof.elapsed = (Len(history) - i) * Dt
    BY <2>1, <2>2, <2>3
  <2> QED
    BY <2>2, <2>5, <2>6 DEF TimersInv
<1>2. HistoryOK /\ TimersInv /\ [BlockNext]_blockVars => TimersInv'
  <2> SUFFICES ASSUME HistoryOK, TimersInv, [BlockNext]_blockVars PROVE TimersInv'
    OBVIOUS
  <2>1. CASE \E in, reset \in BOOLEAN : Call(in, reset)
    <3> PICK in \in BOOLEAN, reset \in BOOLEAN : Call(in, reset)
      BY <2>1
    <3> PICK len : len = Len(history)
      OBVIOUS
    <3> DEFINE entry == [in |-> in, reset |-> reset]
    <3>0. entry \in Inputs /\ entry.in = in
      BY DEF Inputs
    <3> HIDE DEF entry
    <3>1. /\ len \in Nat /\ Len(history') = len + 1
          /\ \A i \in 1 .. len : history'[i] = history[i]
          /\ history'[len + 1] = entry
          /\ Calls = 1 .. len /\ Calls' = 1 .. len + 1
      BY <3>0, OneMore DEF Call, entry, HistoryOK, Calls
    <3>2. /\ ton' = TON(ton, Preset, in, Dt)
          /\ tof' = TOF(tof, Preset, in, Dt)
      BY DEF Call
    <3>3. \E n \in 0 .. Len(history)' :
             /\ OnFor(n)'
             /\ ton'.elapsed = Smaller(Preset, n * Dt)
             /\ ton'.q \in BOOLEAN
             /\ ton'.q <=> n > 0 /\ n * Dt >= Preset
      <4> PICK n \in 0 .. len : /\ OnFor(n)
                                /\ ton.elapsed = Smaller(Preset, n * Dt)
                                /\ ton.q <=> n > 0 /\ n * Dt >= Preset
        BY DEF TimersInv
      <4> DEFINE m == IF in THEN n + 1 ELSE 0
      <4>1. m \in 0 .. len + 1
        BY <3>1
      <4>2. /\ ton'.elapsed = Smaller(Preset, m * Dt) /\ ton'.q \in BOOLEAN
            /\ ton'.q <=> m > 0 /\ m * Dt >= Preset
        <5> PICK t : t = ton
          OBVIOUS
        <5>1. n \in Nat
          BY <3>1
        <5>2. t.q \in BOOLEAN
          BY DEF TimersInv
        <5>3. t.elapsed = Smaller(Preset, n * Dt)
          OBVIOUS
        <5>4. t.q <=> n > 0 /\ n * Dt >= Preset
          OBVIOUS
        <5>5. /\ TON(t, Preset, in, Dt).elapsed = Smaller(Preset, m * Dt)
              /\ TON(t, Preset, in, Dt).q \in BOOLEAN
              /\ TON(t, Preset, in, Dt).q <=> m > 0 /\ m * Dt >= Preset
          BY <5>1, <5>2, <5>3, <5>4, TonStep
        <5> QED
          BY <5>5, <3>2
      <4>3. OnFor(m)'
        <5>1. n <= len /\ (\A i \in 1 .. len : i > len - n => history[i].in)
              /\ (n < len => ~history[len - n].in)
          BY <3>1 DEF OnFor, HeldFor
        <5>2. CASE in
          <6>1. ASSUME NEW i \in 1 .. len + 1, i > (len + 1) - (n + 1)
                PROVE  history'[i].in
            <7>1. CASE i = len + 1
              BY <7>1, <5>2, <3>0, <3>1
            <7>2. CASE i # len + 1
              <8>1. i \in 1 .. len /\ i > len - n
                BY <6>1, <7>2, <3>1
              <8> QED
                BY <8>1, <5>1, <3>1
            <7> QED
              BY <7>1, <7>2
          <6>2. n + 1 < len + 1 => ~history'[(len + 1) - (n + 1)].in
            BY <5>1, <3>1
          <6> QED
            BY <5>1, <5>2, <6>1, <6>2, <3>1 DEF OnFor, HeldFor
        <5>3. CASE ~in
          BY <5>3, <3>0, <3>1 DEF OnFor, HeldFor
        <5> QED
          BY <5>2, <5>3
      <4> HIDE DEF m
      <4> QED
        BY <4>1, <4>2, <4>3, <3>1
    <3>4. \E i \in 0 .. Len(history)' :
             /\ LastOn(i)'
             /\ tof'.q \in BOOLEAN
             /\ tof'.q <=> i > 0 /\ ((Len(history)' - i) * Dt < Preset \/ i = Len(history)')
             /\ tof'.q => tof'.elapsed = (Len(history)' - i) * Dt
      <4> PICK i \in 0 .. len :
             /\ LastOn(i)
             /\ tof.q <=> i > 0 /\ ((len - i) * Dt < Preset \/ i = len)
             /\ tof.q => tof.elapsed = (len - i) * Dt
        BY DEF TimersInv
      <4> DEFINE m == len - i
                 ever == i > 0
                 k == IF in THEN 0 ELSE m + 1
                 j == IF in THEN len + 1 ELSE i
      <4>1. /\ j \in 0 .. len + 1 /\ m \in Nat /\ (i = len <=> m = 0)
            /\ (len + 1) - j = k /\ (j = len + 1 <=> k = 0)
            /\ (j > 0 <=> in \/ ever) /\ ever \in BOOLEAN
        BY <3>1
      <4>2. tof.q \in BOOLEAN
        BY DEF TimersInv
      <4>3. LastOn(j)'
        <5>1. (i > 0 => history[i].in) /\ \A c \in 1 .. len : c > i => ~history[c].in
          BY <3>1 DEF LastOn
        <5>2. CASE in
          <6>1. history'[len + 1].in
            BY <5>2, <3>0, <3>1
          <6>2. \A c \in 1 .. len + 1 : ~(c > len + 1)
            BY <3>1
          <6> QED
            BY <5>2, <6>1, <6>2, <3>1 DEF LastOn
        <5>3. CASE ~in
          <6>1. i > 0 => history'[i].in
            BY <5>1, <3>1
          <6>2. \A c \in 1 .. len + 1 : c > i => ~history'[c].in
            BY <5>1, <5>3, <3>0, <3>1
          <6> QED
            BY <5>3, <6>1, <6>2, <3>1 DEF LastOn
        <5> QED
          BY <5>2, <5>3
      <4>4. tof.q <=> ever /\ (m * Dt < Preset \/ m = 0)
        BY <4>1
      <4>5. tof.q => tof.elapsed = m * Dt
        OBVIOUS
      <4> HIDE DEF m, ever, k, j
      <4>6. /\ tof'.q \in BOOLEAN
            /\ tof'.q <=> (in \/ ever) /\ (k * Dt < Preset \/ k = 0)
            /\ tof'.q => tof'.elapsed = k * Dt
        <5> PICK t : t = tof
          OBVIOUS
        <5> PICK u : u = tof'
          OBVIOUS
        <5>1. t.q \in BOOLEAN
          BY <4>2
        <5>2. t.q <=> ever /\ (m * Dt < Preset \/ m = 0)
          BY <4>4
        <5>3. t.q => t.elapsed = m * Dt
          BY <4>5
        <5>4. m \in Nat /\ ever \in BOOLEAN
          BY <4>1
        <5>5. k = IF in THEN 0 ELSE m + 1
          BY DEF k
        <5>6. u = TOF(t, Preset, in, Dt)
          BY <3>2
        <5>7. /\ u.q \in BOOLEAN
              /\ u.q <=> (in \/ ever) /\ (k * Dt < Preset \/ k = 0)
              /\ u.q => u.elapsed = k * Dt
          BY <5>1, <5>2, <5>3, <5>4, <5>5, <5>6, TofStep
        <5> QED
          BY <5>7
      <4> QED
        BY <4>1, <4>3, <4>6, <3>1
    <3> QED
      BY <3>3, <3>4 DEF TimersInv
  <2>2. CASE CallsEnd \/ UNCHANGED blockVars
    <3>1. UNCHANGED <<ton, tof, history>>
      BY <2>2 DEF CallsEnd, blockVars
    <3> QED
      BY <3>1 DEF TimersInv, OnFor, HeldFor, LastOn, Calls
  <2> QED
    BY <2>1, <2>2 DEF BlockNext
<1> QED
  BY <1>1, <1>2, HistoryInvariant, PTL DEF BlockSpec

\* The on-delay and the off-delay timer are delays of their input: for every
\* preset and scan period and any sequence of calls, no pulses add up and no
\* output comes a scan early or late.
THEOREM TimersAreExact == BlockSpec => []TimersAreDelays
<1>0. Preset \in Nat /\ Dt \in Nat \ {0}
  BY BlockAssumption
<1>1. HistoryOK /\ TimersInv => TimersAreDelays
  <2> SUFFICES ASSUME HistoryOK, TimersInv PROVE TimersAreDelays
    OBVIOUS
  <2> PICK len : len = Len(history)
    OBVIOUS
  <2>0. len \in Nat /\ Calls = 1 .. len
    BY LenProperties DEF HistoryOK, Calls
  <2>1. ton.q <=> \E n \in Calls : n * Dt >= Preset /\ HeldFor(n)
    <3> PICK n \in 0 .. len : OnFor(n) /\ (ton.q <=> n > 0 /\ n * Dt >= Preset)
      BY DEF TimersInv
    <3>1. ton.q => \E m \in Calls : m * Dt >= Preset /\ HeldFor(m)
      BY <2>0 DEF OnFor
    <3>2. ASSUME NEW m \in Calls, m * Dt >= Preset, HeldFor(m) PROVE ton.q
      <4>1. m <= n
        <5>1. CASE n < len
          <6>1. ~history[len - n].in /\ len - n \in Calls
            BY <5>1, <2>0 DEF OnFor
          <6>2. ~(len - n > len - m)
            BY <3>2, <6>1 DEF HeldFor
          <6> QED
            BY <6>2, <2>0
        <5>2. CASE n = len
          BY <5>2, <2>0
        <5> QED
          BY <5>1, <5>2, <2>0
      <4>2. m * Dt <= n * Dt /\ m * Dt \in Nat /\ n * Dt \in Nat
        BY <4>1, <2>0, <1>0, Products
      <4> QED
        BY <3>2, <4>1, <4>2, <2>0, <1>0
    <3> QED
      BY <3>1, <3>2
  <2>2. tof.q <=> \E i \in Calls :
                     history[i].in /\ ((len - i) * Dt < Preset \/ i = len)
    <3> PICK i \in 0 .. len :
           LastOn(i) /\ (tof.q <=> i > 0 /\ ((len - i) * Dt < Preset \/ i = len))
      BY DEF TimersInv
    <3>1. tof.q => \E c \in Calls :
                      history[c].in /\ ((len - c) * Dt < Preset \/ c = len)
      BY <2>0 DEF LastOn
    <3>2. ASSUME NEW c \in Calls, history[c].in, (len - c) * Dt < Preset \/ c = len
          PROVE  tof.q
      <4>1. c <= i
        BY <3>2, <2>0 DEF LastOn
      <4>2. /\ (len - i) * Dt <= (len - c) * Dt
            /\ (len - i) * Dt \in Nat /\ (len - c) * Dt \in Nat
        BY <4>1, <2>0, <1>0, Products
      <4>3. (len - i) * Dt < Preset \/ i = len
        BY <4>1, <4>2, <3>2, <2>0, <1>0
      <4> QED
        BY <4>1, <4>3, <2>0
    <3> QED
      BY <3>1, <3>2
  <2> QED
    BY <2>1, <2>2 DEF TimersAreDelays
<1> QED
  BY <1>1, TimersInvariant, HistoryInvariant, PTL

-----------------------------------------------------------------------------
\* The counter and the one-shot, their history and one call more.
LEMMA RisesInvariant == BlockSpec => []RisesInv
<1>1. BlockInit => RisesInv
  <2> SUFFICES ASSUME BlockInit PROVE RisesInv
    OBVIOUS
  <2>1. history = <<>> /\ Counted = {}
    BY DEF BlockInit, Calls, Counted
  <2>2. /\ ctu.count = 0 /\ ctu.prev = FALSE /\ edge = FALSE /\ ons = FALSE
    BY DEF BlockInit, IdleCounter
  <2>3. Cardinality({}) = 0
    BY FS_EmptySet
  <2> QED
    BY <2>1, <2>2, <2>3 DEF RisesInv, RisesAreSeenOnce
<1>2. HistoryOK /\ RisesInv /\ [BlockNext]_blockVars => RisesInv'
  <2> SUFFICES ASSUME HistoryOK, RisesInv, [BlockNext]_blockVars PROVE RisesInv'
    OBVIOUS
  <2>1. CASE \E in, reset \in BOOLEAN : Call(in, reset)
    <3> PICK in \in BOOLEAN, reset \in BOOLEAN : Call(in, reset)
      BY <2>1
    <3> PICK len : len = Len(history)
      OBVIOUS
    <3> PICK before : before = (history # <<>> /\ history[Len(history)].in)
      OBVIOUS
    <3> DEFINE entry == [in |-> in, reset |-> reset]
    <3>0. entry \in Inputs /\ entry.in = in /\ entry.reset = reset
      BY DEF Inputs
    <3> HIDE DEF entry
    <3>1. /\ len \in Nat /\ Len(history') = len + 1
          /\ \A i \in 1 .. len : history'[i] = history[i]
          /\ history'[len + 1] = entry
          /\ Calls = 1 .. len /\ Calls' = 1 .. len + 1
          /\ history' # <<>> /\ (history = <<>> <=> len = 0)
      BY <3>0, OneMore DEF Call, entry, HistoryOK, Calls
    <3>2. /\ ctu' = CTU(ctu, CountPreset, in, reset)
          /\ edge' = ONS(ons, in) /\ ons' = in
      BY DEF Call
    <3>3. /\ before \in BOOLEAN /\ (ctu.prev <=> before) /\ (ons <=> before)
      BY DEF RisesInv
    <3>4. /\ ctu'.count = (IF reset THEN 0
                           ELSE IF in /\ ~before THEN ctu.count + 1 ELSE ctu.count)
          /\ ctu'.prev = in /\ ons' = in /\ (edge' <=> in /\ ~before)
      <4>1. ctu'.prev = in /\ ons' = in
        BY <3>2 DEF CTU
      <4>2. ctu'.count = IF reset THEN 0
                         ELSE IF in /\ ~ctu.prev THEN ctu.count + 1 ELSE ctu.count
        BY <3>2 DEF CTU
      <4>3. edge' <=> in /\ ~ons
        BY <3>2 DEF ONS
      <4> QED
        BY <4>1, <4>2, <4>3, <3>3
    <3>5. Rise(len + 1)' <=> in /\ ~before
      <4>1. history'[len + 1].in <=> in
        BY <3>0, <3>1
      <4>2. len + 1 = 1 <=> history = <<>>
        BY <3>1
      <4>3. len # 0 => history'[(len + 1) - 1] = history[len]
        BY <3>1
      <4> QED
        BY <4>1, <4>2, <4>3, <3>1 DEF Rise
    <3>6. ASSUME NEW i \in 1 .. len PROVE Rise(i)' <=> Rise(i)
      <4>1. history'[i] = history[i] /\ (i # 1 => history'[i - 1] = history[i - 1])
        BY <3>1
      <4> QED
        BY <4>1 DEF Rise
    <3>7. Cardinality(Counted)' = ctu'.count
      <4>1. IsFiniteSet(Counted) /\ len + 1 \notin Counted
            /\ Cardinality(Counted) = ctu.count
        <5>1. Counted \subseteq 1 .. len /\ IsFiniteSet(1 .. len)
          <6>1. 1 \in Int /\ len \in Int
            BY <3>1
          <6> QED
            BY <6>1, <3>1, FS_Interval DEF Counted
        <5>2. len + 1 \notin 1 .. len
          BY <3>1
        <5> QED
          BY <5>1, <5>2, FS_Subset DEF RisesInv, RisesAreSeenOnce
      <4>2. CASE reset
        <5>1. len + 1 \in LastReset'
          <6>1. history'[len + 1].reset
            BY <4>2, <3>0, <3>1
          <6>2. \A j \in 1 .. len + 1 : ~(j > len + 1)
            BY <3>1
          <6>3. len + 1 \in 1 .. len + 1
            BY <3>1
          <6> QED
            BY <6>1, <6>2, <6>3, <3>1 DEF LastReset
        <5>2. \A i \in 1 .. len + 1 : ~(i > len + 1)
          BY <3>1
        <5>3. Counted' = {}
          BY <5>1, <5>2, <3>1 DEF Counted
        <5> QED
          BY <5>3, <4>2, <3>4, FS_EmptySet
      <4>3. CASE ~reset
        <5>1. ~history'[len + 1].reset
          BY <4>3, <3>0, <3>1
        <5>2. ASSUME NEW i \in 1 .. len
              PROVE  /\ i \in LastReset' <=> i \in LastReset
                     /\ i \in 1 .. len + 1
          <6>1. i \in 1 .. len + 1
            BY <3>1
          <6>2. ASSUME \A j \in 1 .. len : j > i => ~history[j].reset
                PROVE  \A j \in 1 .. len + 1 : j > i => ~history'[j].reset
            <7> TAKE j \in 1 .. len + 1
            <7>1. CASE j = len + 1
              BY <7>1, <5>1
            <7>2. CASE j # len + 1
              <8>1. j \in 1 .. len
                BY <7>2, <3>1
              <8> QED
                BY <8>1, <6>2, <3>1
            <7> QED
              BY <7>1, <7>2
          <6>3. ASSUME \A j \in 1 .. len + 1 : j > i => ~history'[j].reset
                PROVE  \A j \in 1 .. len : j > i => ~history[j].reset
            <7> TAKE j \in 1 .. len
            <7>1. j \in 1 .. len + 1
              BY <3>1
            <7> QED
              BY <7>1, <6>3, <3>1
          <6>4. history'[i] = history[i]
            BY <3>1
          <6> QED
            BY <6>1, <6>2, <6>3, <6>4, <3>1 DEF LastReset
        <5>3. len + 1 \notin LastReset' /\ len + 1 \notin 1 .. len
          BY <5>1, <3>1 DEF LastReset
        <5>4. LastReset' = LastReset /\ LastReset \subseteq 1 .. len
          <6>1. LastReset \subseteq 1 .. len /\ LastReset' \subseteq 1 .. len + 1
            BY <3>1 DEF LastReset
          <6>2. \A i \in 1 .. len + 1 : i = len + 1 \/ i \in 1 .. len
            BY <3>1
          <6> QED
            BY <6>1, <6>2, <5>2, <5>3
        <5>5. \A i \in 1 .. len : i \in Counted' <=> i \in Counted
          BY <5>2, <5>4, <3>1, <3>6 DEF Counted
        <5>6. len + 1 \in Counted' <=> in /\ ~before
          <6>1. \A r \in LastReset' : len + 1 > r
            BY <5>4, <3>1
          <6>2. len + 1 \in 1 .. len + 1
            BY <3>1
          <6> QED
            BY <6>1, <6>2, <3>1, <3>5 DEF Counted
        <5>7. Counted' = Counted \cup (IF in /\ ~before THEN {len + 1} ELSE {})
          <6>1. Counted \subseteq 1 .. len /\ Counted' \subseteq 1 .. len + 1
            BY <3>1 DEF Counted
          <6>2. \A i \in 1 .. len + 1 : i = len + 1 \/ i \in 1 .. len
            BY <3>1
          <6> QED
            BY <6>1, <6>2, <5>5, <5>6, <4>1
        <5>8. CASE in /\ ~before
          <6>1. Counted' = Counted \cup {len + 1}
            BY <5>7, <5>8
          <6>2. Cardinality(Counted') = Cardinality(Counted) + 1
            BY <6>1, <4>1, FS_AddElement
          <6> QED
            BY <6>2, <4>1, <4>3, <5>8, <3>4
        <5>9. CASE ~(in /\ ~before)
          <6>1. Counted' = Counted
            BY <5>7, <5>9
          <6> QED
            BY <6>1, <4>1, <4>3, <5>9, <3>4
        <5> QED
          BY <5>8, <5>9
      <4> QED
        BY <4>2, <4>3
    <3>8. edge' <=> Rise(len + 1)'
      BY <3>4, <3>5
    <3>9. history'[len + 1].in <=> in
      BY <3>0, <3>1
    <3> QED
      BY <3>1, <3>4, <3>7, <3>8, <3>9 DEF RisesInv, RisesAreSeenOnce, Rise
  <2>2. CASE CallsEnd \/ UNCHANGED blockVars
    <3>1. UNCHANGED <<ctu, ons, edge, history>>
      BY <2>2 DEF CallsEnd, blockVars
    <3> QED
      BY <3>1 DEF RisesInv, RisesAreSeenOnce, Counted, LastReset, Rise, Calls
  <2> QED
    BY <2>1, <2>2 DEF BlockNext
<1> QED
  BY <1>1, <1>2, HistoryInvariant, PTL DEF BlockSpec

\* Every rise since the last reset is counted once and seen by the one-shot in
\* its own call: for any history of inputs and resets.
THEOREM RisesAreExact == BlockSpec => []RisesAreSeenOnce
<1>1. RisesInv => RisesAreSeenOnce
  BY DEF RisesInv
<1> QED
  BY <1>1, RisesInvariant, PTL

-----------------------------------------------------------------------------
\* The plant components' signals and parameters.
Signals == 0 .. MaxSignal

LEMMA Parameters ==
    /\ MaxSignal \in Nat /\ Slots \in Nat /\ DeadTime \in Nat
    /\ Reach \in Nat \ {0}
    /\ On \in Int /\ Off \in Int /\ Off <= On
    /\ 0 \in Signals
  BY ComponentAssumption DEF Signals

\* A FIFO of limited length, after one sample more.
LEMMA DelayStep ==
    ASSUME DelayInv, NEW s \in Signals, StepDelay(s), steps' = Append(steps, s)
    PROVE  DelayInv'
<1> PICK len : len = Len(steps)
  OBVIOUS
<1> PICK b : b = Len(buffer)
  OBVIOUS
<1> PICK queue : queue = Append(buffer, s)
  OBVIOUS
<1>0. Slots \in Nat /\ Signals = 0 .. MaxSignal
  BY Parameters DEF Signals
<1>1. /\ len \in Nat /\ Len(steps') = len + 1
      /\ steps' \in Seq(Signals) /\ steps' # <<>>
      /\ \A i \in 1 .. len : steps'[i] = steps[i]
      /\ steps'[len + 1] = s
  BY <1>0, OneMore DEF DelayInv
<1>2. /\ b \in Nat /\ Len(queue) = b + 1 /\ queue \in Seq(Signals) /\ queue # <<>>
      /\ \A i \in 1 .. b : queue[i] = buffer[i]
      /\ queue[b + 1] = s
  BY <1>0, OneMore DEF DelayInv
<1>3. /\ b = (IF len < Slots THEN len ELSE Slots)
      /\ \A k \in 1 .. b : buffer[k] = steps[len - b + k]
  BY DEF DelayInv
<1>4. \A k \in 1 .. b + 1 : queue[k] = steps'[len - b + k]
  <2> TAKE k \in 1 .. b + 1
  <2>1. CASE k = b + 1
    BY <2>1, <1>1, <1>2, <1>3, <1>0
  <2>2. CASE k # b + 1
    <3>1. k \in 1 .. b /\ len - b + k \in 1 .. len
      BY <2>2, <1>0, <1>1, <1>2, <1>3
    <3> QED
      BY <3>1, <1>1, <1>2, <1>3
  <2> QED
    BY <2>1, <2>2
<1>5. b + 1 > Slots <=> len >= Slots
  BY <1>0, <1>1, <1>2, <1>3
<1>6. CASE len >= Slots
  <2>1. b = Slots
    BY <1>6, <1>0, <1>1, <1>3
  <2>2. delayed' = Head(queue) /\ buffer' = Tail(queue)
    BY <1>2, <1>5, <1>6 DEF StepDelay
  <2>3. /\ delayed' = queue[1] /\ Len(buffer') = b /\ buffer' \in Seq(Signals)
        /\ \A k \in 1 .. b : buffer'[k] = queue[k + 1]
    <3>1. Head(queue) = queue[1]
      BY <1>2, HeadTailProperties
    <3>2. Tail(queue) \in Seq(Signals) /\ Len(Tail(queue)) = Len(queue) - 1
      BY <1>2, HeadTailProperties
    <3>3. \A k \in 1 .. Len(queue) - 1 : Tail(queue)[k] = queue[k + 1]
      BY <1>2, HeadTailProperties
    <3>4. Len(queue) - 1 = b
      BY <1>2
    <3> QED
      BY <2>2, <3>1, <3>2, <3>3, <3>4
  <2>4. \A k \in 1 .. b : buffer'[k] = steps'[(len + 1) - b + k]
    <3> TAKE k \in 1 .. b
    <3>1. k + 1 \in 1 .. b + 1 /\ len - b + (k + 1) = (len + 1) - b + k
      BY <1>1, <1>2
    <3> QED
      BY <3>1, <2>3, <1>4
  <2>5. delayed' = steps'[(len + 1) - Slots]
    <3>1. 1 \in 1 .. b + 1 /\ len - b + 1 = (len + 1) - Slots
      BY <2>1, <1>0, <1>1, <1>2
    <3> QED
      BY <3>1, <2>3, <1>4
  <2>6. len + 1 > Slots /\ ~(len + 1 < Slots)
    BY <1>6, <1>0, <1>1
  <2>7. DelayIsExact'
    BY <2>5, <2>6, <1>1 DEF DelayIsExact
  <2> QED
    BY <2>1, <2>3, <2>4, <2>6, <2>7, <1>0, <1>1 DEF DelayInv
<1>7. CASE len < Slots
  <2>1. b = len
    BY <1>7, <1>3
  <2>2. delayed' = 0 /\ buffer' = queue
    BY <1>0, <1>1, <1>2, <1>5, <1>7 DEF StepDelay
  <2>3. \A k \in 1 .. len + 1 : buffer'[k] = steps'[(len + 1) - (len + 1) + k]
    <3> TAKE k \in 1 .. len + 1
    <3>1. len - b + k = (len + 1) - (len + 1) + k
      BY <2>1, <1>1
    <3> QED
      BY <3>1, <2>1, <2>2, <1>4
  <2>4. ~(len + 1 > Slots)
    BY <1>7, <1>0, <1>1
  <2>5. len + 1 = IF len + 1 < Slots THEN len + 1 ELSE Slots
    BY <1>7, <1>0, <1>1
  <2>6. DelayIsExact'
    BY <2>2, <2>4, <1>1 DEF DelayIsExact
  <2> QED
    BY <2>1, <2>2, <2>3, <2>5, <2>6, <1>0, <1>1, <1>2 DEF DelayInv
<1> QED
  BY <1>6, <1>7, <1>0, <1>1

\* A switch, after one sample more.
LEMMA SwitchStep ==
    ASSUME SwitchHasHysteresis, steps \in Seq(Signals), switch \in BOOLEAN,
           NEW s \in Signals, StepSwitch(s), steps' = Append(steps, s)
    PROVE  SwitchHasHysteresis' /\ switch' \in BOOLEAN
<1> PICK len : len = Len(steps)
  OBVIOUS
<1>0. /\ On \in Int /\ Off \in Int /\ Off <= On /\ s \in Int
  BY Parameters DEF Signals
<1>1. /\ len \in Nat /\ DOMAIN steps = 1 .. len /\ DOMAIN steps' = 1 .. len + 1
      /\ \A i \in 1 .. len : steps'[i] = steps[i]
      /\ steps'[len + 1] = s
  BY OneMore
<1>2. /\ switch' \in BOOLEAN
      /\ switch' <=> IF switch THEN s >= Off ELSE s >= On
  <2> DEFINE above == s >= Off
             over == s >= On
  <2>1. above \in BOOLEAN /\ over \in BOOLEAN
    OBVIOUS
  <2>2. switch' = IF switch THEN above ELSE over
    BY DEF StepSwitch
  <2> HIDE DEF above, over
  <2>3. switch' \in BOOLEAN /\ (switch' <=> IF switch THEN above ELSE over)
    BY <2>1, <2>2
  <2> QED
    BY <2>3 DEF above, over
<1>3. ASSUME switch'
      PROVE  \E i \in 1 .. len + 1 :
                steps'[i] >= On /\ \A j \in 1 .. len + 1 : j > i => steps'[j] >= Off
  <2>1. CASE s >= On
    <3>1. len + 1 \in 1 .. len + 1 /\ \A j \in 1 .. len + 1 : ~(j > len + 1)
      BY <1>1
    <3> QED
      BY <2>1, <3>1, <1>1
  <2>2. CASE ~(s >= On)
    <3>1. switch /\ s >= Off
      BY <2>2, <1>2, <1>3
    <3>2. PICK i \in 1 .. len :
             steps[i] >= On /\ \A j \in 1 .. len : j > i => steps[j] >= Off
      BY <3>1, <1>1 DEF SwitchHasHysteresis
    <3>3. ASSUME NEW j \in 1 .. len + 1, j > i PROVE steps'[j] >= Off
      <4>1. j = len + 1 \/ j \in 1 .. len
        BY <1>1
      <4> QED
        BY <4>1, <3>1, <3>2, <3>3, <1>1
    <3>4. i \in 1 .. len + 1 /\ steps'[i] >= On
      BY <3>2, <1>1
    <3> QED
      BY <3>3, <3>4
  <2> QED
    BY <2>1, <2>2
<1>4. ASSUME NEW i \in 1 .. len + 1, steps'[i] >= On,
             \A j \in 1 .. len + 1 : j > i => steps'[j] >= Off
      PROVE  switch'
  <2>1. CASE i = len + 1
    BY <2>1, <1>0, <1>1, <1>2, <1>4
  <2>2. CASE i # len + 1
    <3>1. i \in 1 .. len /\ len + 1 > i /\ len + 1 \in 1 .. len + 1
      BY <2>2, <1>1
    <3>2. s >= Off
      BY <3>1, <1>1, <1>4
    <3>3. \A j \in 1 .. len : j \in 1 .. len + 1
      BY <1>1
    <3>4. switch
      BY <3>1, <3>3, <1>1, <1>4 DEF SwitchHasHysteresis
    <3> QED
      BY <3>2, <3>4, <1>2
  <2> QED
    BY <2>1, <2>2
<1> QED
  BY <1>1, <1>2, <1>3, <1>4 DEF SwitchHasHysteresis

SignalsInv == DelayInv /\ SwitchHasHysteresis /\ switch \in BOOLEAN

\* The components that pass a signal on do it as its history says: for every
\* delay, every pair of thresholds and histories of any length.
THEOREM SignalsAreExact == ComponentSpec => []SignalsKeepTheirHistory
<1>1. ComponentInit => SignalsInv
  <2> SUFFICES ASSUME ComponentInit PROVE SignalsInv
    OBVIOUS
  <2>1. /\ buffer = <<>> /\ steps = <<>> /\ switch = FALSE
        /\ Len(buffer) = 0 /\ Len(steps) = 0 /\ DOMAIN steps = {}
    BY DEF ComponentInit
  <2>2. buffer \in Seq(0 .. MaxSignal) /\ steps \in Seq(0 .. MaxSignal)
    BY <2>1, EmptySeq
  <2>3. 0 = IF 0 < Slots THEN 0 ELSE Slots
    BY Parameters
  <2>4. DelayInv
    BY <2>1, <2>2, <2>3 DEF DelayInv, DelayIsExact
  <2> QED
    BY <2>1, <2>4 DEF SignalsInv, SwitchHasHysteresis
<1>2. SignalsInv /\ [ComponentNext]_componentVars => SignalsInv'
  <2> SUFFICES ASSUME SignalsInv, [ComponentNext]_componentVars PROVE SignalsInv'
    OBVIOUS
  <2>1. CASE \E signal, setpoint \in 0 .. MaxSignal : StepComponents(signal, setpoint)
    <3> PICK signal \in Signals, setpoint \in Signals : StepComponents(signal, setpoint)
      BY <2>1 DEF Signals
    <3>1. /\ StepDelay(signal) /\ StepSwitch(signal) /\ steps' = Append(steps, signal)
      BY DEF StepComponents
    <3>2. steps \in Seq(Signals)
      BY DEF SignalsInv, DelayInv, Signals
    <3> QED
      BY <3>1, <3>2, DelayStep, SwitchStep DEF SignalsInv
  <2>2. CASE StepsEnd \/ UNCHANGED componentVars
    <3>1. UNCHANGED <<buffer, delayed, switch, steps>>
      BY <2>2 DEF StepsEnd, componentVars
    <3> QED
      BY <3>1 DEF SignalsInv, DelayInv, DelayIsExact, SwitchHasHysteresis
  <2> QED
    BY <2>1, <2>2 DEF ComponentNext
<1>3. SignalsInv => SignalsKeepTheirHistory
  BY DEF SignalsInv, DelayInv, SignalsKeepTheirHistory
<1> QED
  BY <1>1, <1>2, <1>3, PTL DEF ComponentSpec

-----------------------------------------------------------------------------
\* A gain times something that has a sign, or a bound.
LEMMA Gains ==
    ASSUME NEW k \in Nat, NEW x \in Int
    PROVE  /\ k * x \in Int
           /\ x >= 0 => k * x >= 0
           /\ x <= 0 => k * x <= 0
           /\ \A y \in Int : x <= y => k * x <= k * y
           /\ k * (-x) = -(k * x)
<1>1. k * x \in Int
  OBVIOUS
<1>2. x >= 0 => k * x >= 0
  OBVIOUS
<1>3. x <= 0 => k * x <= 0
  OBVIOUS
<1>4. \A y \in Int : x <= y => k * x <= k * y
  OBVIOUS
<1>5. k * (-x) = -(k * x)
  OBVIOUS
<1> QED
  BY <1>1, <1>2, <1>3, <1>4, <1>5

\* What keeps the output off its clamp is within the slack.
LEMMA WithinSlack ==
    ASSUME NEW error \in Int, error <= MaxSignal, -error <= MaxSignal,
           NEW slope \in Int, slope <= MaxSignal, -slope <= MaxSignal
    PROVE  /\ Kp * error \in Int /\ Kd * slope \in Int /\ Slack \in Int
           /\ error >= 0 => Kd * slope - Kp * error <= Slack
           /\ error <= 0 => Kp * error - Kd * slope <= Slack
<1>0. MaxSignal \in Nat /\ Kp \in Int /\ Kd \in Int
  BY ComponentAssumption
<1> PICK against : against = IF Kp < 0 THEN -Kp ELSE 0
  OBVIOUS
<1> PICK size : size = Magnitude(Kd)
  OBVIOUS
<1> PICK onError, onSlope : onError = against * MaxSignal /\ onSlope = size * MaxSignal
  OBVIOUS
<1> PICK push, brake : push = Kp * error /\ brake = Kd * slope
  OBVIOUS
<1>1. against \in Nat /\ size \in Nat
  BY <1>0 DEF Magnitude
<1>2. onError \in Int /\ onError >= 0 /\ onSlope \in Int
  BY <1>0, <1>1, Gains
<1>3. Slack = onSlope + onError
  BY <1>0, <1>1 DEF Slack
<1>4. push \in Int /\ brake \in Int
  BY <1>0
<1>5. brake <= onSlope /\ -brake <= onSlope
  <2>1. size * slope <= onSlope /\ size * (-slope) <= onSlope
    BY <1>0, <1>1, Gains, -slope \in Int
  <2>2. size * slope \in Int /\ size * (-slope) = -(size * slope)
    BY <1>1, Gains
  <2>3. CASE Kd < 0
    <3>1. size = -Kd
      BY <2>3 DEF Magnitude
    <3>2. size * slope = -brake
      BY <3>1, <1>0
    <3> QED
      BY <3>2, <2>1, <2>2, <1>2, <1>4
  <2>4. CASE ~(Kd < 0)
    <3>1. size * slope = brake
      BY <2>4 DEF Magnitude
    <3> QED
      BY <3>1, <2>1, <2>2, <1>2, <1>4
  <2> QED
    BY <2>3, <2>4
<1>6. error >= 0 => -push <= onError
  <2> SUFFICES ASSUME error >= 0 PROVE -push <= onError
    OBVIOUS
  <2>1. CASE Kp < 0
    <3>1. against * error = -push
      BY <2>1, <1>0
    <3> QED
      BY <3>1, <1>0, <1>1, Gains
  <2>2. CASE ~(Kp < 0)
    <3>1. push >= 0
      BY <2>2, <1>0, Gains
    <3> QED
      BY <3>1, <1>2, <1>4
  <2> QED
    BY <2>1, <2>2
<1>7. error <= 0 => push <= onError
  <2> SUFFICES ASSUME error <= 0 PROVE push <= onError
    OBVIOUS
  <2>1. CASE Kp < 0
    <3>1. against * (-error) = push
      BY <2>1, <1>0
    <3> QED
      BY <3>1, <1>0, <1>1, Gains, -error \in Int
  <2>2. CASE ~(Kp < 0)
    <3>1. push <= 0
      BY <2>2, <1>0, Gains
    <3> QED
      BY <3>1, <1>2, <1>4
  <2> QED
    BY <2>1, <2>2
<1>8. /\ push \in Int /\ brake \in Int /\ Slack \in Int
      /\ error >= 0 => brake - push <= Slack
      /\ error <= 0 => push - brake <= Slack
  BY ONLY <1>2, <1>3, <1>4, <1>5, <1>6, <1>7
<1> QED
  BY <1>8

\* The integral after one step more.
LEMMA IntegralStep ==
    ASSUME PIDInv, NEW setpoint \in Signals, NEW process \in Signals,
           StepPID(setpoint, process)
    PROVE  PIDInv'
<1>0. MaxSignal \in Nat /\ Ki \in Int /\ OutMin \in Int /\ OutMax \in Int
  BY ComponentAssumption
<1>1. /\ setpoint \in 0 .. MaxSignal /\ process \in 0 .. MaxSignal
      /\ previous \in (0 .. MaxSignal) \cup {-1} /\ integral \in Int
  BY DEF Signals, PIDInv, NoSample
<1> PICK error : error = setpoint - process
  OBVIOUS
<1> PICK slope : slope = IF previous = NoSample THEN 0 ELSE process - previous
  OBVIOUS
<1> PICK pull, push, brake : pull = Ki * error /\ push = Kp * error /\ brake = Kd * slope
  OBVIOUS
<1> PICK bound : bound = Slack
  OBVIOUS
<1>2. /\ error \in Int /\ error <= MaxSignal /\ -error <= MaxSignal
      /\ slope \in Int /\ slope <= MaxSignal /\ -slope <= MaxSignal
  BY <1>0, <1>1 DEF NoSample
<1>3. /\ push \in Int /\ brake \in Int /\ bound \in Int
      /\ error >= 0 => brake - push <= bound
      /\ error <= 0 => push - brake <= bound
  BY <1>2, WithinSlack
<1>4. pull \in Int
  BY <1>0, <1>2
<1> DEFINE raw == push + (integral + pull) - brake
<1>5. integral' = IF Held(raw, error) THEN integral ELSE integral + pull
  BY DEF StepPID
<1>6. previous' = process /\ integral' \in Int
  BY <1>1, <1>4, <1>5 DEF StepPID
<1>7. ASSUME Ki >= 0
      PROVE  /\ integral' <= 0 \/ integral' <= OutMax + bound
             /\ integral' >= 0 \/ integral' >= OutMin - bound
  <2>1. /\ integral <= 0 \/ integral <= OutMax + bound
        /\ integral >= 0 \/ integral >= OutMin - bound
    BY <1>7 DEF PIDInv, NoWindup
  <2>2. (error >= 0 => pull >= 0) /\ (error <= 0 => pull <= 0)
    <3>1. Ki \in Nat
      BY <1>0, <1>7
    <3> QED
      BY <3>1, <1>2, Gains
  <2>3. CASE Held(raw, error)
    BY <2>3, <2>1, <1>5
  <2>4. CASE ~Held(raw, error) /\ error > 0
    <3>1. raw <= OutMax /\ integral' = integral + pull
      BY <2>4, <1>0, <1>1, <1>2, <1>3, <1>4, <1>5 DEF Held
    <3> QED
      BY <2>4, <2>1, <2>2, <3>1, <1>0, <1>1, <1>2, <1>3, <1>4
  <2>5. CASE ~Held(raw, error) /\ error < 0
    <3>1. raw >= OutMin /\ integral' = integral + pull
      BY <2>5, <1>0, <1>1, <1>2, <1>3, <1>4, <1>5 DEF Held
    <3> QED
      BY <2>5, <2>1, <2>2, <3>1, <1>0, <1>1, <1>2, <1>3, <1>4
  <2>6. CASE ~Held(raw, error) /\ error = 0
    <3>1. integral' = integral
      BY <2>6, <2>2, <1>1, <1>4, <1>5
    <3> QED
      BY <3>1, <2>1
  <2> QED
    BY <2>3, <2>4, <2>5, <2>6, <1>2
<1> QED
  BY <1>1, <1>6, <1>7 DEF PIDInv, NoWindup

\* With any proportional and derivative gain, any limits and any setpoints, an
\* integral of a gain not negative never winds up: it goes no further from its
\* start than to a limit of the output and the slack.
THEOREM IntegralIsBounded == ComponentSpec => []NoWindup
<1>1. ComponentInit => PIDInv
  BY DEF ComponentInit, PIDInv, NoWindup
<1>2. PIDInv /\ [ComponentNext]_componentVars => PIDInv'
  <2> SUFFICES ASSUME PIDInv, [ComponentNext]_componentVars PROVE PIDInv'
    OBVIOUS
  <2>1. CASE \E signal, setpoint \in 0 .. MaxSignal : StepComponents(signal, setpoint)
    BY <2>1, IntegralStep DEF StepComponents, Signals
  <2>2. CASE StepsEnd \/ UNCHANGED componentVars
    BY <2>2 DEF StepsEnd, componentVars, PIDInv, NoWindup
  <2> QED
    BY <2>1, <2>2 DEF ComponentNext
<1>3. PIDInv => NoWindup
  BY DEF PIDInv
<1> QED
  BY <1>1, <1>2, <1>3, PTL DEF ComponentSpec

-----------------------------------------------------------------------------
\* One command more makes a steady run one longer, or starts another.
LEMMA SteadyStep ==
    ASSUME NEW past \in Seq(Signals), NEW s \in Signals,
           NEW now, now = Append(past, s)
    PROVE  /\ \A n \in Nat : /\ n > 0 /\ SteadyIn(past, n) /\ s = past[Len(past)]
                                   => SteadyIn(now, n + 1)
                             /\ n > 0 /\ SteadyIn(now, n + 1)
                                   => SteadyIn(past, n) /\ s = past[Len(past)]
           /\ SteadyIn(now, 0) /\ SteadyIn(now, 1) /\ SteadyIn(past, 0)
           /\ \A n \in Nat : SteadyIn(past, n) /\ n > 0 => past # <<>>
           /\ \A n, m \in Nat : m <= n /\ SteadyIn(now, n) => SteadyIn(now, m)
<1> PICK len : len = Len(past)
  OBVIOUS
<1>1. /\ len \in Nat /\ DOMAIN past = 1 .. len /\ DOMAIN now = 1 .. len + 1
      /\ \A i \in 1 .. len : now[i] = past[i]
      /\ now[len + 1] = s /\ Len(now) = len + 1 /\ Len(past) = len
      /\ past = <<>> <=> len = 0
  BY OneMore
<1> DEFINE Was(n) == n <= len /\ \A i \in 1 .. len : i > len - n => past[i] = past[len]
           Is(n) == n <= len + 1 /\ \A i \in 1 .. len + 1 : i > len + 1 - n => now[i] = s
<1>2. \A n \in Nat : (SteadyIn(past, n) <=> Was(n)) /\ (SteadyIn(now, n) <=> Is(n))
  BY <1>1 DEF SteadyIn
<1>3. ASSUME NEW n \in Nat, n > 0, Was(n), s = past[len] PROVE Is(n + 1)
  <2>1. ASSUME NEW i \in 1 .. len + 1, i > len + 1 - (n + 1) PROVE now[i] = s
    <3>1. CASE i = len + 1
      BY <3>1, <1>1
    <3>2. CASE i # len + 1
      <4>1. i \in 1 .. len /\ i > len - n
        BY <2>1, <3>2, <1>1
      <4> QED
        BY <4>1, <1>1, <1>3
    <3> QED
      BY <3>1, <3>2
  <2>2. n + 1 <= len + 1
    BY <1>1, <1>3
  <2> QED
    BY <2>1, <2>2
<1>4. ASSUME NEW n \in Nat, n > 0, Is(n + 1) PROVE Was(n) /\ s = past[len]
  <2>1. n <= len /\ len \in 1 .. len + 1 /\ len \in 1 .. len /\ len > len + 1 - (n + 1)
    BY <1>1, <1>4
  <2>2. s = past[len]
    BY <2>1, <1>1, <1>4
  <2>3. ASSUME NEW i \in 1 .. len, i > len - n PROVE past[i] = past[len]
    <3>1. i \in 1 .. len + 1 /\ i > len + 1 - (n + 1)
      BY <2>3, <1>1
    <3> QED
      BY <3>1, <2>2, <1>1, <1>4
  <2> QED
    BY <2>1, <2>2, <2>3
<1>5. Is(0) /\ Is(1) /\ Was(0)
  <2>1. \A i \in 1 .. len + 1 : ~(i > len + 1 - 0) /\ (i > len + 1 - 1 => i = len + 1)
    BY <1>1
  <2>2. \A i \in 1 .. len : ~(i > len - 0)
    BY <1>1
  <2> QED
    BY <2>1, <2>2, <1>1
<1>6. \A n \in Nat : Was(n) /\ n > 0 => past # <<>>
  BY <1>1
<1>8. ASSUME NEW n \in Nat, NEW m \in Nat, m <= n, Is(n) PROVE Is(m)
  BY <1>1, <1>8
<1> HIDE DEF Was, Is
<1>7. \A n \in Nat : n + 1 \in Nat
  OBVIOUS
<1> QED
  BY <1>2, <1>3, <1>4, <1>5, <1>6, <1>7, <1>8

\* What a valve that travels does.
LEMMA Travel ==
    ASSUME NEW x \in Signals, NEW y \in Signals,
           NEW z, z = Clamp(x - Reach, x + Reach, y)
    PROVE  /\ z \in Signals
           /\ x = y => z = x
           /\ z = y \/ (x < y /\ x + 1 <= z /\ z < y) \/ (y < x /\ y < z /\ z + 1 <= x)
  BY Parameters DEF Clamp, Signals

\* No two signals are farther apart than the range.
LEMMA Distance ==
    ASSUME NEW x \in Signals, NEW y \in Signals
    PROVE  /\ x - y + 0 <= MaxSignal /\ y - x + 0 <= MaxSignal
           /\ x - y + MaxSignal <= MaxSignal /\ y - x + MaxSignal <= MaxSignal => x = y
  BY Parameters DEF Signals

\* The valve, its commands and one more of them.
LEMMA ValveStep ==
    ASSUME ValveInv, NEW s \in Signals, StepValve(s), steps' = Append(steps, s)
    PROVE  /\ ValveInv'
           /\ position' # position => Steady(DeadTime + 1)'
           /\ Steady(DeadTime + MaxSignal)' => position' = target'
<1> PICK past : past = steps
  OBVIOUS
<1> PICK now : now = steps'
  OBVIOUS
<1> PICK after : after = left'
  OBVIOUS
<1>0. DeadTime \in Nat /\ MaxSignal \in Nat /\ Signals = 0 .. MaxSignal
  BY Parameters DEF Signals
<1>1. /\ past \in Seq(Signals) /\ position \in Signals /\ target \in Signals
      /\ left \in 0 .. DeadTime
      /\ past = <<>> => position = 0 /\ target = 0 /\ left = 0
      /\ past # <<>> => target = past[Len(past)]
  BY <1>0 DEF ValveInv
<1>2. /\ now \in Seq(Signals) /\ now # <<>> /\ now[Len(now)] = s
  BY <1>1, OneMore
<1>3. /\ \A n \in Nat : /\ n > 0 /\ SteadyIn(past, n) /\ s = past[Len(past)]
                              => SteadyIn(now, n + 1)
                        /\ n > 0 /\ SteadyIn(now, n + 1)
                              => SteadyIn(past, n) /\ s = past[Len(past)]
      /\ SteadyIn(now, 0) /\ SteadyIn(now, 1) /\ SteadyIn(past, 0)
      /\ \A n \in Nat : SteadyIn(past, n) /\ n > 0 => past # <<>>
      /\ \A n, m \in Nat : m <= n /\ SteadyIn(now, n) => SteadyIn(now, m)
  BY <1>1, SteadyStep
<1>4. /\ \/ left = 0 /\ position = target
         \/ SteadyIn(past, DeadTime - left)
      /\ left > 0 => ~SteadyIn(past, DeadTime - left + 1)
  BY DEF ValveInv, Steady
<1>5. ASSUME NEW k \in 0 .. MaxSignal, SteadyIn(past, DeadTime + k)
      PROVE  \/ position = target
             \/ position - target + k <= MaxSignal /\ target - position + k <= MaxSignal
  BY <1>5 DEF ValveInv, Steady
<1> PICK wait : wait = DeadTimeLeft(s)
  OBVIOUS
<1>6. /\ wait \in 0 .. DeadTime
      /\ s # target => wait = DeadTime
      /\ s = target => wait = left
  BY <1>0, <1>1 DEF DeadTimeLeft
<1>7. /\ target' = s
      /\ after = IF wait > 0 THEN wait - 1 ELSE 0
      /\ wait > 0 => position' = position
      /\ wait = 0 => position' = Clamp(position - Reach, position + Reach, s)
  BY <1>6, <1>0 DEF StepValve
<1>8. /\ position' \in Signals
      /\ wait = 0 =>
            /\ position = s => position' = position
            /\ \/ position' = s
               \/ position < s /\ position + 1 <= position' /\ position' < s
               \/ s < position /\ s < position' /\ position' + 1 <= position
  <2>1. CASE wait > 0
    BY <2>1, <1>1, <1>6, <1>7, <1>0
  <2>2. CASE wait = 0
    <3> PICK z : z = position'
      OBVIOUS
    <3>1. /\ z \in Signals
          /\ position = s => z = position
          /\ \/ z = s
             \/ position < s /\ position + 1 <= z /\ z < s
             \/ s < position /\ s < z /\ z + 1 <= position
      BY <2>2, <1>1, <1>7, Travel
    <3> QED
      BY <3>1
  <2> QED
    BY <2>1, <2>2, <1>0, <1>6
<1>9. after \in 0 .. DeadTime
  BY <1>0, <1>6, <1>7
<1>10. /\ \/ wait = 0 /\ position = s
          \/ SteadyIn(now, DeadTime - wait + 1)
       /\ wait > 0 => ~SteadyIn(now, DeadTime - wait + 2)
  <2>1. CASE s # target
    <3>1. DeadTime - wait + 1 = 1 /\ DeadTime - wait + 2 = 1 + 1
      BY <2>1, <1>0, <1>6
    <3>2. ~SteadyIn(now, 1 + 1)
      BY <2>1, <1>1, <1>3
    <3> QED
      BY <3>1, <3>2, <1>3
  <2>2. CASE s = target /\ past = <<>>
    <3>1. wait = 0 /\ position = s
      BY <2>2, <1>1, <1>6
    <3> QED
      BY <3>1
  <2>3. CASE s = target /\ past # <<>>
    <3>1. wait = left /\ s = past[Len(past)]
      BY <2>3, <1>1, <1>6
    <3>2. DeadTime - left \in Nat
      BY <1>0, <1>1
    <3>3. SteadyIn(past, DeadTime - left) => SteadyIn(now, DeadTime - left + 1)
      BY <3>1, <3>2, <1>3
    <3>4. left > 0 => ~SteadyIn(now, (DeadTime - left + 1) + 1)
      <4>1. DeadTime - left + 1 \in Nat /\ DeadTime - left + 1 > 0
        BY <3>2
      <4> QED
        BY <4>1, <1>3, <1>4
    <3>5. (DeadTime - left + 1) + 1 = DeadTime - wait + 2
      BY <3>1, <1>0, <1>1
    <3> QED
      BY <3>1, <3>3, <3>4, <3>5, <1>4, <2>3
  <2> QED
    BY <2>1, <2>2, <2>3
<1>11. wait > 0 => after = wait - 1 /\ DeadTime - after = DeadTime - wait + 1
  BY <1>7, <1>0, <1>6
<1>12. /\ \/ after = 0 /\ position' = target'
          \/ SteadyIn(now, DeadTime - after)
       /\ after > 0 => ~SteadyIn(now, DeadTime - after + 1)
  <2>1. CASE wait > 0
    <3>1. DeadTime - after + 1 = DeadTime - wait + 2
      BY <2>1, <1>11, <1>0, <1>6
    <3> QED
      BY <2>1, <3>1, <1>10, <1>11
  <2>2. CASE wait = 0 /\ position = s
    <3>1. after = 0 /\ position' = target'
      BY <2>2, <1>7, <1>8
    <3> QED
      BY <3>1
  <2>3. CASE wait = 0 /\ position # s
    <3>1. after = 0 /\ SteadyIn(now, DeadTime - 0 + 1)
      BY <2>3, <1>7, <1>10
    <3>2. SteadyIn(now, DeadTime + 1) => SteadyIn(now, DeadTime)
      BY <1>0, <1>3
    <3> QED
      BY <3>1, <3>2, <1>0
  <2> QED
    BY <2>1, <2>2, <2>3, <1>0, <1>6
<1>13. position' # position => SteadyIn(now, DeadTime + 1)
  <2>1. position' # position => wait = 0 /\ position # s
    BY <1>0, <1>6, <1>7, <1>8
  <2>2. wait = 0 => DeadTime - wait + 1 = DeadTime + 1
    BY <1>0
  <2> QED
    BY <2>1, <2>2, <1>10
<1>14. ASSUME NEW k \in 0 .. MaxSignal, SteadyIn(now, DeadTime + k)
       PROVE  \/ position' = target'
              \/ position' - target' + k <= MaxSignal /\ target' - position' + k <= MaxSignal
  <2> PICK z : z = position'
    OBVIOUS
  <2>0. z \in Signals /\ target' = s
    BY <1>7, <1>8
  <2>1. CASE k = 0
    <3>1. z - s + 0 <= MaxSignal /\ s - z + 0 <= MaxSignal
      BY <2>0, Distance
    <3> QED
      BY <2>0, <2>1, <3>1
  <2>2. CASE k > 0
    <3>1. wait = 0
      <4>2. wait > 0 => /\ DeadTime - wait + 2 \in Nat /\ DeadTime - wait + 2 > 0
                        /\ DeadTime - wait + 2 <= DeadTime + k
        BY <2>2, <1>0, <1>6
      <4>3. DeadTime + k \in Nat
        BY <1>0
      <4> QED
        BY <4>2, <4>3, <1>3, <1>10, <1>14, <1>0, <1>6
    <3>2. \/ position = s
          \/ position - s + (k - 1) <= MaxSignal /\ s - position + (k - 1) <= MaxSignal
      <4>1. CASE DeadTime + k = 1
        BY <4>1, <2>2, <1>0, <1>1
      <4>2. CASE DeadTime + k > 1
        <5>1. DeadTime + (k - 1) \in Nat /\ DeadTime + (k - 1) > 0
              /\ (DeadTime + (k - 1)) + 1 = DeadTime + k
          BY <4>2, <2>2, <1>0
        <5>2. SteadyIn(past, DeadTime + (k - 1)) /\ s = past[Len(past)]
          BY <5>1, <1>3, <1>14
        <5>3. s = target
          BY <5>1, <5>2, <1>1, <1>3
        <5>4. k - 1 \in 0 .. MaxSignal
          BY <2>2, <1>0
        <5> QED
          BY <5>2, <5>3, <5>4, <1>5
      <4> QED
        BY <4>1, <4>2, <2>2, <1>0
    <3> QED
      BY <3>1, <3>2, <1>0, <1>1, <1>7, <1>8, <2>2
  <2> QED
    BY <2>1, <2>2, <1>0
<1>15. SteadyIn(now, DeadTime + MaxSignal) => position' = target'
  <2> SUFFICES ASSUME SteadyIn(now, DeadTime + MaxSignal) PROVE position' = target'
    OBVIOUS
  <2> PICK z : z = position'
    OBVIOUS
  <2>0. z \in Signals /\ target' = s
    BY <1>7, <1>8
  <2>1. MaxSignal \in 0 .. MaxSignal
    BY <1>0
  <2>2. z = s \/ (z - s + MaxSignal <= MaxSignal /\ s - z + MaxSignal <= MaxSignal)
    BY <2>0, <2>1, <1>14
  <2>3. z = s
    BY <2>0, <2>2, Distance
  <2> QED
    BY <2>0, <2>3
<1> QED
  BY <1>0, <1>2, <1>7, <1>8, <1>9, <1>12, <1>13, <1>14, <1>15 DEF ValveInv, Steady

\* The valve moves on a steady command alone and gets there: for every dead
\* time and reach, whatever the commands.
THEOREM ValveIsPatient == ComponentSpec => ValveTravelsWhenSteady
<1>1. ComponentInit => ValveInv
  <2> SUFFICES ASSUME ComponentInit PROVE ValveInv
    OBVIOUS
  <2>1. steps = <<>> /\ position = 0 /\ target = 0 /\ left = 0 /\ Len(steps) = 0
    BY DEF ComponentInit
  <2>2. steps \in Seq(0 .. MaxSignal)
    BY <2>1, EmptySeq
  <2> QED
    BY <2>1, <2>2, Parameters DEF ValveInv, Signals
<1>2. ValveInv /\ [ComponentNext]_componentVars
        => /\ ValveInv'
           /\ position' # position => Steady(DeadTime + 1)'
           /\ Steady(DeadTime + MaxSignal)' /\ ComponentNext
                 => position' = target' \/ UNCHANGED componentVars
  <2> SUFFICES ASSUME ValveInv, [ComponentNext]_componentVars
               PROVE  /\ ValveInv'
                      /\ position' # position => Steady(DeadTime + 1)'
                      /\ Steady(DeadTime + MaxSignal)' /\ ComponentNext
                            => position' = target' \/ UNCHANGED componentVars
    OBVIOUS
  <2>1. CASE \E signal, setpoint \in 0 .. MaxSignal : StepComponents(signal, setpoint)
    BY <2>1, ValveStep DEF StepComponents, Signals
  <2>2. CASE StepsEnd \/ UNCHANGED componentVars
    <3>1. UNCHANGED componentVars
      BY <2>2 DEF StepsEnd
    <3> QED
      BY <3>1 DEF componentVars, ValveInv, Steady
  <2> QED
    BY <2>1, <2>2 DEF ComponentNext
<1>3. ValveInv /\ [ComponentNext]_componentVars
        => [/\ position' # position => Steady(DeadTime + 1)'
            /\ Steady(DeadTime + MaxSignal)' => position' = target']_componentVars
  BY <1>2
<1> QED
  BY <1>1, <1>2, <1>3, PTL DEF ComponentSpec, ValveTravelsWhenSteady

-----------------------------------------------------------------------------
(***************************************************************************)
(* The register codec.                                                     *)
(***************************************************************************)

\* Quotients and remainders.
LEMMA Division ==
    ASSUME NEW n \in Int, NEW d \in Nat \ {0}
    PROVE  /\ n = ((n \div d) * d) + (n % d)
           /\ n \div d \in Int /\ n % d \in 0 .. (d - 1)
  OBVIOUS

LEMMA Quotient ==
    ASSUME NEW q \in Int, NEW d \in Nat \ {0}, NEW r \in 0 .. (d - 1)
    PROVE  ((q * d) + r) \div d = q /\ ((q * d) + r) % d = r
<1>1. ((q * d) + r) \div d = q
  BY SMTT(30)
<1>2. ((q * d) + r) % d = r
  BY SMTT(30)
<1> QED
  BY <1>1, <1>2

\* Two digits in base d make a number below d * d, and no other two make it.
LEMMA TwoDigits ==
    ASSUME NEW d \in Nat \ {0}
    PROVE  /\ \A a, b \in 0 .. (d - 1) : (a * d) + b \in 0 .. ((d * d) - 1)
           /\ \A w \in 0 .. ((d * d) - 1) :
                 /\ w \div d \in 0 .. (d - 1) /\ w % d \in 0 .. (d - 1)
                 /\ ((w \div d) * d) + (w % d) = w
           /\ d * d \in Nat \ {0}
<1>1. ASSUME NEW a \in 0 .. (d - 1), NEW b \in 0 .. (d - 1)
      PROVE  (a * d) + b \in 0 .. ((d * d) - 1)
  <2>1. a * d <= (d - 1) * d /\ a * d \in Nat
    BY SMTT(30)
  <2>2. (d - 1) * d = (d * d) - d
    BY SMTT(30)
  <2>3. d * d \in Nat
    BY SMTT(30)
  <2> QED
    BY <2>1, <2>2, <2>3
<1>2. ASSUME NEW w \in 0 .. ((d * d) - 1)
      PROVE  w \div d \in 0 .. (d - 1)
  <2>1. w \in Nat /\ w < d * d
    <3>1. d * d \in Nat
      BY SMTT(30)
    <3> QED
      BY <3>1
  <2>2. w \div d < d /\ w \div d \in Nat
    BY <2>1, SMTT(30)
  <2> QED
    BY <2>2
<1>3. ASSUME NEW w \in 0 .. ((d * d) - 1)
      PROVE  w % d \in 0 .. (d - 1) /\ ((w \div d) * d) + (w % d) = w
  <2>1. w \in Int
    <3>1. d * d \in Nat
      BY SMTT(30)
    <3> QED
      BY <3>1
  <2> QED
    BY <2>1, Division
<1>4. d * d \in Nat \ {0}
  BY SMTT(30)
<1> QED
  BY <1>1, <1>2, <1>3, <1>4

\* What swapping the bytes of a word does to them.
LEMMA Swapped ==
    ASSUME NEW w \in Words
    PROVE  /\ SwapBytes(w) \in Words /\ SwapBytes(SwapBytes(w)) = w
           /\ SwapBytes(w) \div Radix = w % Radix
           /\ SwapBytes(w) % Radix = w \div Radix
<1>1. Radix \in Nat \ {0} /\ WordSize = Radix * Radix
  BY RadixAssumption DEF WordSize
<1>2. /\ w \div Radix \in 0 .. (Radix - 1) /\ w % Radix \in 0 .. (Radix - 1)
      /\ ((w \div Radix) * Radix) + (w % Radix) = w
  BY <1>1, TwoDigits DEF Words
<1> PICK a : a = w \div Radix
  OBVIOUS
<1> PICK b : b = w % Radix
  OBVIOUS
<1> PICK x : x = SwapBytes(w)
  OBVIOUS
<1>3. x = (b * Radix) + a /\ w = (a * Radix) + b
  BY <1>2 DEF SwapBytes
<1>4. x \in Words
  <2>1. a \in 0 .. (Radix - 1) /\ b \in 0 .. (Radix - 1)
    BY <1>2
  <2>2. (b * Radix) + a \in 0 .. ((Radix * Radix) - 1)
    BY <2>1, <1>1, TwoDigits
  <2> QED
    BY <2>2, <1>1, <1>3 DEF Words
<1>5. x \div Radix = b /\ x % Radix = a
  <2>1. a \in 0 .. (Radix - 1) /\ b \in Int
    BY <1>1, <1>2
  <2>2. ((b * Radix) + a) \div Radix = b /\ ((b * Radix) + a) % Radix = a
    BY <2>1, <1>1, Quotient
  <2> QED
    BY <2>2, <1>3
<1>6. SwapBytes(x) = w
  BY <1>3, <1>5 DEF SwapBytes
<1> QED
  BY <1>4, <1>5, <1>6

\* The conversion at the wire is its own inverse.
LEMMA WireRoundTrip ==
    ASSUME NEW r \in RegisterMaps, NEW w \in Words
    PROVE  OnWire(r, w) \in Words /\ OnWire(r, OnWire(r, w)) = w
  BY Swapped DEF OnWire

\* What rounding to a neighbour leaves over.
LEMMA Remainder ==
    ASSUME NEW q \in Int, NEW d \in Nat \ {0}, NEW r \in 0 .. (d - 1),
           NEW c, \/ c = q /\ 2 * r <= d
                  \/ c = q + 1 /\ d <= 2 * r,
           NEW n, n = (q * d) + r
    PROVE  /\ c \in Int /\ c * d \in Int
           /\ 2 * (n - (c * d)) <= d /\ -d <= 2 * (n - (c * d))
<1>1. q * d \in Int
  BY SMTT(30)
<1>2. CASE c = q /\ 2 * r <= d
  BY <1>1, <1>2
<1>3. CASE c = q + 1 /\ d <= 2 * r
  <2>1. (q + 1) * d = (q * d) + d
    BY SMTT(30)
  <2>2. c * d = (q * d) + d
    BY <1>3, <2>1
  <2>3. n - (c * d) = r - d
    BY <1>1, <2>2
  <2> QED
    BY <1>1, <1>3, <2>2, <2>3
<1> QED
  BY <1>2, <1>3

LEMMA Negated ==
    ASSUME NEW c \in Int, NEW b \in Int, NEW a \in Int
    PROVE  /\ c * b \in Int /\ c * (-b) = -(c * b)
           /\ (-a) - (c * (-b)) = -(a - (c * b))
<1>1. c * b \in Int /\ c * (-b) = -(c * b)
  BY SMTT(30)
<1> QED
  BY <1>1

\* Rounding is to within half a unit.
LEMMA RoundNear ==
    ASSUME NEW a \in Int, NEW b \in Int \ {0}, NEW c, c = RoundHalfEven(a, b),
           NEW d, d = IF b > 0 THEN b ELSE -b
    PROVE  /\ c \in Int /\ c * b \in Int
           /\ 2 * (a - (c * b)) <= d
           /\ -d <= 2 * (a - (c * b))
<1> PICK n : n = IF b > 0 THEN a ELSE -a
  OBVIOUS
<1> PICK q : q = n \div d
  OBVIOUS
<1> PICK r : r = n % d
  OBVIOUS
<1>1. n \in Int /\ d \in Nat \ {0}
  OBVIOUS
<1>2. n = (q * d) + r /\ q \in Int /\ r \in 0 .. (d - 1)
  BY <1>1, Division
<1>3. c = IF 2 * r < d \/ (2 * r = d /\ q % 2 = 0) THEN q ELSE q + 1
  BY DEF RoundHalfEven
<1>4. \/ c = q /\ 2 * r <= d
      \/ c = q + 1 /\ d <= 2 * r
  BY <1>1, <1>2, <1>3
<1>5. c \in Int /\ 2 * (n - (c * d)) <= d /\ -d <= 2 * (n - (c * d))
  <2>1. /\ q \in Int /\ d \in Nat \ {0} /\ r \in 0 .. (d - 1) /\ n = (q * d) + r
        /\ \/ c = q /\ 2 * r <= d
           \/ c = q + 1 /\ d <= 2 * r
    BY <1>1, <1>2, <1>4
  <2> QED
    BY ONLY <2>1, Remainder
<1>6. CASE b > 0
  <2>1. c * b \in Int
    BY <1>5, Negated
  <2> QED
    BY <1>5, <1>6, <2>1
<1>7. CASE ~(b > 0)
  <2>1. d = -b /\ n = -a
    BY <1>7
  <2>2. c * b \in Int /\ n - (c * d) = -(a - (c * b))
    BY <2>1, <1>5, Negated
  <2> QED
    BY <2>1, <2>2, <1>5, <1>1
<1> QED
  BY <1>6, <1>7

\* A quotient within less than half a unit of an integer is rounded to it.
LEMMA RoundUnique ==
    ASSUME NEW v \in Int, NEW x \in Int, NEW b \in Nat \ {0}, 2 * x < b, -b < 2 * x,
           NEW n, n = (v * b) + x
    PROVE  RoundHalfEven(n, b) = v
<1>0. v * b \in Int /\ (v - 1) * b = (v * b) - b
  BY SMTT(30)
<1>1. CASE 0 <= x
  <2>1. x \in 0 .. (b - 1)
    BY <1>1
  <2>2. n \div b = v /\ n % b = x
    BY <2>1, Quotient
  <2> QED
    BY <2>2 DEF RoundHalfEven
<1>2. CASE x < 0
  <2>1. x + b \in 0 .. (b - 1) /\ b < 2 * (x + b) /\ v - 1 \in Int
    BY <1>2
  <2>2. ((v - 1) * b) + (x + b) = n
    BY ONLY <1>0, x \in Int, b \in Int, n = (v * b) + x
  <2> PICK w, y : w = v - 1 /\ y = x + b
    OBVIOUS
  <2>3. w \in Int /\ y \in 0 .. (b - 1) /\ (w * b) + y = n /\ b < 2 * y
    BY <2>1, <2>2
  <2>4. ((w * b) + y) \div b = w /\ ((w * b) + y) % b = y
    BY ONLY <2>3, b \in Nat \ {0}, Quotient
  <2>5. n \div b = w /\ n % b = y
    BY <2>3, <2>4
  <2> QED
    BY <2>3, <2>5 DEF RoundHalfEven
<1> QED
  BY <1>1, <1>2

LEMMA Sizes ==
    /\ WordSize \in Nat \ {0} /\ WordSize * WordSize \in Nat \ {0}
    /\ Radix \in Nat \ {0} /\ WordSize = Radix * Radix
<1>1. Radix \in Nat \ {0} /\ WordSize = Radix * Radix
  BY RadixAssumption DEF WordSize
<1>2. WordSize \in Nat \ {0}
  BY <1>1, TwoDigits
<1> QED
  BY <1>1, <1>2, TwoDigits

\* The fields of a register of words.
LEMMA Fields ==
    ASSUME NEW r \in RegisterMaps, IsWord(r)
    PROVE  /\ r.length \in {1, 2} /\ r.kind \in WordKinds /\ r.kind \notin BitKinds
           /\ r.num \in Int \ {0} /\ r.den \in Nat \ {0} /\ r.off \in Int
           /\ r.wordOrder \in Orders /\ r.byteOrder \in Orders
  BY DEF RegisterMaps, IsWord, WordKinds, BitKinds, Kinds, Orders

\* The count of a register of words fits in it.
LEMMA RawFits ==
    ASSUME NEW r \in RegisterMaps, IsWord(r), NEW v \in Int,
           NEW c, c = RoundHalfEven((v * r.den) - r.off, r.num)
    PROVE  /\ Counts(r) \in Nat \ {0} /\ c \in Int
           /\ (v * r.den) - r.off \in Int
           /\ Raw(r, v) = c % Counts(r)
           /\ Raw(r, v) \in 0 .. (Counts(r) - 1)
<1>1. Counts(r) \in Nat \ {0}
  BY Sizes DEF Counts
<1>2. (v * r.den) - r.off \in Int
  <2>1. v * r.den \in Int
    BY Fields, Negated
  <2> QED
    BY <2>1, Fields
<1>3. c \in Int
  BY <1>2, Fields, RoundNear
<1>4. Raw(r, v) = c % Counts(r)
  BY DEF Raw, Counts
<1> QED
  BY <1>1, <1>2, <1>3, <1>4, Division

\* What arrives is the count that was sent, in the unit of the tag.
LEMMA Arrives ==
    ASSUME NEW r \in RegisterMaps, IsWord(r), NEW v \in Int
    PROVE  Decode(r, Encode(r, v)) = RoundHalfEven(Raw(r, v) * r.num + r.off, r.den)
<1> PICK raw : raw = Raw(r, v)
  OBVIOUS
<1>1. raw \in 0 .. (Counts(r) - 1)
  BY RawFits
<1>2. CASE r.length = 1
  <2>1. raw \in Words
    BY <1>1, <1>2, Sizes DEF Words, Counts
  <2>2. Encode(r, v) = [i \in DOMAIN <<raw>> |-> OnWire(r, <<raw>>[i])]
    BY <1>2, Fields DEF Encode
  <2>3. Encode(r, v)[1] = OnWire(r, raw)
    BY <2>2
  <2>4. OnWire(r, Encode(r, v)[1]) = raw
    BY <2>1, <2>3, WireRoundTrip
  <2> QED
    BY <1>2, <2>4, Fields DEF Decode
<1>3. CASE r.length = 2
  <2> PICK hi : hi = raw \div WordSize
    OBVIOUS
  <2> PICK lo : lo = raw % WordSize
    OBVIOUS
  <2>1. hi \in Words /\ lo \in Words /\ (hi * WordSize) + lo = raw
    <3>1. raw \in 0 .. ((WordSize * WordSize) - 1)
      BY <1>1, <1>3 DEF Counts
    <3> QED
      BY <3>1, Sizes, TwoDigits DEF Words
  <2> PICK words : words = IF r.wordOrder = "big" THEN <<hi, lo>> ELSE <<lo, hi>>
    OBVIOUS
  <2>2. Encode(r, v) = [i \in DOMAIN words |-> OnWire(r, words[i])]
    BY <1>3, Fields DEF Encode, WordPair
  <2>3. DOMAIN words = 1 .. 2 /\ words[1] \in Words /\ words[2] \in Words
    BY <2>1
  <2>4. Encode(r, v)[1] = OnWire(r, words[1]) /\ Encode(r, v)[2] = OnWire(r, words[2])
    BY <2>2, <2>3
  <2>5. /\ OnWire(r, Encode(r, v)[1]) = words[1]
        /\ OnWire(r, Encode(r, v)[2]) = words[2]
    BY <2>3, <2>4, WireRoundTrip
  <2>6. CASE r.wordOrder = "big"
    <3>1. words[1] = hi /\ words[2] = lo
      BY <2>6
    <3>2. (OnWire(r, Encode(r, v)[1]) * WordSize) + OnWire(r, Encode(r, v)[2]) = raw
      BY <2>1, <2>5, <3>1
    <3> QED
      BY <1>3, <2>6, <3>2, Fields DEF Decode
  <2>7. CASE r.wordOrder # "big"
    <3>1. words[1] = lo /\ words[2] = hi
      BY <2>7
    <3>2. (OnWire(r, Encode(r, v)[2]) * WordSize) + OnWire(r, Encode(r, v)[1]) = raw
      BY <2>1, <2>5, <3>1
    <3> QED
      BY <1>3, <2>7, <3>2, Fields DEF Decode
  <2> QED
    BY <2>6, <2>7
<1> QED
  BY <1>2, <1>3, Fields

LEMMA RoundExact ==
    ASSUME NEW v \in Int, NEW b \in Nat \ {0}, NEW n, n = v * b
    PROVE  RoundHalfEven(n, b) = v
<1>1. v * b \in Int
  BY SMTT(30)
<1>2. n = (v * b) + 0 /\ 2 * 0 < b /\ -b < 2 * 0 /\ 0 \in Int
  BY <1>1
<1> QED
  BY ONLY <1>2, RoundUnique, v \in Int, b \in Nat \ {0}

\* An unscaled register returns the value modulo its width.
LEMMA UnscaledReturns ==
    ASSUME NEW r \in RegisterMaps, IsWord(r), NEW v \in Int, Unscaled(r)
    PROVE  Decode(r, Encode(r, v)) = v % Counts(r)
<1> PICK d : d = r.den
  OBVIOUS
<1> PICK raw : raw = Raw(r, v)
  OBVIOUS
<1>1. d \in Nat \ {0} /\ r.num = d /\ r.den = d /\ r.off = 0
  BY Fields DEF Unscaled
<1>2. RoundHalfEven((v * d) - 0, d) = v
  <2>1. (v * d) - 0 = v * d
    BY <1>1, Negated
  <2> QED
    BY <2>1, <1>1, RoundExact
<1>3. raw = v % Counts(r) /\ raw \in Int
  <2>1. Counts(r) \in Nat \ {0} /\ raw = v % Counts(r)
    BY <1>1, <1>2, RawFits
  <2> QED
    BY <2>1, Division
<1> PICK n : n = (raw * d) + 0
  OBVIOUS
<1>4. RoundHalfEven(n, d) = raw
  <2>1. n = raw * d
    BY <1>1, <1>3, Negated
  <2> QED
    BY <2>1, <1>1, <1>3, RoundExact
<1> QED
  BY <1>1, <1>3, <1>4, Arrives

\* A register that resolves the unit returns every value whose count it holds.
LEMMA HeldReturns ==
    ASSUME NEW r \in RegisterMaps, IsWord(r), NEW v \in Int, Resolves(r), Holds(r, v)
    PROVE  Decode(r, Encode(r, v)) = v
<1> PICK a : a = (v * r.den) - r.off
  OBVIOUS
<1> PICK b : b = r.num
  OBVIOUS
<1> PICK c : c = RoundHalfEven(a, b)
  OBVIOUS
<1> PICK d : d = IF b > 0 THEN b ELSE -b
  OBVIOUS
<1>1. a \in Int /\ b \in Int \ {0} /\ d < r.den /\ r.den \in Nat \ {0} /\ r.off \in Int
  BY Fields, RawFits DEF Resolves
<1>2. /\ c \in Int /\ c * b \in Int
      /\ 2 * (a - (c * b)) <= d /\ -d <= 2 * (a - (c * b))
  BY <1>1, RoundNear
<1>3. Raw(r, v) = c
  <2>1. Raw(r, v) = c % Counts(r) /\ Counts(r) \in Nat \ {0}
    BY RawFits
  <2>2. 0 <= c /\ c < Counts(r)
    BY DEF Holds
  <2> QED
    BY <2>1, <2>2, <1>2, SMTT(30)
<1> PICK x : x = (c * b) - a
  OBVIOUS
<1>4. x \in Int /\ 2 * x < r.den /\ -r.den < 2 * x
  BY <1>1, <1>2
<1> PICK n : n = (c * b) + r.off
  OBVIOUS
<1>5. n = (v * r.den) + x
  <2>1. v * r.den \in Int
    BY <1>1, Negated
  <2> QED
    BY <2>1, <1>1, <1>2
<1>6. RoundHalfEven(n, r.den) = v
  BY <1>1, <1>4, <1>5, RoundUnique
<1> QED
  BY <1>3, <1>6, Arrives

\* What is on the wire is what the value was encoded to.
CodecInv ==
    /\ reg \in RegisterMaps /\ value \in Int
    /\ place = "wire" => wire = Encode(reg, value)

LEMMA DecodesToInt ==
    ASSUME NEW r \in RegisterMaps, NEW v \in Int
    PROVE  Decode(r, Encode(r, v)) \in Int
<1>1. CASE IsWord(r)
  <2> PICK n : n = Raw(r, v) * r.num + r.off
    OBVIOUS
  <2>1. Raw(r, v) \in Int
    BY <1>1, RawFits
  <2>2. Raw(r, v) * r.num \in Int
    BY <1>1, <2>1, Fields, Negated
  <2>3. n \in Int /\ r.den \in Int \ {0}
    BY <1>1, <2>2, Fields
  <2>4. RoundHalfEven(n, r.den) \in Int
    BY <2>3, RoundNear
  <2> QED
    BY <1>1, <2>4, Arrives
<1>2. CASE ~IsWord(r)
  <2>1. r.kind \in BitKinds
    BY <1>2 DEF IsWord, RegisterMaps, Kinds
  <2> QED
    BY <2>1 DEF Decode
<1> QED
  BY <1>1, <1>2

LEMMA CodecInvariant == CodecSpec => []CodecInv
<1>1. CodecInit => CodecInv
  BY CodecAssumption DEF CodecInit, CodecInv
<1>2. CodecInv /\ [CodecNext]_codecVars => CodecInv'
  <2> SUFFICES ASSUME CodecInv, [CodecNext]_codecVars PROVE CodecInv'
    OBVIOUS
  <2>1. CASE Send
    BY <2>1 DEF Send, CodecInv
  <2>2. CASE Receive
    <3>1. value' \in Int
      BY <2>2, DecodesToInt DEF Receive, CodecInv
    <3> QED
      BY <2>2, <3>1 DEF Receive, CodecInv
  <2>3. CASE UNCHANGED codecVars
    BY <2>3 DEF CodecInv, codecVars
  <2> QED
    BY <2>1, <2>2, <2>3 DEF CodecNext
<1> QED
  BY <1>1, <1>2, PTL DEF CodecSpec

\* The two roundings never add up to a unit, whatever the scale and the
\* offset: a register finer than the unit returns every value it can hold, and
\* an unscaled one wraps modulo its width (RegisterMap.encode and decode).
THEOREM FittingValuesReturn == CodecSpec => ReturnsWhatFits
<1>1. CodecInv /\ [CodecNext]_codecVars =>
        [place = "wire" /\ IsWord(reg) =>
            /\ Unscaled(reg) => value' = value % Counts(reg)
            /\ Resolves(reg) /\ Holds(reg, value) => value' = value]_codecVars
  <2> SUFFICES ASSUME CodecInv, [CodecNext]_codecVars,
                      ~UNCHANGED codecVars, place = "wire", IsWord(reg)
               PROVE  /\ Unscaled(reg) => value' = value % Counts(reg)
                      /\ Resolves(reg) /\ Holds(reg, value) => value' = value
    OBVIOUS
  <2>1. Receive
    BY DEF CodecNext, Send
  <2>2. value' = Decode(reg, Encode(reg, value)) /\ reg \in RegisterMaps /\ value \in Int
    BY <2>1 DEF Receive, CodecInv
  <2> QED
    BY <2>2, UnscaledReturns, HeldReturns
<1> QED
  BY <1>1, CodecInvariant, PTL DEF CodecSpec, ReturnsWhatFits

\* The bytes of words that are one another's mirror image are too.
LEMMA MirroredBytes ==
    ASSUME NEW n \in Nat, NEW p \in [1 .. n -> Words], NEW s \in [1 .. n -> Words],
           \A i \in 1 .. n : /\ s[i] \div Radix = p[(n - i) + 1] % Radix
                             /\ s[i] % Radix = p[(n - i) + 1] \div Radix
    PROVE  WireBytes(s) = Reverse(WireBytes(p))
<1>1. Len(p) = n /\ Len(s) = n
  BY LenProperties, p \in Seq(Words), s \in Seq(Words)
<1> PICK bytes : bytes = WireBytes(p)
  OBVIOUS
<1>2. bytes = [b \in 1 .. (2 * n) |->
                  IF b % 2 = 1 THEN p[(b + 1) \div 2] \div Radix
                  ELSE p[(b + 1) \div 2] % Radix]
  BY <1>1 DEF WireBytes
<1>3. WireBytes(s) = [b \in 1 .. (2 * n) |->
                  IF b % 2 = 1 THEN s[(b + 1) \div 2] \div Radix
                  ELSE s[(b + 1) \div 2] % Radix]
  BY <1>1 DEF WireBytes
<1>4. Len(bytes) = 2 * n
  BY <1>2
<1>5. Reverse(bytes) = [b \in 1 .. (2 * n) |-> bytes[((2 * n) - b) + 1]]
  BY <1>4 DEF Reverse
<1>6. ASSUME NEW b \in 1 .. (2 * n)
      PROVE  WireBytes(s)[b] = Reverse(bytes)[b]
  <2> PICK k : k = (b + 1) \div 2
    OBVIOUS
  <2> PICK m : m = ((2 * n) - b) + 1
    OBVIOUS
  <2>1. k \in 1 .. n /\ m \in 1 .. (2 * n) /\ (m + 1) \div 2 = (n - k) + 1
    OBVIOUS
  <2>2. \/ b % 2 = 1 /\ m % 2 = 0
        \/ b % 2 = 0 /\ m % 2 = 1
    OBVIOUS
  <2>3. Reverse(bytes)[b] = bytes[m]
    BY <1>5
  <2>4. bytes[m] = IF m % 2 = 1 THEN p[(n - k) + 1] \div Radix
                   ELSE p[(n - k) + 1] % Radix
    BY <1>2, <2>1
  <2>5. WireBytes(s)[b] = IF b % 2 = 1 THEN s[k] \div Radix ELSE s[k] % Radix
    BY <1>3, <2>1
  <2>6. s[k] \div Radix = p[(n - k) + 1] % Radix /\ s[k] % Radix = p[(n - k) + 1] \div Radix
    BY <2>1
  <2> QED
    BY <2>2, <2>3, <2>4, <2>5, <2>6
<1> QED
  BY <1>3, <1>5, <1>6

LEMMA FlipWord ==
    ASSUME NEW r \in RegisterMaps, NEW w \in Words
    PROVE  /\ OnWire(Flipped(r), w) \in Words /\ OnWire(r, w) \in Words
           /\ OnWire(Flipped(r), w) \div Radix = OnWire(r, w) % Radix
           /\ OnWire(Flipped(r), w) % Radix = OnWire(r, w) \div Radix
<1>1. Flipped(r).byteOrder = IF r.byteOrder = "big" THEN "little" ELSE "big"
  BY DEF Flipped, Other, RegisterMaps
<1>2. r.byteOrder \in {"big", "little"}
  BY DEF RegisterMaps, Orders
<1>3. CASE r.byteOrder = "big"
  BY <1>1, <1>3, Swapped DEF OnWire
<1>4. CASE r.byteOrder = "little"
  <2>1. OnWire(Flipped(r), w) = w /\ OnWire(r, w) = SwapBytes(w)
    BY <1>1, <1>4 DEF OnWire
  <2> QED
    BY <2>1, Swapped
<1> QED
  BY <1>2, <1>3, <1>4

LEMMA FlipKeeps ==
    ASSUME NEW r \in RegisterMaps, NEW v
    PROVE  /\ Flipped(r).length = r.length /\ Flipped(r).kind = r.kind
           /\ Flipped(r).wordOrder = IF r.wordOrder = "big" THEN "little" ELSE "big"
           /\ Raw(Flipped(r), v) = Raw(r, v)
<1>1. /\ Flipped(r).length = r.length /\ Flipped(r).kind = r.kind
      /\ Flipped(r).num = r.num /\ Flipped(r).den = r.den /\ Flipped(r).off = r.off
      /\ Flipped(r).wordOrder = IF r.wordOrder = "big" THEN "little" ELSE "big"
  BY DEF Flipped, Other, RegisterMaps
<1> QED
  BY <1>1 DEF Raw

LEMMA FlippedBytes ==
    ASSUME NEW r \in RegisterMaps, IsWord(r), NEW v \in Int
    PROVE  WireBytes(Encode(Flipped(r), v)) = Reverse(WireBytes(Encode(r, v)))
<1> PICK raw : raw = Raw(r, v)
  OBVIOUS
<1> PICK f : f = Flipped(r)
  OBVIOUS
<1>1. raw \in 0 .. (Counts(r) - 1)
  BY RawFits
<1>2. CASE r.length = 1
  <2>1. raw \in Words
    BY <1>1, <1>2, Sizes DEF Words, Counts
  <2> PICK p : p = [i \in 1 .. 1 |-> OnWire(r, raw)]
    OBVIOUS
  <2> PICK s : s = [i \in 1 .. 1 |-> OnWire(f, raw)]
    OBVIOUS
  <2>2. Encode(r, v) = p
    BY <1>2, Fields DEF Encode
  <2>3. Encode(f, v) = s
    BY <1>2, Fields, FlipKeeps DEF Encode
  <2>4. /\ p \in [1 .. 1 -> Words] /\ s \in [1 .. 1 -> Words]
        /\ \A i \in 1 .. 1 : /\ s[i] \div Radix = p[(1 - i) + 1] % Radix
                             /\ s[i] % Radix = p[(1 - i) + 1] \div Radix
    BY <2>1, FlipWord
  <2> PICK n : n = 1
    OBVIOUS
  <2>5. /\ n \in Nat /\ p \in [1 .. n -> Words] /\ s \in [1 .. n -> Words]
        /\ \A i \in 1 .. n : /\ s[i] \div Radix = p[(n - i) + 1] % Radix
                             /\ s[i] % Radix = p[(n - i) + 1] \div Radix
    BY <2>4
  <2>6. WireBytes(s) = Reverse(WireBytes(p))
    BY ONLY <2>5, MirroredBytes
  <2> QED
    BY <2>2, <2>3, <2>6
<1>3. CASE r.length = 2
  <2> PICK hi : hi = raw \div WordSize
    OBVIOUS
  <2> PICK lo : lo = raw % WordSize
    OBVIOUS
  <2>1. hi \in Words /\ lo \in Words
    <3>1. raw \in 0 .. ((WordSize * WordSize) - 1)
      BY <1>1, <1>3 DEF Counts
    <3> QED
      BY <3>1, Sizes, TwoDigits DEF Words
  <2> PICK x : x = IF r.wordOrder = "big" THEN hi ELSE lo
    OBVIOUS
  <2> PICK y : y = IF r.wordOrder = "big" THEN lo ELSE hi
    OBVIOUS
  <2> PICK p : p = [i \in 1 .. 2 |-> OnWire(r, <<x, y>>[i])]
    OBVIOUS
  <2> PICK s : s = [i \in 1 .. 2 |-> OnWire(f, <<y, x>>[i])]
    OBVIOUS
  <2>2. Encode(r, v) = p
    BY <1>3, Fields DEF Encode, WordPair
  <2>3. Encode(f, v) = s
    BY <1>3, Fields, FlipKeeps DEF Encode, WordPair
  <2>4. x \in Words /\ y \in Words
    BY <2>1
  <2>5. /\ p[1] = OnWire(r, x) /\ p[2] = OnWire(r, y)
        /\ s[1] = OnWire(f, y) /\ s[2] = OnWire(f, x)
    OBVIOUS
  <2>6. p \in [1 .. 2 -> Words] /\ s \in [1 .. 2 -> Words]
    BY <2>4, FlipWord
  <2>7. \A i \in 1 .. 2 : /\ s[i] \div Radix = p[(2 - i) + 1] % Radix
                          /\ s[i] % Radix = p[(2 - i) + 1] \div Radix
    BY <2>4, <2>5, FlipWord
  <2> PICK n : n = 2
    OBVIOUS
  <2>8. /\ n \in Nat /\ p \in [1 .. n -> Words] /\ s \in [1 .. n -> Words]
        /\ \A i \in 1 .. n : /\ s[i] \div Radix = p[(n - i) + 1] % Radix
                             /\ s[i] % Radix = p[(n - i) + 1] \div Radix
    BY <2>6, <2>7
  <2>9. WireBytes(s) = Reverse(WireBytes(p))
    BY ONLY <2>8, MirroredBytes
  <2> QED
    BY <2>2, <2>3, <2>9
<1> QED
  BY <1>2, <1>3, Fields

\* Turning both order options over reverses the bytes a device sees, whatever
\* the value, the scale and the width (the byte_order and word_order of
\* RegisterMap.encode).
THEOREM FlippedOrdersReverse == CodecSpec => []FlippedOrdersReverseBytes
<1>1. CodecInv => FlippedOrdersReverseBytes
  BY FlippedBytes DEF CodecInv, FlippedOrdersReverseBytes, IsWord
<1> QED
  BY <1>1, CodecInvariant, PTL
=============================================================================
