------------------------------- MODULE Rewind -------------------------------
(***************************************************************************)
(* Time travel: a twin observed by the historian and by the snapshot       *)
(* recorder (digitwin/snapshot.py), which captures every few ticks, keeps  *)
(* the newest captures and rewinds the twin to one of them.  The historian *)
(* is not part of a snapshot: a rewind leaves it as it is.                 *)
(*                                                                         *)
(* What the twin computes is left open: any tag table may follow any.      *)
(***************************************************************************)
EXTENDS Historian

CONSTANTS
    Dt,             \* Executive.dt
    Every,          \* ticks between two captures
    Keep,           \* captures kept
    MaxTicks,       \* bound on Executive.scan_count
    MaxRewinds      \* bound on the number of rewinds

ASSUME RewindAssumption ==
    /\ Dt \in Nat \ {0}
    /\ Every \in Nat \ {0}
    /\ Keep \in Nat \ {0}
    /\ MaxTicks \in Nat
    /\ MaxRewinds \in Nat

VARIABLES
    ticks,          \* Executive.scan_count; elapsed is ticks * dt
    tags,           \* the tag table
    snapshots       \* the recorder's list, oldest capture first

(***************************************************************************)
(* History, read by the properties alone.                                  *)
(***************************************************************************)
VARIABLES
    branch,         \* the tag table after each tick of the present branch
    settled,        \* whether a tick was the last thing that happened
    rewinds,        \* rewinds so far
    since,          \* the tick of the last rewind or clear, 0 if none
    batches         \* the ticks that stored samples, since then

observedVars == <<ticks, tags, snapshots>>
historyVars == <<branch, settled, rewinds, since, batches>>
vars == <<historianVars, observedVars, historyVars>>

TypeOK ==
    /\ HistorianTypeOK
    /\ ticks \in 0..MaxTicks
    /\ tags \in TagTables
    /\ snapshots \in Seq([ticks : Nat, tags : TagTables])
    /\ Len(snapshots) <= Keep
    /\ branch \in Seq(TagTables)
    /\ settled \in BOOLEAN
    /\ rewinds \in 0..MaxRewinds
    /\ since \in 0..MaxTicks
    /\ batches \in Seq(Nat)

Init ==
    /\ HistorianInit
    /\ ticks = 0
    /\ tags \in TagTables
    /\ snapshots = <<>>
    /\ branch = <<>>
    /\ settled = FALSE
    /\ rewinds = 0
    /\ since = 0
    /\ batches = <<>>

-----------------------------------------------------------------------------
\* SnapshotRecorder.maybe_capture and capture.
MaybeCapture(now, table) ==
    LET all == Append(snapshots, [ticks |-> now, tags |-> table])
    IN  snapshots' = IF now % Every # 0 THEN snapshots
                     ELSE Newest(all, Len(all) - Overflow(all, Keep))

\* Executive.tick: the twin computes some table, then _observe records it and
\* may capture it.
Tick ==
    /\ ticks < MaxTicks
    /\ ticks' = ticks + 1
    /\ tags' \in TagTables
    /\ Record(ticks' * Dt, tags')
    /\ MaybeCapture(ticks', tags')
    /\ branch' = Append(branch, tags')
    /\ settled' = TRUE
    /\ batches' = IF dropped' + Len(samples') > dropped + Len(samples)
                  THEN Append(batches, ticks') ELSE batches
    /\ UNCHANGED <<rewinds, since>>

\* Mutation: the list is searched from its oldest end.
AtOldest(n) == SelectInSeq(snapshots, LAMBDA s : s.ticks <= n)

\* SnapshotRecorder.at: the newest capture at or before tick n, 0 if none.
At(n) == SelectLastInSeq(snapshots, LAMBDA s : s.ticks <= n)

\* SnapshotRecorder.rewind with a tick of the past.
RewindTo(n) ==
    /\ rewinds < MaxRewinds
    /\ At(n) # 0
    /\ ticks' = snapshots[At(n)].ticks
    /\ tags' = snapshots[At(n)].tags
    /\ branch' = SubSeq(branch, 1, ticks')
    /\ settled' = FALSE
    /\ rewinds' = rewinds + 1
    /\ since' = ticks'
    /\ batches' = <<>>
    /\ UNCHANGED <<historianVars, snapshots>>

\* historian.clear() between ticks.
ClearHistorian ==
    /\ Clear
    /\ settled' = FALSE
    /\ since' = ticks
    /\ batches' = <<>>
    /\ UNCHANGED <<observedVars, branch, rewinds>>

Next ==
    \/ Tick
    \/ \E n \in 1..ticks : RewindTo(n)
    \/ ClearHistorian

Spec == Init /\ [][Next]_vars

-----------------------------------------------------------------------------
(***************************************************************************)
(* Properties                                                              *)
(***************************************************************************)

\* Whatever was rewound, the newest stored sample of a tag is its value once
\* a tick has ended: the change detector, which a rewind leaves pointing at
\* the abandoned branch, never hides a value from the trend.  A tag may lack
\* a sample only when the buffer has dropped some.
LatestIsCurrent ==
    settled /\ mode = "on_change" =>
        \A t \in TrendTags :
            \/ Latest(t) = tags[t]
            \/ Latest(t) = None /\ dropped > 0

\* Within a branch the reconstructed tag table is never wrong: each tag it
\* lists had that value, and it lists every tag unless samples were dropped
\* or cleared before.
ReconstructionIsTrue ==
    rewinds = 0 /\ mode # "periodic" =>
        \A k \in since + 1 .. ticks :
            LET table == SnapshotAt(k * Dt)
            IN  /\ \A t \in DOMAIN table : table[t] = branch[k][t]
                /\ dropped = 0 => DOMAIN table = TrendTags

\* The time batch k of a periodic trend is due.
DueTime(k) == batches[1] * Dt + (k - 1) * Interval

\* A periodic trend keeps its rate without drift, even when the interval is
\* not a multiple of dt: batch k is stored by the first tick at which it is
\* due, and no batch that is due is missing.
PeriodicKeepsRate ==
    mode = "periodic" /\ Interval >= Dt /\ rewinds = 0 /\ batches # <<>> =>
        /\ \A k \in DOMAIN batches :
               batches[k] * Dt \in DueTime(k) .. DueTime(k) + Dt - 1
        /\ ticks * Dt < DueTime(Len(batches) + 1)

\* Rewinding to a tick of the past finds the nearest kept capture of the
\* present branch, never one an abandoned branch left behind.
RewindsStayOnBranch ==
    \A n \in 1..ticks :
        At(n) # 0 =>
            LET found == snapshots[At(n)]
            IN  /\ found.tags = branch[found.ticks]
                /\ \A s \in ToSet(snapshots) :
                       s.ticks <= n => s.ticks <= found.ticks

-----------------------------------------------------------------------------
Captures == [ticks : Nat \ {0}, tags : TagTables]

\* Entry i is the last of the list at or before tick n.
IsAt(list, n, i) ==
    /\ i \in DOMAIN list /\ list[i].ticks <= n
    /\ \A j \in DOMAIN list : i < j => n < list[j].ticks

\* What RewindsStayOnBranch says of tick n, for any list and branch.
OnBranch(list, trunk, n) ==
    \A i \in DOMAIN list :
        IsAt(list, n, i) =>
            /\ list[i].tags = trunk[list[i].ticks]
            /\ \A j \in DOMAIN list : list[j].ticks <= n => list[j].ticks <= list[i].ticks

\* The inductive invariant behind it: captures are of multiples of Every only,
\* so that no tick without a capture finds an abandoned one of its own number.
BranchInv ==
    /\ ticks \in Nat
    /\ branch \in Seq(TagTables) /\ Len(branch) = ticks
    /\ snapshots \in Seq(Captures)
    /\ \A i \in DOMAIN snapshots : snapshots[i].ticks % Every = 0
    /\ \A n \in 1 .. ticks : OnBranch(snapshots, branch, n)

\* Read at the positions P, the samples s show the value v of tag t, of which
\* they lack a sample only if some were lost.
Shows(s, P, lost, t, v) ==
    /\ \A i \in P :
           s[i].tag = t /\ (\A j \in P : i < j => s[j].tag # t) => s[i].value = v
    /\ (\A i \in P : s[i].tag # t) => lost > 0

\* What an unrewound or a rewound trend keeps of a tag is what the change
\* detector remembers of it, which at the end of a tick is its value.
Samples == [at : Nat, tag : TrendTags, value : TagValues]
TrendInv ==
    /\ samples \in Seq(Samples) /\ dropped \in Nat /\ rewinds \in Nat
    /\ mode # "periodic" =>
          /\ DOMAIN last \subseteq TrendTags
          /\ \A t \in DOMAIN last :
                 Shows(samples, DOMAIN samples, dropped, t, last[t])
          /\ settled => \A t \in TrendTags : t \in DOMAIN last /\ last[t] = tags[t]

\* Without a rewind the trend is sorted, and up to each tick it shows the tag
\* table of that tick.
UpTo(s, time) == {i \in DOMAIN s : s[i].at <= time}
InOrder(s, time) ==
    /\ \A i, j \in DOMAIN s : i <= j => s[i].at <= s[j].at
    /\ \A i \in DOMAIN s : s[i].at <= time
HistoryInv ==
    rewinds = 0 /\ mode # "periodic" =>
        /\ since \in 0 .. ticks
        /\ InOrder(samples, ticks * Dt)
        /\ \A k \in since + 1 .. ticks, t \in TrendTags :
               Shows(samples, UpTo(samples, k * Dt), dropped, t, branch[k][t])

\* The next sample is due when the next batch is.
PeriodicInv ==
    mode = "periodic" /\ rewinds = 0 =>
          /\ nextPeriodic \in Nat \cup {None} /\ batches \in Seq(Nat)
          /\ nextPeriodic = None => batches = <<>>
          /\ nextPeriodic # None /\ TrendTags # {} => batches # <<>>
          /\ batches # <<>> => /\ TrendTags # {}
                               /\ nextPeriodic = DueTime(Len(batches) + 1)
          /\ PeriodicKeepsRate
=============================================================================
