----------------------------- MODULE Historian ------------------------------
(***************************************************************************)
(* The trend store (digitwin/historian.py): a bounded buffer of samples,   *)
(* filled once per tick with the tag table of that tick, on change, once   *)
(* per interval or on every scan, and queried by time afterwards.          *)
(*                                                                         *)
(* Time is counted in whole units of which Interval and the executive's dt *)
(* are multiples; the code's _EPS absorbs the rounding of the floats.      *)
(***************************************************************************)
EXTENDS Integers, Sequences, SequencesExt, Ranks

CONSTANTS
    TagOrder,       \* the tags of the table, in the order it lists them
    TrendTags,      \* the `tags` filter
    TagValues,      \* the values a tag can hold
    Modes,          \* the sample modes it may be made with
    Interval,       \* interval_s
    Capacity,       \* the samples kept
    None            \* Python's None

ASSUME HistorianAssumption ==
    /\ Modes \subseteq {"on_change", "periodic", "every_scan"}
    /\ Interval \in Nat \ {0}
    /\ Capacity \in Nat \ {0}
    /\ TagOrder \in Seq(ToSet(TagOrder))
    /\ TrendTags \subseteq ToSet(TagOrder)
    /\ None \notin TagValues \cup Nat

VARIABLES
    mode,           \* "on_change", "periodic" or "every_scan"
    samples,        \* the buffer, oldest first
    dropped,        \* how many samples left it
    last,           \* _last: the value stored last, per tag
    nextPeriodic    \* _next_periodic

historianVars == <<mode, samples, dropped, last, nextPeriodic>>

TagTables == [ToSet(TagOrder) -> TagValues]

HistorianTypeOK ==
    /\ mode \in Modes
    /\ samples \in Seq([at : Nat, tag : TrendTags, value : TagValues])
    /\ Len(samples) <= Capacity
    /\ dropped \in Nat
    /\ DOMAIN last \subseteq TrendTags
    /\ \A t \in DOMAIN last : last[t] \in TagValues
    /\ nextPeriodic \in Nat \cup {None}

HistorianInit ==
    /\ mode \in Modes
    /\ samples = <<>>
    /\ dropped = 0
    /\ last = <<>>
    /\ nextPeriodic = None

-----------------------------------------------------------------------------
Unchanged(t, value) == t \in DOMAIN last /\ last[t] = value

\* The samples record() stores for the table at time now.
NewSamples(now, table) ==
    LET stored(t) == /\ t \in TrendTags
                     /\ mode = "on_change" => ~Unchanged(t, table[t])
        places == {i \in DOMAIN TagOrder : stored(TagOrder[i])}
        tag(n) == TagOrder[Nth(places, n)]
    IN  [n \in 1 .. Cardinality(places) |->
            [at |-> now, tag |-> tag(n), value |-> table[tag(n)]]]

\* Whether a periodic historian is due at time now.
Due(now) == nextPeriodic = None \/ nextPeriodic <= now

\* del s[:overflow]
Newest(s, n) == SubSeq(s, Len(s) - n + 1, Len(s))
Overflow(s, n) == IF Len(s) > n THEN Len(s) - n ELSE 0

AppendSamples(new) ==
    LET all == samples \o new
        overflow == Overflow(all, Capacity)
    IN  /\ samples' = Newest(all, Len(all) - overflow)
        /\ dropped' = dropped + overflow

Remember(new) ==
    last' = [t \in DOMAIN last \cup {new[n].tag : n \in DOMAIN new} |->
                IF \E n \in DOMAIN new : new[n].tag = t
                THEN new[CHOOSE n \in DOMAIN new : new[n].tag = t].value
                ELSE last[t]]

\* Mutation: the next batch is timed from this tick, not from its due time.
RecordDrifts(now, table) ==
    IF mode = "periodic" /\ ~Due(now)
    THEN UNCHANGED historianVars
    ELSE LET new == NewSamples(now, table)
         IN  /\ nextPeriodic' = now + Interval
             /\ Remember(new)
             /\ AppendSamples(new)
             /\ UNCHANGED mode

Record(now, table) ==
    IF mode = "periodic" /\ ~Due(now)
    THEN UNCHANGED historianVars
    ELSE LET new == NewSamples(now, table)
         IN  /\ nextPeriodic' =
                   IF mode # "periodic" THEN nextPeriodic
                   ELSE (IF nextPeriodic = None THEN now ELSE nextPeriodic)
                        + Interval
             /\ Remember(new)
             /\ AppendSamples(new)
             /\ UNCHANGED mode

\* Mutation: clearing the buffer leaves the change detector as it was.
ClearKeepsLast ==
    /\ samples' = <<>>
    /\ dropped' = 0
    /\ nextPeriodic' = None
    /\ UNCHANGED <<mode, last>>

Clear ==
    /\ samples' = <<>>
    /\ dropped' = 0
    /\ last' = <<>>
    /\ nextPeriodic' = None
    /\ UNCHANGED mode

-----------------------------------------------------------------------------
\* Mutation: the loop stops at the time asked for.
ScannedBefore(t) ==
    LET later == SelectInSeq(samples, LAMBDA s : s.at >= t)
    IN  IF later = 0 THEN samples ELSE SubSeq(samples, 1, later - 1)

\* The loop of value_at and snapshot_at stops at the first later sample.
Scanned(t) ==
    LET later == SelectInSeq(samples, LAMBDA s : s.at > t)
    IN  IF later = 0 THEN samples ELSE SubSeq(samples, 1, later - 1)

LastValue(s, t) ==
    LET n == SelectLastInSeq(s, LAMBDA sample : sample.tag = t)
    IN  IF n = 0 THEN None ELSE s[n].value

ValueAt(t, time) == LastValue(Scanned(time), t)

Latest(t) == LastValue(samples, t)

\* snapshot_at: the tags with a scanned sample, each at its last one.
SnapshotAt(time) ==
    LET seen == {s.tag : s \in ToSet(Scanned(time))}
    IN  [t \in seen |-> ValueAt(t, time)]
=============================================================================
