----------------------------- MODULE OutageLog ------------------------------
(***************************************************************************)
(* The log owed to a history of exchanges: an entry where an outage begins *)
(* and one, with the number of exchanges it lasted, where it ends.         *)
(***************************************************************************)
EXTENDS Ranks, Sequences

Begins(h) == {i \in DOMAIN h : h[i] = "failed" /\ (i > 1 => h[i - 1] = "ok")}
Ends(h)   == {i \in DOMAIN h : h[i] = "ok" /\ i > 1 /\ h[i - 1] = "failed"}
Edges(h)  == Begins(h) \cup Ends(h)

\* The beginning of the outage that ends at exchange i.
BeginOf(h, i) ==
    TheOne({b \in Begins(h) : b < i /\ \A c \in Begins(h) : c < i => c <= b})

\* The entry owed to the edge at exchange i.
EntryAt(h, i) ==
    IF i \in Begins(h) THEN [edge |-> "failed", scans |-> 0]
    ELSE [edge |-> "recovered", scans |-> i - BeginOf(h, i)]

AlarmLog(h) ==
    [n \in 1..Cardinality(Edges(h)) |-> EntryAt(h, Nth(Edges(h), n))]
=============================================================================
