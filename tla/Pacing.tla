------------------------------- MODULE Pacing -------------------------------
(***************************************************************************)
(* The executive's wall clock (Executive._pace): after each tick a paced   *)
(* executive sleeps up to the next deadline, or, when the tick ran long,   *)
(* starts over from the present so that it never catches up in a burst.    *)
(*                                                                         *)
(* Wall time is counted in whole units.  The operating system wakes a      *)
(* sleeper up to MaxOversleep late.                                        *)
(***************************************************************************)
EXTENDS Integers

CONSTANTS
    WallIntervals,  \* _wall_interval() of the modes used: 0 is free_run
    MaxWork,        \* the longest a tick, or a pause before it, takes
    MaxOversleep,
    MaxNow,         \* bound on the clock
    None            \* Python's None

ASSUME PacingAssumption ==
    /\ WallIntervals \subseteq Nat
    /\ MaxWork \in Nat
    /\ MaxOversleep \in Nat
    /\ MaxNow \in Nat
    /\ None \notin Int

VARIABLES
    now,            \* time.perf_counter()
    interval,       \* what _wall_interval() returns
    deadline,       \* _deadline
    lastJitter,     \* last_jitter_s
    worstJitter,    \* worst_jitter_s
    pc              \* "work" or "pace"

\* History, for the properties alone.
VARIABLES
    anchor,         \* when the present cadence was established
    slots,          \* the ticks paced since then
    ended,          \* when the last tick was over
    steady          \* whether it was paced, with the present interval

paceVars == <<deadline, lastJitter, worstJitter>>
history == <<anchor, slots, ended, steady>>
pacingVars == <<now, interval, paceVars, pc, history>>

PacingTypeOK ==
    /\ now \in Nat
    /\ interval \in WallIntervals
    /\ deadline \in Nat \cup {None}
    /\ lastJitter \in Nat
    /\ worstJitter \in Nat
    /\ lastJitter <= worstJitter
    /\ pc \in {"work", "pace"}

PacingInit ==
    /\ now = 0
    /\ interval \in WallIntervals
    /\ deadline = None
    /\ lastJitter = 0
    /\ worstJitter = 0
    /\ pc = "work"
    /\ anchor = 0
    /\ slots = 0
    /\ ended = 0
    /\ steady = FALSE

-----------------------------------------------------------------------------
\* A tick up to _pace.
Work ==
    /\ pc = "work"
    /\ now < MaxNow
    /\ now' \in now .. now + MaxWork
    /\ pc' = "pace"
    /\ UNCHANGED <<interval, paceVars, anchor, slots, ended, steady>>

\* The tick returns, its cadence counted from a at slot n.
TickEnds(a, n, isSteady) ==
    /\ pc' = "work"
    /\ anchor' = a
    /\ slots' = n
    /\ ended' = now'
    /\ steady' = isSteady
    /\ UNCHANGED interval

FreeRun ==
    /\ pc = "pace"
    /\ interval = 0
    /\ UNCHANGED <<now, paceVars>>
    /\ TickEnds(anchor, slots, FALSE)

\* The first paced tick establishes the origin of the cadence.
Establish ==
    /\ pc = "pace"
    /\ interval > 0
    /\ deadline = None
    /\ deadline' = now
    /\ UNCHANGED <<now, lastJitter, worstJitter>>
    /\ TickEnds(now, 0, TRUE)

\* Mutation: the next deadline counts from the moment the sleeper woke.
SleepFromNow ==
    /\ pc = "pace"
    /\ interval > 0
    /\ deadline # None
    /\ deadline + interval > now
    /\ now' \in (deadline + interval) .. (deadline + interval + MaxOversleep)
    /\ deadline' = now'
    /\ lastJitter' = 0
    /\ UNCHANGED worstJitter
    /\ TickEnds(anchor, slots + 1, TRUE)

\* Early: sleep up to the deadline.
Sleep ==
    /\ pc = "pace"
    /\ interval > 0
    /\ deadline # None
    /\ deadline + interval > now
    /\ now' \in (deadline + interval) .. (deadline + interval + MaxOversleep)
    /\ deadline' = deadline + interval
    /\ lastJitter' = 0
    /\ UNCHANGED worstJitter
    /\ TickEnds(anchor, slots + 1, TRUE)

\* Mutation: a late tick keeps the old cadence.
ResyncNever ==
    /\ pc = "pace"
    /\ interval > 0
    /\ deadline # None
    /\ deadline + interval <= now
    /\ lastJitter' = now - (deadline + interval)
    /\ worstJitter' = IF lastJitter' > worstJitter THEN lastJitter' ELSE worstJitter
    /\ deadline' = deadline + interval
    /\ UNCHANGED now
    /\ TickEnds(now, 0, TRUE)

\* Late: note by how much and start over from now.
Resync ==
    /\ pc = "pace"
    /\ interval > 0
    /\ deadline # None
    /\ deadline + interval <= now
    /\ lastJitter' = now - (deadline + interval)
    /\ worstJitter' = IF lastJitter' > worstJitter THEN lastJitter' ELSE worstJitter
    /\ deadline' = now
    /\ UNCHANGED now
    /\ TickEnds(now, 0, TRUE)

Pace == FreeRun \/ Establish \/ Sleep \/ Resync

\* The owner assigns sim.mode or sim.scale between ticks.
SetMode ==
    /\ pc = "work"
    /\ \E i \in WallIntervals \ {interval} : interval' = i
    /\ steady' = FALSE
    /\ anchor' = IF deadline = None THEN anchor ELSE deadline
    /\ slots' = 0
    /\ UNCHANGED <<now, paceVars, pc, ended>>

\* reset_pacing, which every snapshot restore calls.
ResetPacing ==
    /\ pc = "work"
    /\ deadline' = None
    /\ steady' = FALSE
    /\ UNCHANGED <<now, interval, lastJitter, worstJitter, pc, anchor, slots,
                   ended>>

PacingNext == Work \/ Pace \/ SetMode \/ ResetPacing

PacingSpec == PacingInit /\ [][PacingNext]_pacingVars

-----------------------------------------------------------------------------
(***************************************************************************)
(* Properties                                                              *)
(***************************************************************************)

\* The clock never spirals: however late a tick was, the next one of the same
\* cadence is over no sooner than one interval after it, short of what the
\* sleeper overslept.
NoCatchUpBurst ==
    [][steady /\ pc = "pace" /\ pc' = "work" =>
          now' - ended >= interval - MaxOversleep]_pacingVars

\* The cadence does not drift: its n-th tick is over n intervals after its
\* origin, never sooner and never later than one oversleep.
NoDrift ==
    steady /\ slots > 0 =>
        ended - (anchor + slots * interval) \in 0 .. MaxOversleep

\* Why both hold: the deadline is the origin of the cadence plus whole
\* intervals, and while the cadence is steady the last tick was over at it or
\* one oversleep later.
OnCadence == deadline # None => deadline = anchor + slots * interval
CadenceInv ==
    /\ PacingTypeOK
    /\ anchor \in Nat /\ slots \in Nat /\ ended \in Nat /\ steady \in BOOLEAN
    /\ steady =>
          /\ interval > 0
          /\ deadline \in Nat
          /\ deadline <= ended /\ ended <= deadline + MaxOversleep
    /\ OnCadence
=============================================================================
