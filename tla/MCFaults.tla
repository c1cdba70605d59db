------------------------------ MODULE MCFaults -------------------------------
EXTENDS Faults

CONSTANTS level

F(kind, amount) == [kind |-> kind, signal |-> level, amount |-> amount]

\* Every kind, before and after one that holds the signal.
MCPlans ==
    {<<F("drift", -1), F("frozen", 0)>>,
     <<F("frozen", 0), F("drift", -1)>>,
     <<F("offset", 1), F("stuck", 4)>>,
     <<F("stuck", 4), F("offset", -5)>>}
=============================================================================
