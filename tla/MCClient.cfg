\* Two callers and two members, either of which may keep the other waiting.
SPECIFICATION FairSpec
CONSTANTS
    Servers = {s1, s2}
    Callers = {c1, c2}
    None = None
INVARIANTS
    ClosedHoldsNothing
PROPERTIES
    ClientReturns
\* A closed client has nothing to do.
CHECK_DEADLOCK FALSE
