\* Two callers compete for two connections, which they use in either order; a call
\* more than they make may have been left behind by either of them, and hold on to
\* a vector.
SPECIFICATION FairSpec
CONSTANTS
    Callers = {c1, c2}
    Reporters = {r1, r2}
    r1 = r1
    r2 = r2
    Links <- BothWays
    Rpcs = {g1, g2, g3}
    Vectors = {v1, v2}
    Limit = 1
    None = None
INVARIANTS
    AttendedCallsAreSafe
    VectorsOwnedOnce
PROPERTY
    BacklogReturns
\* Nobody has to call, and calls left behind may use up the names.
CHECK_DEADLOCK FALSE
