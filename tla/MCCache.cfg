\* One key, on which two callers meet; three values: the log holds records of
\* replaced entries, out of order.  Three instants: set, expiring and expired.
SPECIFICATION FairSpec
CONSTANTS
    Keys = {k1}
    Callers = {c1, c2}
    None = None
    Duration = 1
    MaxTime = 2
    MaxValues = 3
INVARIANTS
    CachedValuesAreLive
    SingleFlight
    EntriesAwaitCleanup
PROPERTIES
    LeavingIsReleasing
    CallsReturnOrAreLost
\* Calls may stop coming, and a lost one stays where it is.
CHECK_DEADLOCK FALSE
