\* Two groups, three members, four connections: goroutines meet in the cache
\* as readers and as writers.
SPECIFICATION FairConfigSpec
CONSTANTS
    a = a
    b = b
    c = c
    NoDN = NoDN
    Directory <- TwoGroups
INVARIANTS
    ResultIsHonest
PROPERTY
    FetchReturns
\* A fetch ends.
CHECK_DEADLOCK FALSE
