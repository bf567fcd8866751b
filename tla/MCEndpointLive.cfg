\* A caller of every query and of UpdateConfig, which may be lost or hang, against one
\* that closes;
\* two attempts, whose updateConnection() goroutines fill the channel with the mutex
\* held; no reports of the call tracker.
SPECIFICATION LiveSpec
CONSTANTS
    Callers = {c1, c2}
    OnlyClose = {c2}
    Conns = {r1, r2}
    Configs <- OneConfig
    None = None
    ChanSize = 1
    MaxReports = 0
PROPERTIES
    KeepsContract
\* Once closed, the endpoint stops.
CHECK_DEADLOCK FALSE
