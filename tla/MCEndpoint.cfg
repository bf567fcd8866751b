\* Two callers; two attempts, which may land in either order; channels that one
\* message fills; two reports, which may come in either order; a change of
\* the intervals.
SPECIFICATION Spec
CONSTANTS
    Callers = {c1, c2}
    OnlyClose = {}
    Conns = {r1, r2}
    Configs <- MCConfigs
    None = None
    ChanSize = 1
    MaxReports = 2
SYMMETRY Symmetry
INVARIANTS
    OnlineMeansConnected
    ConnectionsAccounted
    RunIsInformed
    HealthConverges
    OfflineReconnects
PROPERTIES
    UnavailableIsRecorded
\* Once closed, the endpoint stops.
CHECK_DEADLOCK FALSE
