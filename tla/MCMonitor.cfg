\* One caller may be stopping while another one waits; a serial listener and one
\* that keeps receiving, as in the service; a channel that one update fills.
SPECIFICATION FairSpec
CONSTANTS
    Callers = {c1, c2}
    Listeners = {stathat, service}
    Serial = {stathat}
    Conns = {k1, k2}
    ChanSize = 1
    None = None
INVARIANTS
    BroadcastsToOpenChannels
PROPERTIES
    RoundsComplete
    KeepsLifecycle
\* Closed, the monitor stops.
CHECK_DEADLOCK FALSE
