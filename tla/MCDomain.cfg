\* Two users, so that one waits while another has been woken; three polls, the
\* first ones of which may fail; a channel that one update fills.
SPECIFICATION FairSpec
CONSTANTS
    Callers = {c1, c2}
    Users = {u1, u2}
    Listeners = {l1, l2}
    ChanSize = 1
    MaxPolls = 3
    None = None
INVARIANTS
    ReadyHoldsValue
PROPERTIES
    ConfigurationAdvances
    WaitersReturn
    KeepsLifecycle
\* Closed, the monitor stops.
CHECK_DEADLOCK FALSE
