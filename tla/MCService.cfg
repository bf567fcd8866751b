\* Two requests that spawn a goroutine, a Pause and a Continue that cross or one of
\* them next to a Stop, and as many Interrogates as the manager makes before,
\* between and after them.
SPECIFICATION FairSpec
CONSTANTS
    Asked = {"interrogate", "stop", "pause", "continue"}
    Jobs = {j1, j2}
    ChanSize = 1
    None = None
INVARIANTS
    StatusAgrees
PROPERTIES
    StartupEnds
    StopsClean
\* A service that has stopped has nothing to do.
CHECK_DEADLOCK FALSE
