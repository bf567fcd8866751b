\* The third listener outgrows the first backing array.  Of three backlogs one
\* may have arrived, one be on its way and one be still to come when it does.
SPECIFICATION FairUpdateSpec
CONSTANTS
    Backlogs = {b1, b2, b3}
    Listeners = {l1, l2, l3}
    Cancellation = Cancellation
    AllowCancel = TRUE
INVARIANTS
    EachValueOnce
    ClosedIsComplete
PROPERTIES
    EarlyListenersClose
\* An update is over when it has been delivered.
CHECK_DEADLOCK FALSE
