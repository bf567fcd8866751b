\* Two callers, so that Poll and Close meet; three invocations, so that one can
\* run while two others wait to be turned away.
SPECIFICATION FairSpec
CONSTANTS
    Callers = {c1, c2}
    Invocations = {i1, i2, i3}
    None = None
INVARIANTS
    OneInvocation
    NoSendOnClosedPulse
    ClosingCancels
PROPERTIES
    SourceContract
    CallsReturn
    Quiesces
\* After Close everything has returned: the poller really stops.
CHECK_DEADLOCK FALSE
