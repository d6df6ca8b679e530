\* A service and a console process with one token and one state file.
SPECIFICATION ServeModeSpec
CONSTANTS
    u1 = u1
    u2 = u2
    t1 = t1
    Procs = {svc, con}
    Service = svc
    Servers = {u1, u2}
    BadUrl = BadUrl
    Tokens = {t1}
    Configs <- Options
    InitFiles <- Files
    MaxStarts = 2
    Given = Given
    BadKey = BadKey
    Garbage = Garbage
    None = None
    Jobs = {j1}
    BackoffSteps = 1
    NoCode = NoCode
INVARIANTS ServeModeTypeOK KeyStaysWithItsServer TokenAccounted StoppedMeansOver
PROPERTIES KeyNeverLost QueuedIsClaimed StopEnds
\* The agent idles when it is stopped and not started again.
CHECK_DEADLOCK FALSE
