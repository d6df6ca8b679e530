\* A cancel flag read for one job and acted on when another one runs.
SPECIFICATION Spec
CONSTANTS
    Jobs = {j1, j2}
    MaxClaims = 1
    MaxSessions = 1
    MaxHeirs = 1
    MaxRetries = 0
    KillWorks = TRUE
    Groups = TRUE
    Busy = TRUE
    NoClaim = NoClaim
INVARIANT CancelHitsRequested
CHECK_DEADLOCK FALSE
