\* One job whose lease may expire, claimed twice, over three sessions.
SPECIFICATION Spec
CONSTANTS
    Jobs = {j1}
    MaxClaims = 2
    MaxSessions = 3
    MaxHeirs = 1
    MaxRetries = 1
    KillWorks = FALSE
    Groups = FALSE
    Busy = FALSE
    NoClaim = NoClaim
INVARIANTS
    SpawnedOncePerClaim
    RunningIsReal
    IInv
PROPERTY
    ImplementsJobLifecycle
\* A stopped service is not started again once the sessions are used up.
CHECK_DEADLOCK FALSE
