\* Two jobs, a shutdown or crash at any step, and a second session.
SPECIFICATION Spec
CONSTANTS
    Jobs = {j1, j2}
    MaxClaims = 1
    MaxSessions = 2
    MaxHeirs = 1
    MaxRetries = 0
    KillWorks = TRUE
    Groups = TRUE
    Busy = FALSE
    NoClaim = NoClaim
SYMMETRY Symmetry
INVARIANTS
    TypeOK
    VerdictHonest
    NoStrayTree
    ShutdownLeavesRunning
\* A stopped service is not started again once the sessions are used up.
CHECK_DEADLOCK FALSE
