\* Progress under fairness, with trees that die when they are killed, and what an
\* exited script has left behind out of taskkill's reach.
SPECIFICATION FairSpec
CONSTANTS
    Jobs = {j1}
    MaxClaims = 1
    MaxSessions = 2
    MaxHeirs = 1
    MaxRetries = 1
    KillWorks = TRUE
    Groups = FALSE
    Busy = TRUE
    NoClaim = NoClaim
INVARIANTS
    IInv
PROPERTIES
    LoopReturns
    SpoolSettles
CHECK_DEADLOCK FALSE
