\* Output of both streams against a budget one unit short of it; trees that
\* may never end and may survive killTree.
SPECIFICATION FairSpec
CONSTANTS
    MaxUnits = 2
    MaxOutput = 3
    BatchUnits = 2
    KillWorks = FALSE
INVARIANTS
    TypeOK
    StreamsInOrder
    BudgetExact
    SeqsUsedOnce
    NothingLeftBehind
    OutcomeOfTheScript
PROPERTIES
    LateLogsFromAbandoned
    StartedReturns
\* A run that has returned stops.
CHECK_DEADLOCK FALSE
