\* One job with both pumps and the loop's drain beside the heartbeat's, and a
\* restart.
SPECIFICATION FairSpec
CONSTANTS
    JobSeq <- OneJob
    Pumps = {"out", "err"}
    MaxRestarts = 1
    RemoveOpen = TRUE
    NoFile = NoFile
INVARIANTS SpoolInv EveryPayloadAccounted
PROPERTIES ReplayedResultsComeLast ImplementsOutbox SpoolEmpties
\* The client idles when every job is over and the spool is empty.
CHECK_DEADLOCK FALSE
