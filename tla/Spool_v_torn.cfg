\* A drain that meets a record being written.
SPECIFICATION Spec
CONSTANTS
    JobSeq <- OneJob
    Pumps = {"out"}
    MaxRestarts = 0
    RemoveOpen = FALSE
    NoFile = NoFile
INVARIANT DurablySpooled
CHECK_DEADLOCK FALSE
