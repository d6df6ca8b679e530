SPECIFICATION Spec
CONSTANTS
    e1 = e1
    e2 = e2
    k1 = k1
    k2 = k2
    k3 = k3
    k4 = k4
    Entities = {e1, e2}
    Keys = {k1, k2, k3, k4}
    Fingerprints = {1, 2}
    Scans <- Device
    MaxScans = 2
    MaxRecords = 1
    MaxRounds = 1
    DryRuns = FALSE
    NoBaseline = NoBaseline
INVARIANT RemovedIsGone
\* No run is started once the bound on envelopes is reached.
CHECK_DEADLOCK FALSE
