\* Any setting, with a database or without; five attempts, two polls in each.
SPECIFICATION FairSpec
CONSTANTS
    MaxRetries = 5
    MaxPolls = 2
INVARIANTS SucceededMeansProvisioned SucceededMeansAssigned
PROPERTY WorkerEnds
CHECK_DEADLOCK FALSE
