\* Without a location map a failed device can be left out of the third run.
SPECIFICATION Spec
CONSTANTS
    Devices = 3
    Blank = Blank
    NotANumber = NotANumber
    MapFiles <- NoMap
    Answers <- BaysAndTypos
    Workers = 1
    MaxRuns = 3
    MaxScans = 0
    MaxLost = 0
    MayCrash = FALSE
INVARIANT FailedAreRetried
CHECK_DEADLOCK FALSE
