\* Three devices with a map, without one, or labelled between the runs, three runs, killed anywhere.
SPECIFICATION Spec
CONSTANTS
    Devices = 3
    Blank = Blank
    NotANumber = NotANumber
    MapFiles <- MapOrNone
    Answers <- BaysAndTypos
    Workers = 2
    MaxRuns = 3
    MaxScans = 1
    MaxLost = 1
    MayCrash = TRUE
INVARIANTS SkippedOnlyIfUpdated RowsTellOutcomes RunsUseFinishedLabels
CHECK_DEADLOCK FALSE
