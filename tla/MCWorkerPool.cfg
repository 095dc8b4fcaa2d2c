\* Three devices, two workers, a plain command or the TUI, which the user may
\* leave at any time and which may fail.
SPECIFICATION FairSpec
CONSTANTS
    Devices = 3
    Workers = 2
    BayOf <- OwnBays
    Images = 1
    Tui = {TRUE, FALSE}
    UiMayFail = TRUE
INVARIANTS NoneLeftOut ConclusionIsTrue
PROPERTY CommandEnds
CHECK_DEADLOCK FALSE
