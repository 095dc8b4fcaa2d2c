\* The user quits fw-update-tui before the workers are launched.
SPECIFICATION FairSpec
CONSTANTS
    Devices = 3
    Workers = 2
    BayOf <- OwnBays
    Images = 1
    Tui = {TRUE}
    UiMayFail = FALSE
INVARIANT NoRugPull
CHECK_DEADLOCK FALSE
