\* A channel opened three times, of a device that comes and goes.
SPECIFICATION FairSpec
CONSTANTS
    MaxOpens = 3
    MaxBytes = 2
INVARIANTS OneReader NoHandleLeaks
PROPERTY CloseEnds
CHECK_DEADLOCK FALSE
