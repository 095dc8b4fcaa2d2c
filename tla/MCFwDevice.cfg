\* Three images of three chunks over a line that loses packets, a device that may
\* end a write, restart or leave, up to three verification attempts.
SPECIFICATION FairSpec
CONSTANTS
    Images <- ThreeImages
    MaxVerifies = 3
    Chunks = 3
    DeviceMayEnd = TRUE
INVARIANTS SuccessMeansWritten ChunkFollowsChunk
INVARIANTS RebootOnlyWhenWritten SucceededMeansApplied
PROPERTY WorkerEnds
CHECK_DEADLOCK FALSE
