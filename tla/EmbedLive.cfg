\* Two workers without faults; the provider may fail every call.
CONSTANTS
    Chunk = {c1, c2}
    FileChunk = {}
    Worker = {w1, w2}
    BatchSize = 1
    MaxAttempts = 2
    DefaultProfile = "old"
    Paced = TRUE
    MaxJob = 2
    Faults = FALSE
SPECIFICATION FairSpec
PROPERTIES BackfillEnds
CHECK_DEADLOCK FALSE
