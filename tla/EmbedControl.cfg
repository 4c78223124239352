\* Two workers, crashes and lost answers, one chunk of a file.
CONSTANTS
    Chunk = {c1}
    FileChunk = {c1}
    Worker = {w1, w2}
    BatchSize = 1
    MaxAttempts = 2
    DefaultProfile = "old"
    Paced = TRUE
    MaxJob = 2
    Faults = TRUE
SPECIFICATION Spec
SYMMETRY WorkerSymmetry
INVARIANTS ReadyHasPoint DeletesOnlyRetired RecordedPointsAreQueued Inductive
PROPERTIES ReadyIsKept JobsEndOnce
CHECK_DEADLOCK FALSE
