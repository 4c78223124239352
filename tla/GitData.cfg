\* One worker without faults, two files of an untrusted source that come and go.
CONSTANTS
    Source = {s1}
    Trusted = {}
    Path = {p1, p2}
    Hash = {h1}
    Worker = {w1}
    MaxJob = 3
    MaxRev = 1
    Faults = FALSE
    NoFile = NoFile
    NoSource = NoSource
    NoWorker = NoWorker
SPECIFICATION Spec
SYMMETRY DataSymmetry
INVARIANTS DocumentsMatchRoot
PROPERTIES RemovedContentStaysOut
CHECK_DEADLOCK FALSE
