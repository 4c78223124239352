\* Two workers that crash and lose statements, one weakly fair loop each; a
\* trusted source.
CONSTANTS
    Source = {s1}
    Trusted = {s1}
    Path = {p1}
    Hash = {h1}
    Worker = {w1, w2}
    MaxJob = 2
    MaxRev = 0
    Faults = TRUE
    NoFile = NoFile
    NoSource = NoSource
    NoWorker = NoWorker
SPECIFICATION FairSpec
INVARIANTS KnowledgeAgrees
PROPERTIES QueuedJobEnds ExpiredLeaseIsRecovered
