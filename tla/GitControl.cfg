\* Two workers, crashes and lost statements, one file of an untrusted source with
\* two contents, reviewers, and a clone that changes while it is read.
CONSTANTS
    Source = {s1}
    Trusted = {}
    Path = {p1}
    Hash = {h1, h2}
    Worker = {w1, w2}
    MaxJob = 2
    MaxRev = 1
    Faults = TRUE
    NoFile = NoFile
    NoSource = NoSource
    NoWorker = NoWorker
SPECIFICATION Spec
SYMMETRY WorkerSymmetry
INVARIANTS OneActiveJobPerSource ManifestIsFresh KnowledgeAgrees
PROPERTIES TerminalIsFinal AppliedOnlyBySuccess AbandonedCancelIsStuck MirrorsTheRepository
