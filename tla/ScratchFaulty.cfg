\* Three calls, two bodies, calls that die anywhere.
CONSTANTS
    Call = {a, b, c}
    Hash = {h1, h2}
    MaxItem = 3
    Faults = TRUE
    NoHash = NoHash
SPECIFICATION Spec
SYMMETRY Symmetry
INVARIANTS OneItemPerContent ToldIsSaved NoOrphan
PROPERTIES OrphanStaysUnsaved
CHECK_DEADLOCK FALSE
