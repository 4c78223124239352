\* Two indexing transactions and a bulk, two paths, two contents.
CONSTANTS
    Call = {a, b}
    Reviewer = {r}
    Path = {p1, p2}
    Hash = {h1, h2}
    MaxItem = 3
    Faults = TRUE
    NoPath = NoPath
    NoHash = NoHash
SPECIFICATION Spec
SYMMETRY Symmetry
INVARIANTS NothingIsDropped OneVersionWaits
PROPERTIES ReviewIsFinal
CHECK_DEADLOCK FALSE
