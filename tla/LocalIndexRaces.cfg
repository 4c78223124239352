\* Two laptops, three uploads of one or two batches with two files at most.
CONSTANTS
    r1 = r1
    r2 = r2
    s1 = s1
    s2 = s2
    name = name
    DefaultExt = {"md"}
    DeniedName = {"target"}
    DeniedFile = {"lock"}
    MaxSize = 2
    MaxFiles = 2
    MaxRoots = 2
    MaxBytes = 2
    Client = {a, b}
    Org = {o1, o2}
    Name = {name}
    LongName = {}
    Remote = {r1, r2}
    NameOf <- MCNameOf
    Spelling = {s1, s2}
    Workspaces <- MCWorkspaces
    MaxNumber = 3
    MaxProject = 3
    MaxToken = 1
    MaxRun = 3
    NoOrigin = NoOrigin
SPECIFICATION Spec
SYMMETRY Symmetry
INVARIANTS TokenScope RemotesStayApart UploadIsAccounted
PROPERTIES GrantsAreKept
CHECK_DEADLOCK FALSE
