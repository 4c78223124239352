\* Six chunks in three projects, limits up to two with a pool of four.
CONSTANTS
    Project = {"p1", "p2", "p3"}
    OrgOf <- MCOrgOf
    Chunk = {1, 2, 3, 4, 5, 6}
    Doc <- MCDoc
    FirstStatus <- MCFirstStatus
    Blank = "blank"
    User <- MCUser
    Agent <- MCAgent
    Question <- MCQuestion
    MaxLimit = 2
    HookLimit = 1
    EvaluationFloor = 2
    Multiplier = 2
    Cap = 4
    RrfK = 60
    Attempts = 2
    MaxChange = 1
SPECIFICATION Spec
INVARIANTS AnswersAreEntitled CompressKeepsTrust LexicalIsNotStarved
CHECK_DEADLOCK FALSE
