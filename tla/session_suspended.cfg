CONSTANTS
    Step <- AskStep
    Kind <- MCKind
    Children <- AskChildren
    Enclosing <- NoLoops
    Faults <- NoFaults
    Starts = {"fork"}
    Shared = {}
    Users = {"ann", "bob"}
    PromptOwner <- MCOwner
    NoUser = NoUser
    None = None
    Final = Final
    WaitFor <- WaitAll
    Rounds = 0
    LoopCap = 1
    QStateCap = 2
    ConcurrentExec = 2
    MaxStates = 5
    MaxRuns = 5
    MaxResumes = 2
    MayWait = {}
    MayCancel = {}
    MayAbandon = {}
    MayShutdown = {}
SPECIFICATION FairSpec
PROPERTY NotCompletedWhileSuspended
