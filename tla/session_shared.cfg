CONSTANTS
    Step <- MeetStep
    Kind <- MCKind
    Children <- MeetChildren
    Enclosing <- NoLoops
    Faults <- NoFaults
    Starts = {"fork"}
    Shared = {"join"}
    Users = {"ann", "bob"}
    PromptOwner <- MCOwner
    NoUser = NoUser
    None = None
    Final = Final
    WaitFor <- WaitAll
    Rounds = 0
    LoopCap = 1
    QStateCap = 2
    ConcurrentExec = 2
    MaxStates = 5
    MaxRuns = 5
    MaxResumes = 0
    MayWait = {}
    MayCancel = {}
    MayAbandon = {}
    MayShutdown = {}
SPECIFICATION FairSpec
INVARIANT JoinWaits
