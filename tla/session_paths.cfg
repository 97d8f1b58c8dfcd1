CONSTANTS
    Step <- PathsStep
    Kind <- MCKind
    Children <- PathsChildren
    Enclosing <- PathsNesting
    Faults <- PathsFaults
    Starts = {"fork", "join", "oneOf", "loop"}
    Shared = {}
    Users = {"ann", "bob"}
    PromptOwner <- MCOwner
    NoUser = NoUser
    None = None
    Final = Final
    WaitFor <- WaitAll
    Rounds = 2
    LoopCap = 2
    QStateCap = 2
    ConcurrentExec = 2
    MaxStates = 30
    MaxRuns = 30
    MaxResumes = 2
    MayWait = {}
    MayCancel = {}
    MayAbandon = {}
    MayShutdown = {}
SPECIFICATION FairSpec
INVARIANT OnePlace
INVARIANT NoStateLost
INVARIANT JoinSynchronises
INVARIANT LoopStackNests
INVARIANT NavigationSafe
PROPERTY EndsIfAnswered
