CONSTANTS
    Step <- CallersStep
    Kind <- MCKind
    Children <- CallersChildren
    Enclosing <- NoLoops
    Faults <- CallersFaults
    Starts = {"fork", "excl", "join", "forkAsk", "forkDelay", "forkAll", "forkFail", "forkEnd", "z"}
    Shared = {"meet"}
    Users = {"ann", "bob"}
    PromptOwner <- MCOwner
    NoUser = NoUser
    None = None
    Final = Final
    WaitFor <- WaitAll
    Rounds = 0
    LoopCap = 1
    QStateCap = 2
    ConcurrentExec = 2
    MaxStates = 9
    MaxRuns = 9
    MaxResumes = 1
    MayWait = {"excl", "forkAsk", "forkFail", "z", None}
    MayCancel = {"excl", "forkFail", "z"}
    MayAbandon = {"forkAsk"}
    MayShutdown = {"forkAsk", "forkDelay", "forkFail", "forkEnd"}
SPECIFICATION FairSpec
INVARIANT TypeOK
INVARIANT FailureIsGenuine
INVARIANT LockDiscipline
PROPERTY FailureReported
PROPERTY WaitAnswered
PROPERTY OutcomeFinal
PROPERTY WorkerStops
PROPERTY ImplementsLife
