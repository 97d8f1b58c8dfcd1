CONSTANTS
    Session = {s1}
    Runner = {r1}
    Token = {t1}
    Delayable = {}
    Awaited = {}
    Worker = worker
    None = None
    MayShutdown = FALSE
    StoreMayFail = TRUE
SPECIFICATION FairSpec
PROPERTY PromptOffered
PROPERTY PoolDrains
