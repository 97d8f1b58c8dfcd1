CONSTANTS
    Session = {s1}
    Runner = {r1, r2}
    Token = {t1}
    Delayable = {t1}
    Awaited = {s1}
    Worker = worker
    None = None
    MayShutdown = TRUE
    StoreMayFail = TRUE
SPECIFICATION Spec
SYMMETRY Symmetry
INVARIANT TypeOK
INVARIANT CompletedIsGenuine
INVARIANT SentOnce
 
CHECK_DEADLOCK FALSE
