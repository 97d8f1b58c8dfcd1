CONSTANTS
    Caller = {c1, c2}
    Worker = {w1, w2, w3}
    NoProc = NoProc
    Handler <- MCHandler
    Event <- MCEvent
    Matching <- MCMatching
    Weight <- MCWeight
    Body <- MCBody
    Boot <- MCBoot
    Fired <- MCFired
    Changes <- MCChanges
    Scheduled <- MCScheduled
    MaxCalls = 3
    MaxTicks = 1
SPECIFICATION Spec
INVARIANTS WaitForSeesOneRegistry
PROPERTIES FailsOnFirstError CallsEnd
CHECK_DEADLOCK FALSE
