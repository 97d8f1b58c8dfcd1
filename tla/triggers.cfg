CONSTANTS
    Absent = Absent
    Client = {c1, c2}
    Trigger <- MCTrigger
    Version <- MCVersion
    Broken <- MCBroken
    NoRunAs <- MCNoRunAs
    Edits <- MCEdits
    Stores <- MCStores
    Handler = {1, 2, 3, 4, 5, 6}
    MaxCalls = 3
SPECIFICATION Spec
INVARIANTS TypeOK RegTracksBus BusMirrorsStore
SYMMETRY Sym
