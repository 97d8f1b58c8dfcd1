CONSTANTS
    Session = {s1}
    Sender = Sender
    Nobody = Nobody
SPECIFICATION Spec
INVARIANTS TypeOK ClosedAreRemoved
PROPERTIES BrokenAreClosed SendEnds
CHECK_DEADLOCK FALSE
