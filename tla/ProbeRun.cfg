SPECIFICATION RunSpec
CONSTANTS
    Dispatched = {p1, p2, p3}
    MaxSpawns = 1
INVARIANTS ReturnedCallsLeaveNoChild
PROPERTIES EveryRunEnds
