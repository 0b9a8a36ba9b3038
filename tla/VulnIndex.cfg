SPECIFICATION IndexFairSpec
CONSTANTS
    Refresher = {p1, p2}
    Sources <- MCSources
    Advisories <- MCAdvisories
    Chunks <- MCChunks
    Bad = Bad
    MaxChunks = 2
    MaxChanges = 1
INVARIANTS DigestNamesTable
CHECK_DEADLOCK FALSE
