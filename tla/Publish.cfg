SPECIFICATION Spec
CONSTANTS
    Gather = {g1, g2}
    p1 = p1
    p2 = p2
    Probe = {p1, p2}
    InPlace = {p2}
    Answers <- MCAnswers
    MaxRuns = 3
SYMMETRY Symmetry
INVARIANTS PartialIsTold ListedIsClean AnchorsNear BytesOfTheRun
CHECK_DEADLOCK FALSE
