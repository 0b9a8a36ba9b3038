SPECIFICATION Spec
CONSTANTS
    Proc = {p1, p2}
    Key = {k1, k2}
    Output = {o1, o2}
    Nothing = Nothing
    TTL = 0
    MaxTime = 1
    MaxAppends = 2
    ShortWrites = TRUE
SYMMETRY Symmetry
PROPERTIES MeetsContract ViewNeverGoesBack
