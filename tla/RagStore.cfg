SPECIFICATION Spec
CONSTANTS
    r1 = r1  r2 = r2  r3 = r3
    h1 = h1  h2 = h2  h3 = h3  h4 = h4
    p1 = p1  p2 = p2
    Record = {r1, r2, r3}
    Harvest = {h1, h2, h3, h4}
    Process = {p1, p2}
    Host <- Hosts
    Absent = Absent
    Nothing = Nothing
SYMMETRY Symmetry
INVARIANTS HeadMatches ListedQueryable HarvestsStay RebuildReproduces
