SPECIFICATION Spec
CONSTANTS
    lang = lang
    manifest = manifest
    tests = tests
    health = health
    Prelude = {lang}
    Rest = {manifest,tests}
    RunsLast <- OneTail
    Reporters = {lang}
    Filtered = {manifest}
    Memoized = {manifest, tests}
    Content = {c1, c2}
    Nothing = Nothing
    Bound = 2
    MaxGathers = 2
    MaxEdits = 1
INVARIANTS  OutputsMatchKey SamePinSameParse
PROPERTIES EveryGatherEnds
CHECK_DEADLOCK FALSE
