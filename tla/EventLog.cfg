SPECIFICATION FairSpec
CONSTANTS
    Workflow = {w1, w2}
    EventId = {1, 2, 3}
    Nobody = Nobody
    Nothing = Nothing
    MaxTime = 1
    MaxShort = 1
INVARIANTS ReplayLosesNothing ReplayFollowsChain
PROPERTIES RefusedByTheTornOnly EmitsEnd
CHECK_DEADLOCK FALSE
