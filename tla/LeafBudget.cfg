SPECIFICATION BudgetFairSpec
CONSTANTS
    Call = {c1, c2, c3}
    Request = {0, 2, 3}
    Usage = {1, 3}
    Price = {1, 2}
    PerCallMax = 2
    MaxTokens = 4
    MaxDollars = 5
    DollarsPerToken = 1
    Retries = 1
INVARIANTS CapsHold MintsAccounted
CHECK_DEADLOCK FALSE
