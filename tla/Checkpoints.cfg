SPECIFICATION FairSpec
CONSTANTS
    Orchestrator = {w1, w2}
    TransitionId = {t1, t2}
    Nobody = Nobody
    Nothing = Nothing
    Torn = Torn
    MaxDamage = 1
INVARIANTS ChainUnforked VerifiedWasCommitted LedgerContinuous
