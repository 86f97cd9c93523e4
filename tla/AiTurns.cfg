SPECIFICATION AiSpec
CONSTANTS
    r1 = r1
    r2 = r2
    r3 = r3
    t1 = t1
    t2 = t2
    t3 = t3
    Request = {r1, r2, r3}
    Turn = {t1, t2, t3}
    NoRequest = NoRequest
    Concurrency = 1
    Daily = 3
    TokenLimit = 4
    MaxOutput = 2
    Usage = {1, 3}
    MaxTurnFaults = 2
SYMMETRY Symmetry
CHECK_DEADLOCK FALSE
INVARIANTS
    AiTypeOK
    SentOnceUnderReservation
    ConcurrencyRespected
    BudgetRespected
    HeldUntilKnown
    EnvelopeIsHonest
PROPERTY SettledIsFinal
