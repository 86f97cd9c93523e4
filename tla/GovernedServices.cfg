SPECIFICATION ServiceSpec
CONSTANTS
    u1 = u1
    u2 = u2
    w1 = w1
    q1 = q1
    q2 = q2
    k1 = k1
    k2 = k2
    d1 = d1
    d2 = d2
    g1 = g1
    g2 = g2
    c1 = c1
    c2 = c2
    m1 = m1
    m2 = m2
    m3 = m3
    x1 = x1
    Work = {w1}
    Reviewer = {u1, u2}
    NoWork = NoWork
    Worth = {2}
    MaxScores = 2
    Redemption = {q1, q2}
    RequestKey = {k1, k2}
    NoRequestKey = NoRequestKey
    MaxServices = 1
    Price <- Prices
    Quantity = {2}
    Member = {u1, u2}
    Admin = {u1, u2}
    Draft = {d1, d2}
    NoDraft = NoDraft
    Proposal = {g1, g2}
    Nobody = Nobody
    Choice = {"support", "oppose"}
    MaxVotes = 2
    Console = {u1, u2}
    Content = {c1, c2}
    NoContent = NoContent
    Similar <- Alike
    Memory = {m1, m2, m3}
    NoMemory = NoMemory
    Consolidation = {x1}
SYMMETRY Symmetry
INVARIANTS
    SparksTypeOK
    AwardedOnce
    ChargedOnce
    HoldsAreBacked
    SparksConserved
    OneProtocolInForce
    HistoryIsAChain
    InForceByIndependentVote
    OneMemberOneVote
    LeavesForceOnce
    SupersessionAdvances
PROPERTIES
    ResolutionIsFinal
    DecisionIsFinal
