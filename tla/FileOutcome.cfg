SPECIFICATION Spec
CONSTANTS
    i1 = i1
    i2 = i2
    h1 = h1
    h2 = h2
    w1 = w1
    w2 = w2
    g1 = g1
    NoItem = NoItem
    Item <- TwoItems
    Hash <- Hashes
    Content <- SameContent
    Refusal <- FirstUnrouted
    Scanned <- OneItem
    Worker <- Workers
    Gate <- OneGate
    MaxAttempts = 2
    MaxAnalysisAttempts = 2
    Fault = {"silent", "crash", "gate"}
    MaxFaults = 2
    MaxSends = 4
SYMMETRY Symmetry
INVARIANTS
    AnalysisIsDue
    AnswerMatchesItems
