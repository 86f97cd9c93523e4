SPECIFICATION Spec
CONSTANTS
    i1 = i1
    i2 = i2
    h1 = h1
    h2 = h2
    w1 = w1
    w2 = w2
    g1 = g1
    NoItem = NoItem
    Item <- TwoItems
    Hash <- Hashes
    Content <- SameContent
    Refusal <- AllSound
    Scanned <- NoneScanned
    Worker <- Workers
    Gate <- OneGate
    MaxAttempts = 3
    MaxAnalysisAttempts = 3
    Fault = {}
    MaxFaults = 0
    MaxSends = 3
SYMMETRY Symmetry
INVARIANT AnsweredShowsOutcome
