SPECIFICATION FairDrainsSpec
CONSTANTS
    i1 = i1
    i2 = i2
    h1 = h1
    h2 = h2
    w1 = w1
    w2 = w2
    g1 = g1
    NoItem = NoItem
    Item <- TwoItems
    Hash <- Hashes
    Content <- OwnContent
    Refusal <- AllSound
    Scanned <- OneItem
    Worker <- Workers
    Gate <- OneGate
    MaxAttempts = 2
    MaxAnalysisAttempts = 2
    Fault = {"call", "crash", "gate"}
    MaxFaults = 1
    MaxSends = 2
    ItemLimit = 2
    AnalysisLimit = 1
    MaxWakes = 1
INVARIANT AcknowledgedIsTerminal
PROPERTY SubmissionEnds
