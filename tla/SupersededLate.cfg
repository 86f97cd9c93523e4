SPECIFICATION Spec
CONSTANTS
    k1 = k1
    k2 = k2
    k3 = k3
    p1 = p1
    p2 = p2
    tab1 = tab1
    tab2 = tab2
    s1 = s1
    s2 = s2
    NoPayload = NoPayload
    NoKey = NoKey
    DuplicateRaises = FALSE
    Key <- TwoKeys
    Payload <- OnePayload
    Tab <- OneTab
    Slot <- TwoSlots
    MaxFaults = 0
    LateCalls = FALSE
    Overlap = TRUE
SYMMETRY Symmetry
INVARIANT SupersededIsAbsent
