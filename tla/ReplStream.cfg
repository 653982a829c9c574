SPECIFICATION FairSpec
CONSTANTS
    k1 = k1
    k2 = k2
    k3 = k3
    None = None
    Text = Text
    IntMin = 0
    IntMax = 2
    HeapFactor = 1
    HeapSlack = 1
    Cost <- UnitCost
    Keys <- ThreeKeys
    PrimaryOptions <- CapTwo
    Commands <- PlainCommands
    Limit = 4
    MaxNow = 0
    MaxWrites = 3
    MaxLosses = 1
INVARIANTS TypeOK InFlightFidelity
PROPERTIES BacklogBounded EventuallyConsistent
