SPECIFICATION FairSpec
CONSTANTS
    k1 = k1
    k2 = k2
    k3 = k3
    None = None
    Text = Text
    IntMin = 0
    IntMax = 2
    HeapFactor = 1
    HeapSlack = 1
    Cost <- UnitCost
    Keys <- TwoKeys
    PrimaryOptions <- NoCap
    Commands <- SetCommands
    Limit = 2
    MaxNow = 0
    MaxWrites = 2
    MaxLosses = 0
PROPERTY EventuallyConsistent
