SPECIFICATION Spec
CONSTANTS
    k1 = k1
    k2 = k2
    k3 = k3
    None = None
    Text = Text
    IntMin = 0
    IntMax = 2
    HeapFactor = 1
    HeapSlack = 1
    Cost <- UnitCost
    Keys <- OneKey
    PrimaryOptions <- NoCap
    Commands <- DeadlineCommands
    Limit = 3
    MaxNow = 3
    MaxWrites = 3
    MaxLosses = 1
INVARIANT LiveKeysReplicated
