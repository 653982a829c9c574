SPECIFICATION Spec
CONSTANTS
    k1 = k1
    k2 = k2
    k3 = k3
    None = None
    Text = Text
    IntMin = 0
    IntMax = 2
    HeapFactor = 1
    HeapSlack = 1
    Cost <- DigitCost
    Keys <- ThreeKeys
    ServerOptions <- EachPolicy
    Commands <- MemoryCommands
    MaxNow = 1
    MaxLog = 3
    MaxLost = 1
SYMMETRY PairSymmetry
INVARIANTS RestartFidelity MemoryAccounting MemoryBound OvershootBounded
PROPERTY WrittenKeySurvives
