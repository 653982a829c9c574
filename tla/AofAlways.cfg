SPECIFICATION FairSpec
CONSTANTS
    c1 = c1
    c2 = c2
    c3 = c3
    Clients <- ClientsThree
    Rewriter = Rewriter
    Syncer = Syncer
    None = None
    Fsync = "always"
    MaxWrites = 3
    MaxFaults = 1
    MaxCrashes = 2
    RenameDurable = TRUE
INVARIANTS TypeOK AckedIsDurable LogMatchesStore
PROPERTIES CommitReturns ImplementsDurableStore
