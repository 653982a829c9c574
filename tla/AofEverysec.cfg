SPECIFICATION FairSpec
CONSTANTS
    c1 = c1
    c2 = c2
    c3 = c3
    Clients <- ClientsTwo
    Rewriter = Rewriter
    Syncer = Syncer
    None = None
    Fsync = "everysec"
    MaxWrites = 3
    MaxFaults = 1
    MaxCrashes = 2
    RenameDurable = TRUE
INVARIANTS LogMatchesStore CleanMeansSynced
PROPERTIES EverySecondSynced ImplementsDurableStore
