SPECIFICATION PeerFairSpec
CONSTANTS
    c1 = c1
    c2 = c2
    Conns = {c1, c2}
    MaxClients = 1
    RequirePass = TRUE
    IsReplica = FALSE
    Policies = {"always", "everysec", "no", "off"}
    MaxAccepts = 3
CHECK_DEADLOCK FALSE
INVARIANTS TypeOK CountExact StopDisconnects StopSyncs
PROPERTIES AuthRequired SlowClientReleased StopReturns
