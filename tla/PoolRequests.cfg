SPECIFICATION FairSpec
CONSTANTS
    r1 = r1
    r2 = r2
    r3 = r3
    s1 = s1
    s2 = s2
    Requests = {r1, r2, r3}
    Shards = {s1, s2}
    ShardOf <- TwoShards
    Batch <- Pipelined
    Oversized = {r1}
    PoolSize = 1
    Password = TRUE
    MaxConns = 3
    MaxBreaks = 1
CHECK_DEADLOCK FALSE
INVARIANTS TypeOK ReplyIsOwn PoolBounded NoBlindRetry ClosedForGood
PROPERTY RequestEnds
