SPECIFICATION FairSpec
CONSTANTS
    IPs = {i1, i2}
    Cap = 4
    Cost = 2
    IdleTTL = 4
    MaxTime = 6
INVARIANTS
    TypeOK
    RateBound
PROPERTIES
    RefinesTokenBucket
    IdleBucketsSwept
