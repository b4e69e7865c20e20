CONSTANTS
    Instances = {i1, i2}
    Records = {1, 2}
    MaxAttempts = 2
    Batch = 1
    MaxFaults = 1
    Nobody = Nobody
SPECIFICATION FairSpec
INVARIANTS
    TypeOK
    PublishedWasSent
    GivenUpAfterMaxAttempts
    DuplicatesAreExcused
PROPERTIES
    EveryFactSettles
