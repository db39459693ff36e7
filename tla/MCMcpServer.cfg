CONSTANTS
    b = b
    d = d
    t = t
    NoCall = NoCall
    MaxWorkers = 2
    Call <- MCCall
    Builds <- MCBuilds
    Deploys <- MCDeploys
    Unprintable <- MCUnprintable
SPECIFICATION FairSpec
INVARIANTS
    TypeOK
    SlotsAreCalls
PROPERTIES
    CancelledChildIsKilled
    RefinesToolCalls
    ServerExits
CHECK_DEADLOCK FALSE
