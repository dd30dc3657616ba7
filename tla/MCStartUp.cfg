SPECIFICATION FairSpec
CONSTANTS
    Threads = {t1, t2, t3}
    MaxStarts = 2
    None = None
INVARIANTS
    TypeOK
    QueriesAreConnected
    RegisteredOnce
PROPERTIES
    EveryRequestEnds
