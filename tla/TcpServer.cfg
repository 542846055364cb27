\* Two connections on a pool of two IO threads.
CONSTANTS
    Conns = {c1, c2}
    PoolSize = 2
    MaxEvents = 10
    MaxRequests = 1
SPECIFICATION FairSpec
INVARIANTS TypeOK ClosedIsForgotten OpenIsWatched
PROPERTIES NeverRevived LeaverIsDestroyed
