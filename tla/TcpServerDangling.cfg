CONSTANTS
    Conns = {c1}
    PoolSize = 1
    MaxEvents = 10
    MaxRequests = 1
SPECIFICATION Spec
INVARIANT NoDanglingHandler
