\* The owner makes the thread and two calls to its loop, whose event array has
\* room for one event.
CONSTANTS
    Remotes = {r1}
    LoopThread = loop
    Fds = {f1}
    Kinds = {"IN"}
    WakeFd = wakefd
    MaxEvents = 1
    MaxCalls = 2
    Owner = r1
SPECIFICATION FairThreadSpec
INVARIANTS LoopIsThere CallsInOrder
PROPERTIES CallsAreRun StopReturns OwnerReturns
