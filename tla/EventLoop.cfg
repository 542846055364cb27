\* Two remote threads, one fd: safety.
CONSTANTS
    Remotes = {r1, r2}
    LoopThread = loop
    Fds = {f1}
    Kinds = {"IN", "OUT"}
    WakeFd = wakefd
    MaxEvents = 2
    MaxCalls = 1
SPECIFICATION Spec
SYMMETRY RemoteSymmetry
INVARIANTS TypeOK TasksWakeLoop StopWakesLoop HandlerOnce RegistrationCatchesUp
