SPECIFICATION Spec
CONSTANTS
    Clients = {c1}
    Acceptor = main
    PoolSize = 2
    MaxFds = 5
    Base = 2
    IdLength = 2
INVARIANTS SetupTypeOK EventIsOwn
PROPERTIES IdsAreConsecutive
