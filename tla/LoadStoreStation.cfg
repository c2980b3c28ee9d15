SPECIFICATION Spec
CONSTANTS
    Addresses = {0, 2}
    Latencies = {1, 2, 3}
    ResStationSize = 1
    MaxReadQ = 1
    MaxWriteQ = 2
    NumAccesses = 5
INVARIANTS
    TypeOK
    QueuesBounded
PROPERTIES
    StationContract
    EveryAccessRetires
    ImplementsSequentialMemory
