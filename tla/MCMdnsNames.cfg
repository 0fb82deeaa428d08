SPECIFICATION ResponderSpec
CONSTANTS
    QueueLen = 2
    None = None
    Pcbs = {"v4"}
    Services = {"http", "mqtt"}
    Type <- TypeIsItem
    AtStart = {"http"}
    MaxServices = 2
    Callers = {"app"}
    MaxRequests = 1
    MaxPackets = 1
    MaxLinks = 2
INVARIANTS
    BusyHasItsPacket
    OnlyProbedIsAnswered
PROPERTIES
    Settles
CHECK_DEADLOCK FALSE
