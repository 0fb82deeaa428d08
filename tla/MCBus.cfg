SPECIFICATION EventBusSpec
CONSTANTS
    Clients = {"c1"}
    MaxNodes = 3
    QueueSize = 1
    MaxPosts = 2
    MaxShortages = 1
INVARIANTS
    HeldIsListed
PROPERTIES
    OnceRunsOnce
CHECK_DEADLOCK FALSE
