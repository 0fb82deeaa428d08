SPECIFICATION NetworkSpec
CONSTANTS
    Known <- OneNetwork
    Retries = 2
    QueueSize = 3
    Confs <- SomeConfs
    Interfaces = {"caller"}
    MaxCalls = 1
    MaxMishaps = 2
    Keys = {k1, k2}
    Given = {5}
    MaxItems = 2
    Defaults <- OneDefault
    None = None
    MaxRequests = 3
    MaxRestarts = 1
    MaxFaults = 1
    Hosts <- ThreeHosts
    Self = "self"
    Broker = "broker"
    Default = "default"
    ListenTicks = 2
    MaxMissed = 1
    MaxClients = 2
    MaxFailures = 1
CONSTRAINT
    NothingLost
INVARIANTS
    StatusSettles
    ReloadsWhatIsListed
    HandleIsLive
    OneClient
    
PROPERTIES
    ComesBack
    RadioComesUp
CHECK_DEADLOCK FALSE
