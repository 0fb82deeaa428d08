SPECIFICATION LookSpec
CONSTANTS
    QueueLen = 2
    None = None
    Searches = {s1, s2}
    Browsed = {b1}
    MaxAsked = 3
    MaxAnswers = 1
    Instances = {"lamp", "fan"}
    Hosts = {"pi", "nas", "me.local"}
    AddressesOf <- AddressesInUse
    Texts = {"on", "off"}
    SoughtService = "lamp"
    SoughtHost = "pi"
    Own = "me"
    OwnHost = "me.local"
    Alike = {"me"}
    Nil = Nil
    Limits = {1, 2}
    MaxHeard = 3
INVARIANTS
    EndsItsOwn
    SearchIsSound
    ToldOfChanges
PROPERTIES
    SearchesEnd
CHECK_DEADLOCK FALSE
