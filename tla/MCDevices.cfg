SPECIFICATION DevicesSpec
CONSTANTS
    Half = 16
    Asks <- AskSome
    MaxTimers = 8
    LongPress = 5
    DoublePress = 8
    Debounce = 3
    RegisteredBy = 6
    MaxTime = 22
    Letters = {"a", ":", "."}
    NameMax = 3
    PatternMax = 5
    MaxLength = 4
    BufferSize = 3
    MaxReadings = 7
    Fds = {f1, f2, f3}
    ClientsMax = 2
    MaxPublished = 2
    MaxSendFailures = 2
INVARIANTS
    
    MatchesAsMeant
    HistoryWhenFull
    NobodyForgotten
PROPERTIES
    InTurn
CHECK_DEADLOCK FALSE
