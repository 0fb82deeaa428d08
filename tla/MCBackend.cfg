SPECIFICATION BackendSpec
CONSTANTS
    Nobody = Nobody
    Chats = {c1}
    Devices = {d1, d2}
    PollPeriod = 1
    FirstPoll = 0
    AntiFlood = 2
    MaxQueries = 2
    MaxCommands = 3
    MaxRestarts = 1
    Simulated = Simulated
    Nothing = Nothing
    Interval = 3
    MaxLatency = 2
    MaxFetches = 2
    MaxRefetches = 1
    MaxPoint = 3
    MaxOutages = 2
CONSTRAINT
    Budget
INVARIANTS
    ToldIsTrue
    OneAtATime
PROPERTIES
    KeepsAlerting
    RealStaysLatest
    LiveAgain
