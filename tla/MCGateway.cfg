SPECIFICATION GatewaySpec
CONSTANTS
    Heartbeats = {h1}
    Noise = Noise
    Echo = Echo
    None = None
    MaxVersion <- MCOneOfEach
    Faulty = TRUE
INVARIANTS
    NotDeaf
    NoSpuriousWake
PROPERTIES
    ListensAgain
    PendingIsRelayed
    AnswersEachHeartbeat
