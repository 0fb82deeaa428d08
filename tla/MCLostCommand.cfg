SPECIFICATION GatewaySpec
CONSTANTS
    Heartbeats = {h1}
    Noise = Noise
    Echo = Echo
    None = None
    MaxVersion <- MCTwoFences
    Faulty = FALSE
PROPERTIES
    HeldUntilRelayed
