SPECIFICATION Spec
CONSTANTS
    Collars = {c1}
    Coord <- MCCoord
    StepNormal = 5
    StepFast = 5
    DefaultPos <- MCDefaultPos
    DefaultFence <- MCDefaultFence
    None = None
    WakeModulus = 2
    Noise = Noise
    Echo = Echo
    Faulty = FALSE
    GpsOrders <- MCNoOrders
    FenceOrders <- MCOneFence
    Topics <- MCConfigTopic
    Silence = Silence
    AirLoses = FALSE
    OutboxSize = 0
    MaxWakes = 2
    MaxOutages = 0
PROPERTIES
    PendingReachesCollar
