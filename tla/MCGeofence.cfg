SPECIFICATION Spec
CONSTANTS
    Collars = {c1}
    Coord <- MCCoord
    StepNormal = 5
    StepFast = 5
    DefaultPos <- MCDefaultPos
    DefaultFence <- MCDefaultFence
    None = None
    WakeModulus = 3
    Noise = Noise
    Echo = Echo
    Faulty = TRUE
    GpsOrders <- MCNoOrders
    FenceOrders <- MCTwoFences
    Topics <- MCConfigTopic
    Silence = Silence
    AirLoses = TRUE
    OutboxSize = 1
    MaxWakes = 2
    MaxOutages = 1
VIEW WithoutHistory
PROPERTIES
    PublishedInOrder
    FenceAdvances
