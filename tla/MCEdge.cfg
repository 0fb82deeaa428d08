SPECIFICATION EdgeSpec
CONSTANTS
    Collars = {c1}
    Coord <- MCCoord
    StepNormal = 1
    StepFast = 2
    DefaultPos <- MCDefaultPos
    DefaultFence <- MCDefaultFence
    GpsTargets <- MCGpsTargets
    FenceTargets <- MCFenceTargets
    None = None
    WakeModulus = 3
    MaxResets = 2
INVARIANTS
    SleepStatusFresh
    HeartbeatTruthful
PROPERTIES
    SleepsAgain
