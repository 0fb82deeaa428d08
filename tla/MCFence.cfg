SPECIFICATION EditorSpec
CONSTANTS
    MaxFence = 2
    MaxTroubles = 1
    MaxSaves = 2
    MaxReloads = 1
INVARIANTS
    StoredIsUsed
    ShowsSaved
PROPERTIES
    SettlesOnLatest
CHECK_DEADLOCK FALSE
