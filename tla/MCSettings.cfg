\* Three updates by two handlers, with failed saves and restarts.
CONSTANTS
    Handlers = {h1, h2}
    Depths <- SmallDepths
    AliasTables = {"custom"}
    Attempts = {9}
    Bodies <- SmallBodies
    HecTokens = {t1, t2}
    DefaultDepth = 3
    DefaultAttempts = 3
    LowAttempts = 1
    HighAttempts = 5
    MaxCalls = 3
    MaxFaults = 2
    None = None
SYMMETRY SettingsSymmetry
SPECIFICATION Spec
CHECK_DEADLOCK FALSE
INVARIANTS
    CopiesFollowStored
    SetupStaysLocked
    SavedUpdateStands
