\* Three requests of every priority, one operator, 1 to 2 slots.
CONSTANTS
    Requests = {r1, r2, r3}
    Admins = {a1}
    Headers = {"absent", "high", "low"}
    BodyPriorities = {"normal"}
    Boot <- BootSettings
    Settings <- OperatorSettings
    DefaultDepth = 3
    RecentCap = 1
    Nobody = Nobody
SPECIFICATION Spec
SYMMETRY RequestSymmetry
INVARIANTS
    TypeOK
    SlotAccounting
    WorkConserving
    TrackerAgreement
PROPERTIES
    PassedOverGetsCloser
    Admission
