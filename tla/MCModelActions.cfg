\* Three actions on a list of two, two overlapping handlers.
CONSTANTS
    Actions = {a1, a2, a3}
    Models = {m1}
    Handlers = {h1, h2}
    MaxActions = 2
    Reports = {"queued", "completed"}
    Inventories <- SmallInventories
    MaxCalls = 5
    MaxFaults = 2
    None = None
SYMMETRY Symmetry
SPECIFICATION Spec
CHECK_DEADLOCK FALSE
INVARIANTS
    RecordsCoherent
    HandedOutOnce
    AcknowledgedReportStands
