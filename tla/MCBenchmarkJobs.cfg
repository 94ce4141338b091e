\* Two handlers on one job: overtaken copies, late reports, faults.
CONSTANTS
    JobIds = {b1}
    Handlers = {h1, h2}
    MaxJobs = 1
    MaxAttempts = 2
    Lease = 1
    RetryDelay = 1
    Reported = {"queued", "running", "completed", "failed"}
    MaxFaults = 1
    NoJob = NoJob
    Failed = Failed
SPECIFICATION Spec
SYMMETRY Symmetry
INVARIANTS
    JobsInOrder
    AckedIsDurable
    LeaseProtects
PROPERTIES
    DiskMovesForward
