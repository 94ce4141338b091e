\* Two jobs in a list of one: every job ends, whatever happens to its runner.
CONSTANTS
    JobIds = {b1, b2}
    Handlers = {h1}
    MaxJobs = 1
    MaxAttempts = 2
    Lease = 1
    RetryDelay = 1
    Reported = {"queued", "failed"}
    MaxFaults = 1
    NoJob = NoJob
    Failed = Failed
SPECIFICATION FairSpec
PROPERTIES
    EveryJobEnds
