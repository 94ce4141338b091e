\* Every request is answered under the scheduling the Go runtime guarantees.
CONSTANTS
    Requests = {r1, r2}
    Admins = {a1}
    Headers = {"high", "low"}
    BodyPriorities = {"normal"}
    Boot <- BootSettings
    Settings <- ResizeSettings
    DefaultDepth = 3
    RecentCap = 0
    Nobody = Nobody
SPECIFICATION FairSpec
PROPERTIES
    EveryRequestIsAnswered
