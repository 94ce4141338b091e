\* Two requests of a session; a session that pins.
CONSTANTS
    n1 = n1
    n2 = n2
    n3 = n3
    Requests = {r1, r2}
    Nodes = {n1, n2, n3}
    CandidateLists <- Lists
    Affinity = "strict"
    MaxChunks = 2
    NoNode = NoNode
SPECIFICATION FairSpec
CHECK_DEADLOCK FALSE
INVARIANTS
    OneAnswer
    EveryCandidateTried
PROPERTIES
    NoRetryAfterOutput
    EveryRequestEnds
