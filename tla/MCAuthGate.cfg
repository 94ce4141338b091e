\* One host in both scopes; a block may end inside the window that caused it.
CONSTANTS
    Hosts = {h1}
    Limit = 3
    Window = 3
    Cooldown = 1
    MaxAdminToken = 3
    MaxGateFaults = 2
SPECIFICATION GateSpec
INVARIANTS
    BlockIsEarned
    RefusalsBounded
    OperatorHoldsToken
