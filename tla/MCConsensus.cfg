\* Up to four participants, three answers, every kind of bounds.
CONSTANTS
    n1 = n1
    n2 = n2
    n3 = n3
    n4 = n4
    yes = yes
    no = no
    maybe = maybe
    Nodes = {n1, n2, n3, n4}
    Rankings <- Ranked
    Aliases <- AliasSettings
    DefaultMin = 2
    DefaultMax = 2
    Maximum = 4
    Bodies = {yes, no, maybe}
    Signature <- Signatures
    Trouble = {"upstream_4xx", "response_size_limit"}
    NoNode = NoNode
SPECIFICATION FairSpec
CHECK_DEADLOCK FALSE
INVARIANTS
    FanoutBounded
    ErrorsTellWhy
    
PROPERTIES
    NothingIsLeftBehind
