\* Two handlers, two keys; failed saves, lost keychains and restarts.
CONSTANTS
    Names = {k1, k2}
    Default = k1
    Handlers = {h1, h2}
    MaxToken = 3
    MaxKey = 2
    Modes = {TRUE, FALSE}
    MaxFaults = 2
SPECIFICATION Spec
SYMMETRY HandlerSymmetry
INVARIANTS
    FilesOpenTogether
    FallbackHoldsCurrent
    CurrentIsAccepted
    RetiredIsRejected
