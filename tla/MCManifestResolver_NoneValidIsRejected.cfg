CONSTANTS
    Versions <- MCVersions
    GoodDigests <- MCGoodDigests
    BadDigests <- MCBadDigests
    MaxRefs = 2
    LibChecksShape = TRUE
SPECIFICATION Spec
INVARIANT NoneValidIsRejected
CHECK_DEADLOCK FALSE
