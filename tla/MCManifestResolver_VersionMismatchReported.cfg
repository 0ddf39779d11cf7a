CONSTANTS
    Versions <- MCVersions
    GoodDigests <- MCGoodDigests
    BadDigests <- MCBadDigests
    MaxRefs = 2
    LibChecksShape = TRUE
SPECIFICATION Spec
INVARIANT VersionMismatchReported
CHECK_DEADLOCK FALSE
