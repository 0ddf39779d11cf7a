CONSTANTS
    Versions <- MCVersions
    GoodDigests <- MCGoodDigests
    BadDigests <- MCBadDigests
    MaxRefs = 2
    LibChecksShape = TRUE
SPECIFICATION Spec
INVARIANTS
    TypeOK
    UniqueVariantResolved
    ResolvedVariantMatchesDeclaredType
    ReferencesFlattened
    ParserTestCasesHold
CHECK_DEADLOCK FALSE
