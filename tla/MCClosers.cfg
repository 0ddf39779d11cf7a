CONSTANTS
    Resources <- MCResourcesNil
    Kind <- MCKindNil
    Name <- MCNameNil
    MaxCloses = 3
SPECIFICATION Spec
INVARIANTS
    TypeOK
\* Each resource takes at most MaxCloses calls, after which nothing is enabled.
CHECK_DEADLOCK FALSE
