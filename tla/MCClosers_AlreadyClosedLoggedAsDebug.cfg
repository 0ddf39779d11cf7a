CONSTANTS
    Resources <- MCResources
    Kind <- MCKind
    Name <- MCName
    MaxCloses = 2
SPECIFICATION Spec
INVARIANT AlreadyClosedLoggedAsDebug
CHECK_DEADLOCK FALSE
