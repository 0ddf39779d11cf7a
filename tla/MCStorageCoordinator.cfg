CONSTANTS
    Pushers = {p1, p2}
    Readers = {r1}
    Repos <- MCRepos
    TagNames <- MCTagNames
    Hexes <- MCHexes
    MaxPushes = 2
    MaxReads = 2
SPECIFICATION Spec
INVARIANTS
    TypeOK
    RoutedReadsAgree
    FetchFindsBlob
PROPERTY
    ImplementsTagStore
\* Each handler takes a bounded number of requests, so the model stops.
CHECK_DEADLOCK FALSE
