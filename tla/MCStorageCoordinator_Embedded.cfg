CONSTANTS
    Pushers = {p1}
    Readers = {r1}
    Repos <- MCEmbeddedRepos
    TagNames <- MCTagNames
    Hexes <- MCTwoHexes
    MaxPushes = 2
    MaxReads = 2
SPECIFICATION Spec
INVARIANT
    RoutedReadsAgree
\* Each handler takes a bounded number of requests, so the model stops.
CHECK_DEADLOCK FALSE
