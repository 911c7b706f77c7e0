\* Two connections, one search at a time, tokens that live for a second, a shutdown.
SPECIFICATION Spec
CONSTANTS
    Requests = {r1, r2}
    SearchConcurrency = 1
    TokenTTL = 2
    Second = 2
    MaxTime = 3
SYMMETRY Symmetry
INVARIANTS
    GatewayTypeOK
    SearchesBounded
PROPERTIES
    UpdateAnswersTrue
    RefusedOnlyIfFull
    TokenLifetime
CHECK_DEADLOCK FALSE
