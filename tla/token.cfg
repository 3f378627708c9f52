SPECIFICATION FairSpec
CONSTANTS
    None = None
    Absent = Absent
    Torn = Torn
    Lifetime = 4
    Margin = 1
    MaxDelay = 5
    Revokes = TRUE
    LosesOnlyCopy = FALSE
    ConcurrentSignIn = FALSE
    MaxTime = 8
    MaxTokens = 4
    MaxFaults = 2
INVARIANTS TypeOK SignInLasts
PROPERTIES BearerIsFresh SignedInIsServed
CHECK_DEADLOCK FALSE
