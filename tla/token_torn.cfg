SPECIFICATION Spec
CONSTANTS
    None = None
    Absent = Absent
    Torn = Torn
    Lifetime = 3
    Margin = 1
    MaxDelay = 1
    Revokes = FALSE
    LosesOnlyCopy = TRUE
    ConcurrentSignIn = FALSE
    MaxTime = 4
    MaxTokens = 4
    MaxFaults = 1
INVARIANT SignInLasts
