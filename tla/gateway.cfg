\* Every entry of small drives, asked for by every method in every spelling.
SPECIFICATION Spec
CONSTANTS
    None = None
    Items <- SmallItems
    Targets <- MoveTargets
    Endings <- OddEndings
    Loopbacks = {loop}
    Foreign = foreign
    Secret <- SharedSecret
    Logins <- TriedLogins
    Suspects <- SuspectItems
INVARIANTS TypeOK HrefsLeadBack PasswordDecides GraphGetsThePath DatesSurvive
