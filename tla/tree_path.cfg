\* The plugin asks for the folders that a _tree has shown.
SPECIFICATION Spec
CONSTANTS
    None = None
    Items <- SmallItems
    Targets <- MoveTargets
    Endings <- OddEndings
    Loopbacks = {loop}
    Foreign = foreign
    Secret <- SharedSecret
    Logins <- TriedLogins
    Suspects <- SuspectItems
INVARIANT TreePathsLeadBack
