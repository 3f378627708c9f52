\* Clients change the drive too, and patch the index from the answers.
SPECIFICATION FairSpec
CONSTANTS
    root = root  d = d  e = e  f = f  g = g  a = a  b = b
    ItemIds = {root, d, e, f, g}
    RootId = root
    Folders = {root, d, e}
    Names = {a, b}
    Paths <- ClientPaths
    ReadPaths <- AllPaths
    None = None  NoNode = NoNode  Missing = Missing
    InitialDrive <- NestedDrive
    MaxChanges = 3
    PageSize = 2
    ParentsFirst = TRUE
    Movable = {f, g}
    MaxPages = 2
    MaxFaults = 2
    MaxEvents = 3
    ClientOps = {"PUT", "MKCOL", "DELETE", "MOVE"}
    Unparsed = FALSE
    StaleTypes = FALSE
    OpenFaults = TRUE
INVARIANTS TypeOK ChildSetsMatch IndexesRooted FeedOwesEveryDifference Converged ReadsAreGraphs
PROPERTIES PatchedAtOnce EventuallyFresh
