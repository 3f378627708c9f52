\* As writes.cfg, with answers that do not parse: "local:" entries stand in for items.
SPECIFICATION Spec
CONSTANTS
    root = root  d = d  e = e  f = f  g = g  a = a  b = b
    ItemIds = {root, d, e, f, g}
    RootId = root
    Folders = {root, d, e}
    Names = {a, b}
    Paths <- ClientPaths
    ReadPaths <- AllPaths
    None = None  NoNode = NoNode  Missing = Missing
    InitialDrive <- NestedDrive
    MaxChanges = 3
    PageSize = 2
    ParentsFirst = TRUE
    Movable = {f, g}
    MaxPages = 1
    MaxFaults = 2
    MaxEvents = 3
    ClientOps = {"PUT", "MKCOL", "DELETE", "MOVE"}
    Unparsed = TRUE
    StaleTypes = FALSE
    OpenFaults = FALSE
INVARIANTS ChildSetsMatch IndexesRooted FeedOwesEveryDifference LookupsResolve
PROPERTY ShadowServes
