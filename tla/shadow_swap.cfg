\* A resync is under way while a client writes.
SPECIFICATION Spec
CONSTANTS
    root = root  d = d  e = e  f = f  g = g  a = a  b = b
    ItemIds = {root, d, e, f, g}
    RootId = root
    Folders = {root, d, e}
    Names = {a, b}
    Paths <- ClientPaths
    ReadPaths <- AllPaths
    None = None  NoNode = NoNode  Missing = Missing
    InitialDrive <- NestedDrive
    MaxChanges = 1
    PageSize = 2
    ParentsFirst = TRUE
    Movable = {f, g}
    MaxPages = 2
    MaxFaults = 1
    MaxEvents = 9
    ClientOps = {"PUT"}
    Unparsed = FALSE
    StaleTypes = FALSE
    OpenFaults = FALSE
PROPERTY SwapKeepsPatches
