\* Other devices also move and rename folders.
SPECIFICATION Spec
CONSTANTS
    root = root  d = d  e = e  f = f  g = g  a = a  b = b
    ItemIds = {root, d, e, f}
    RootId = root
    Folders = {root, d, e}
    Names = {a, b}
    Paths <- NoPaths
    ReadPaths <- AllPaths
    None = None  NoNode = NoNode  Missing = Missing
    InitialDrive <- NestedDrive
    MaxChanges = 3
    PageSize = 2
    ParentsFirst = TRUE
    Movable = {d, e}
    MaxPages = 2
    MaxFaults = 0
    MaxEvents = 9
    ClientOps = {}
    Unparsed = FALSE
    StaleTypes = FALSE
    OpenFaults = FALSE
INVARIANT Converged
