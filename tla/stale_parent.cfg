\* A client writes where the index shows a file for a folder.
SPECIFICATION Spec
CONSTANTS
    root = root  d = d  e = e  f = f  g = g  a = a  b = b
    ItemIds = {root, d, e, f, g}
    RootId = root
    Folders = {root, d, e}
    Names = {a, b}
    Paths <- ClientPaths
    ReadPaths <- AllPaths
    None = None  NoNode = NoNode  Missing = Missing
    InitialDrive <- FlatDrive
    MaxChanges = 4
    PageSize = 5
    ParentsFirst = TRUE
    Movable = {}
    MaxPages = 2
    MaxFaults = 0
    MaxEvents = 9
    ClientOps = {"PUT", "MKCOL"}
    Unparsed = FALSE
    StaleTypes = TRUE
    OpenFaults = FALSE
PROPERTY OneRootRow
