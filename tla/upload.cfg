SPECIFICATION FairOutbound
CONSTANTS
    Sizes = {0, 1, 4, 5, 9, 10, 11, 19, 20, 21, 24, 25}
    MaxSimple = 4
    Chunk = 10
    MaxUpload = 24
    Unit = 5
    MaxPuts = 3
    MaxFaults = 3
    WriteChunk = 3
    Pipe = 1
CHECK_DEADLOCK FALSE
INVARIANTS OutboundTypeOK OnlyFaultsFail SessionsClosed
PROPERTIES PutsAreStores PutsEndUnlessTls
