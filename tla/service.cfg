\* Edits and lookups of index.bin under the permit; clients stall or go away, guests trap.
SPECIFICATION ServiceFairSpec
CONSTANTS
    Requests = {r1, r2, r3}
    Editors = {r1, r2}
    QueueLimit = 2
    Disconnects = TRUE
    Stalls = TRUE
    None = None
INVARIANTS ServiceTypeOK OneGuest CounterCovers BoundedQueue
PROPERTIES IndexIsAtomic WaitersServedUnlessStuck
