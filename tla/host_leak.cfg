\* A request that goes away while it waits stays counted.
SPECIFICATION Spec
CONSTANTS
    Requests = {r1, r2, r3}
    QueueLimit = 1
    Disconnects = TRUE
PROPERTY RejectedByOthers
