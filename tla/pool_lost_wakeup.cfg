\* shutdown() can miss a worker that is about to sleep.
SPECIFICATION FairSpec
CONSTANTS
    Workers = {w1}
    Submitters = {s1}
    Poppers = {p1}
    Stoppers = {x1}
    QueueCapacity = 1
    ResultCapacityOverride = 0
    MaxTasks = 1
CHECK_DEADLOCK FALSE
PROPERTIES
    ShutdownJoins
