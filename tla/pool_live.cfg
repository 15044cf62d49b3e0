\* Liveness, with a shutdown at any moment or never.
SPECIFICATION FairSpec
CONSTANTS
    Workers = {w1, w2}
    Submitters = {s1}
    Poppers = {p1}
    Stoppers = {x1}
    QueueCapacity = 1
    ResultCapacityOverride = 0
    MaxTasks = 3
CHECK_DEADLOCK FALSE
PROPERTIES
    EventuallyAnswered
    JoinsUnlessMissed
