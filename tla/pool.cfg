\* Every combination of overflow policies.
SPECIFICATION Spec
CONSTANTS
    Workers = {w1, w2}
    Submitters = {s1, s2}
    Poppers = {p1}
    Stoppers = {x1, x2}
    QueueCapacity = 3
    ResultCapacityOverride = 2
    MaxTasks = 5
SYMMETRY Symmetry
CHECK_DEADLOCK FALSE
INVARIANTS
    TypeOK
    WithinCapacity
    StartedInOrder
    AnsweredOnce
    NothingLost
    BoundedOvertaking
    NoMissedTaskWakeup
    NoMissedResultWakeup
    SleepersWereMissed
    QuietAfterShutdown
PROPERTIES
    ImplementsContract
