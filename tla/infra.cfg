\* Three threads that count, set, read, log and change the settings.
SPECIFICATION Spec
CONSTANTS
    Threads = {t1, t2, t3}
    Nobody = Nobody
    Deltas = {1, 2}
    Wrap = 4
    Levels = {1, 2}
    FieldLists <- MCFieldLists
    MaxCalls = 2
CHECK_DEADLOCK FALSE
INVARIANTS
    CounterExact
    LinesIntact
