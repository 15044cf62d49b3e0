\* Two handles that are reused, with eviction and without.
SPECIFICATION Spec
CONSTANTS
    Handles = {h1, h2}
    IdleTimes = {0, 2}
    PollPeriod = 2
    MaxTime = 6
INVARIANTS
    NobodyOverstays
    EvictsOnlyIdle
