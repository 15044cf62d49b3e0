\* Concurrent requesters and advancers.
SPECIFICATION FairSpec
CONSTANTS
    Requesters = {r1, r2}
    Advancers = {a1, a2}
CHECK_DEADLOCK FALSE
INVARIANTS
    RequestTakesEffect
    AdvanceAsserts
PROPERTIES
    ImplementsLifecycle
    RequestReturns
