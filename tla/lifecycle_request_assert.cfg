\* The assertion after the swap of request_shutdown.
SPECIFICATION Spec
CONSTANTS
    Requesters = {r1}
    Advancers = {a1}
CHECK_DEADLOCK FALSE
INVARIANTS
    DrainingAfterRequest
