\* Limits within and beyond the width of the length field, on either side.
SPECIFICATION Spec
CONSTANTS
    Base = 2
    HeaderLen = 2
    Limits = {2, 9}
    Payloads <- AllLengths
    MaxMessages = 4
CHECK_DEADLOCK FALSE
INVARIANTS
    TypeOK
    IntactInOrder
    StreamIsTheRest
    NoFrameWaits
    LimitIsExact
