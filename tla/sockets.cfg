\* Five descriptors shared by the server, two Socket variables and bare code.
SPECIFICATION Spec
CONSTANTS
    Handles = {h1, h2, h3, h4, h5}
    Invalid = Invalid
    Vars = {a, b}
    MaxAddresses = 2
SYMMETRY Symmetry
INVARIANTS
    OneOwnerEach
    WatchesItsOwn
