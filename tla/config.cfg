\* Files and environments with good, bad, repeated and missing settings.
SPECIFICATION Spec
CONSTANTS
    Files <- MCFiles
    Envs <- MCEnvs
    Numerals <- MCNumerals
    MaxU16 = 2
    MaxMessage = 3
    MaxU32 = 5
    MaxU64 = 6
CHECK_DEADLOCK FALSE
INVARIANTS
    LatestSourceWins
    FirstErrorNamed
    ValidIsUsable
