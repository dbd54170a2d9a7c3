SPECIFICATION FileSpec
CONSTANTS
    MaxTries = 2
INVARIANTS DivertedKept
CHECK_DEADLOCK FALSE
