SPECIFICATION LiveSpec
CONSTANTS
    a = a
    b = b
    c = c
    v = v
    t = t
    u = u
    Pkgs <- MCPkgs
    Names <- MCNames
    Trigs = {t, u}
    NoPkg = NoPkg
    None = None
    NoName = NoName
    Rank <- MCRank
    ErrAbort = 4
    Worlds <- LoopWorlds
INVARIANTS ArchivesAreWhole SavedIsConsistent
PROPERTIES EverythingEnds
\* The programs end.
CHECK_DEADLOCK FALSE
