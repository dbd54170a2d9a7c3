CONSTANTS
    a = a
    b = b
    c = c
    d = d
    e = e
    t = t
    Pkgs <- MCPkgs
    Names <- MCPkgs
    Trigs = {t}
    NoPkg = NoPkg
    Rank <- MCRank
    ErrAbort = 50
    Worlds <- LoopWorlds
SPECIFICATION Spec
INVARIANTS NeverExhausted
CHECK_DEADLOCK FALSE
