CONSTANTS
    a = a
    b = b
    c = c
    v = v
    t = t
    u = u
    Pkgs <- MCPkgs
    Names <- MCNames
    Trigs = {t, u}
    NoPkg = NoPkg
    Rank <- MCRank
    ErrAbort = 4
    Worlds <- AllWorlds
SPECIFICATION Spec
INVARIANTS NothingForgotten HaltIsJustified NeverExhausted
PROPERTIES DependenciesFirst RemovalKeepsDependencies
CHECK_DEADLOCK FALSE
