SPECIFICATION UnpackingSpec
CONSTANTS
    a = a
    b = b
    c = c
    v = v
    Pkgs <- MCPkgs
    Names <- MCNames
    MayDepend <- MCMayDepend
    MayProvide <- MCMayProvide
    MayBeNormal = {c}
    NoName = NoName
    MaxTries = 2
    Packages <- MCPackages
    Worlds <- MCWorlds
    PkgInfos <- MCPkgInfos
    SetOf <- MCSetOf
    Paths = {"d", "f", "c"}
    Parent <- MCParent
    Dirs = {"d"}
    Conffiles = {"c"}
    Ships <- MCShips
    MaxRemovals = 3
    InfoPkgs = {"a"}
    FileTypes = {"postrm", "triggers"}
    MaxInfoRuns = 3
    Callers = {"s1", "s2"}
    Awaiters = {"-"}
    TrigNames = {"t", "/f"}
    FileTrigs = {"/f"}
    TrigPkgs = {"p", "q"}
    MaxTrigs = 3
INVARIANTS
    FalseMeansAcyclic OldOrNew EndsWhole AbortRestores SaneIsWhole
    RemovalKeepsDepends OthersKeepTheirFiles PurgedIsGone InfoIsWhole
    ActivationsArrive InterestsKept StatusReadsBack
PROPERTIES OnlyCyclesAreBroken
\* The number of commands is bounded, and a run ends.
CHECK_DEADLOCK FALSE
