SPECIFICATION Spec
CONSTANTS
    Procs = {p1}
    Pkgs = {a, b}
    Vals = {Blank, v1}
    Blank = Blank
    MAXUPDATES = 1
    NoProc = NoProc
    NoPkg = NoPkg
    NoFile = NoFile
    MaxViews = 3
CONSTRAINT FewViews
SYMMETRY Symmetry
INVARIANTS NotedIsDurable ShutdownIsDurable
PROPERTIES DurableSpec
