SPECIFICATION ReadersSpec
CONSTANTS
    Procs = {p1, p2}
    Pkgs = {a}
    Vals = {Blank, v1}
    Blank = Blank
    MAXUPDATES = 1
    NoProc = NoProc
    NoPkg = NoPkg
    NoFile = NoFile
INVARIANTS ReaderSeesSnapshot
PROPERTIES WriterReadsRecover OperationsEnd
