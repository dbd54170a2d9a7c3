SPECIFICATION HistorySpec
CONSTANTS
    Pkgs = {a, b, c}
    Trigs = {t}
    NoPkg = NoPkg
    None = None
    MaxUnincorp = 1
    MaxInterested = 2
CONSTRAINT FewActivations
SYMMETRY Symmetry
INVARIANTS DatabaseIsReadable AwaitedIsPending DiskAgrees NoActivationLost
