SPECIFICATION Spec
CONSTANTS
    Pids = {1, 2}
    MaxNotes = 2
    Matches <- MCMatches
    Schedules <- MCSchedules
    Paths = {"f", "g", "h"}
    Owners = {"local", "x"}
    MaxRuns = 2
    Overridable = {"p", "q"}
    Users = {"u", "v"}
    Uids = {1, 2}
    MaxChanges = 5
    Archives <- MCArchives
    PartSizes = {1, 2}
    MaxSplitRuns = 4
INVARIANTS SuccessIsTrue JoinRestores VersionsAreRight
PROPERTIES LinksStayWhole DiversionsAreSafe OthersKeep
\* The programs end.
CHECK_DEADLOCK FALSE
