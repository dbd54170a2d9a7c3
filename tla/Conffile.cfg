SPECIFICATION Spec
CONSTANTS
    Dist = {d1, d2}
    Mine = {m}
    NoFile = NoFile
    NewConffile = NewConffile
    NoEntry = NoEntry
    NotShipped = NotShipped
    RemoveOnUpgrade = RemoveOnUpgrade
    MaxMishaps = 2
INVARIANTS UserVersionKept ShippedVersionArrives
PROPERTIES AsksOnlyAboutChanges
