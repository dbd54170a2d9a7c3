SPECIFICATION UnpackSpec
CONSTANTS
    Packages <- MCPackages
    Worlds <- MCWorlds
INVARIANTS RemovedInFavour
CHECK_DEADLOCK FALSE
