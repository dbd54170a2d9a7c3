SPECIFICATION UnpackSpec
CONSTANTS
    Packages <- MCPackages
    Worlds <- MCWorlds
INVARIANTS EssentialStays
CHECK_DEADLOCK FALSE
