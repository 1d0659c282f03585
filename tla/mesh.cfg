SPECIFICATION Spec
CONSTANTS
    PlainMax = 4
    Names  <- DeviceNames
    Worlds <- AllWorlds
INVARIANTS
    SessionsMirror
    SessionsStand
    AgainTheSame
    PoliciesMade
CHECK_DEADLOCK FALSE
