SPECIFICATION Spec
CONSTANTS
    Subjects <- AllSubjects
    Vendors  <- AllVendors
    MaxParts = 2
INVARIANTS
    ListsDefined
    VerdictsMeant
    ActionsMeant
CHECK_DEADLOCK FALSE
