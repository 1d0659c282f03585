SPECIFICATION Spec
CONSTANTS
    Devices <- TwoInARow
    Store   <- SmallStore
    ArgsSet <- SomeArgs
    Keys    <- AllKeys
INVARIANTS
    GeneratedStays
    SafeWithin
    ReferencesDefined
    FilesHold
PROPERTIES
    KeepsPromise
