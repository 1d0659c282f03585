SPECIFICATION Spec
CONSTANTS
    Rb          <- MCRb
    Acl         <- MCAcl
    Changes     <- MCChanges
    FreshBlocks = {21, 23}
INVARIANTS
    TypeOK
    EmptyAfterDeploy
    DiffTellsChange
    NoFlapping
    LeftAlone
    NoVainCommand
