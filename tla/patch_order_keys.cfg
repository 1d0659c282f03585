SPECIFICATION Spec
CONSTANTS
    Rb          <- KeysRb
    Acl         <- KeysAcl
    Changes     <- KeysChanges
    FreshBlocks = {}
INVARIANTS
    EmptyAfterDeploy
