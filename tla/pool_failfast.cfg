CONSTANTS
    d1 = d1
    d2 = d2
    d3 = d3
    Stop = Stop
    Devices = {d1, d2, d3}
    DeviceIds <- ThreeDevices
    PoolSize = 2
    MaxTasks = 1
    NetRetry = 1
    TolerateFails = FALSE
    CallbackFails = TRUE
    MaxCrashes = 1
    SlowWork = TRUE
SPECIFICATION FairSpec
INVARIANTS DeathIsNotSilent RaiseIsJustified
PROPERTIES EventuallyEnds EventuallyDone
