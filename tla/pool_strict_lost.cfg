CONSTANTS
    d1 = d1
    d2 = d2
    d3 = d3
    Stop = Stop
    Devices = {d1, d2}
    DeviceIds <- TwoDevices
    PoolSize = 2
    MaxTasks = 2
    NetRetry = 0
    TolerateFails = TRUE
    CallbackFails = FALSE
    MaxCrashes = 0
    SlowWork = FALSE
SPECIFICATION Spec
INVARIANTS StrictExitCode
