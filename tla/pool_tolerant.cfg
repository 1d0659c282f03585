CONSTANTS
    d1 = d1
    d2 = d2
    d3 = d3
    Stop = Stop
    Devices = {d1, d2, d3}
    DeviceIds <- ThreeDevices
    PoolSize = 2
    MaxTasks = 2
    NetRetry = 0
    TolerateFails = TRUE
    CallbackFails = FALSE
    MaxCrashes = 1
    SlowWork = FALSE
SPECIFICATION Spec
INVARIANTS TypeOK NothingVanishes NoOrphans
PROPERTIES RunPromise
