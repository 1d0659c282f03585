SPECIFICATION Spec
CONSTANTS
    Devices = {d1, d2, d3}
INVARIANTS
    FailedLeftAlone
    ZeroMeansDone
    ExitCodeIsJust
    ReportIsComplete
PROPERTIES
    Ends
