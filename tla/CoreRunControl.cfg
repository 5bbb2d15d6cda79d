CONSTANTS
    ResetTypes = {"HW", "SW", "SW_VECTRESET"}
    SupportsVectreset = FALSE
    MaxToken = 3
    MaxFaults = 2
SPECIFICATION RunSpec
INVARIANT ResetCaught
PROPERTIES StepOne CallsEnd
