CONSTANTS
    APs = {0, 1}
    Sizes = {8, 32}
    Failures = {"FAULT", "WAIT", "NOACK"}
    MaxCalls = 2
    MaxRefused = 1
    MaxResets = 1
SPECIFICATION FairSpec
INVARIANTS
    TypeOK
    BankRight
    SizeRight
    FaultCleared
PROPERTIES
    CallsEnd
