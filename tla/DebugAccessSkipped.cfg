CONSTANTS
    APs = {0, 1}
    Sizes = {8, 32}
    Failures = {"FAULT"}
    MaxCalls = 2
    MaxRefused = 1
    MaxResets = 1
SPECIFICATION Spec
INVARIANTS
    SelectSkipped
