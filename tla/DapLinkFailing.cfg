CONSTANTS
    ReadRequests = {"read"}
    WriteRequests = {"write"}
    NoRequest = "none"
    PacketSize = 16
    PacketCount = 2
    Counts = {1, 4}
    MaxAccesses = 3
    MaxNaks = 1
    MaxIoErrors = 1
SPECIFICATION FailingFairSpec
INVARIANTS
    NoOrphanData
    AnswerOwed
PROPERTIES
    CallsReturn
    CallsGetOn
