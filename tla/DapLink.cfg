CONSTANTS
    ReadRequests = {"apRead"}
    WriteRequests = {"dpWrite", "apWrite"}
    NoRequest = "none"
    PacketSize = 17
    PacketCount = 2
    Counts = {1, 4}
    MaxAccesses = 3
    MaxNaks = 1
    MaxIoErrors = 0
SPECIFICATION Spec
INVARIANTS
    TypeOK
    InFlightBound
    OwnResults
    SilentWire
PROPERTIES
    FlushCompletes
    ReadNowFlushes
    ImplementsPort
