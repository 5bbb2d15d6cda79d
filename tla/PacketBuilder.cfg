CONSTANTS
    ReadRequests = {"dpRead", "apRead"}
    WriteRequests = {"apWrite"}
    NoRequest = "none"
    PacketSizes <- MCPacketSizes
    Counts <- MCCounts
    MaxSegments = 4
SPECIFICATION Spec
INVARIANTS
    Fits
    DecodedAsAdded
