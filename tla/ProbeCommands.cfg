CONSTANTS
    MaxUnread = 2
    MaxWrites = 8
    Infos = 2
    MaxSessions = 2
    MaxFaults = 1
    MaxReaders = 2
    MaxChunks = 2
    HasSwoEndpoint = TRUE
SPECIFICATION Spec
\* The caller is done when it has used up its sessions.
CHECK_DEADLOCK FALSE
INVARIANTS
    PermitPerPacket
    SwoInOrder
PROPERTIES
    OwnAnswers
    CallsReturn
    ImplementsWire
