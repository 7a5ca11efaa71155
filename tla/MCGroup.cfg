CONSTANTS
    h = h
    a = a
    b = b
    Device = {h, a, b}
    NoDevice = none
    Settled <- HostAndMember
    MaxBacklog = 2
    MaxQueue = 2
    Durable = FALSE
    MaxConn = 2
    MaxFrames = 5
SPECIFICATION GroupSpec
INVARIANTS TypeOK OrderAuthority
PROPERTIES HeldFrameAnswered RetiredForCause StaleCloseHarmless RefusedForCause RemovalComesFirst MarkersInOrder
CONSTRAINT GroupBound
CHECK_DEADLOCK FALSE
