CONSTANTS
    h = h
    a = a
    b = b
    Device = {h, a}
    NoDevice = none
    Settled <- HostAlone
    MaxBacklog = 2
    MaxQueue = 1
    Durable = TRUE
    MaxConn = 1
    MaxFrames = 4
SPECIFICATION FairSpec
INVARIANTS AdmissionUninterrupted LeafAccounted DeliveryComplete
PROPERTIES ImplementsLog WaitsEnd
CHECK_DEADLOCK FALSE
