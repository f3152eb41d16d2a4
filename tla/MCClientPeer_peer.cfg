\* The default timeouts, in ticks of 30 s.
CONSTANTS
    ConnectTimeout = 2
    HandShakeTimeout = 2
    PeerTimeout = 4
    PendingTimeout = 2
    KeepAliveInterval = 1
    SeedUrlInterval = 1
    MaxPending = 2
    MaxWire = 1
SPECIFICATION FairSpec
INVARIANTS
    NoProtocolError
    PendingCoversOutstanding
    NoFalseTimeout
    LossNoticedInTime
PROPERTIES
    RequestsAnswered
