\* Two remote clients, two hardware addresses.
CONSTANTS
    r1 = r1
    r2 = r2
    l1 = l1
    Clients = {r1, r2}
    LocalClients = {}
    Macs = {m1, m2}
    NoMac = NoMac
    NoClient = NoClient
    PeerIp <- MCPeerIp
    PeerPort <- MCPeerPort
    MaxConnections = 2
SPECIFICATION Spec
INVARIANTS
    TypeOK
    TableMatchesClients
    NoDanglingClient
    ConnectedOrInHistory
    AssertsHold
    OneSessionPerAddress
    EventOrder
PROPERTIES
    NeverForgets
    ImplementsRegistry
