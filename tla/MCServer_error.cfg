\* An error is handled after the peer is gone.
CONSTANTS
    r1 = r1
    r2 = r2
    l1 = l1
    Clients = {r1}
    LocalClients = {}
    Macs = {m1}
    NoMac = NoMac
    NoClient = NoClient
    PeerIp <- MCPeerIp
    PeerPort <- MCPeerPort
    MaxConnections = 1
SPECIFICATION Spec
INVARIANTS
    PeerOutlivesEvents
