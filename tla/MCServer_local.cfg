\* A local client connects and leaves.
CONSTANTS
    r1 = r1
    r2 = r2
    l1 = l1
    Clients = {r1, l1}
    LocalClients = {l1}
    Macs = {m1}
    NoMac = NoMac
    NoClient = NoClient
    PeerIp <- MCPeerIp
    PeerPort <- MCPeerPort
    MaxConnections = 1
SPECIFICATION Spec
INVARIANTS
    LocalTableMatchesClients
