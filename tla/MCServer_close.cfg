\* Closing the server while a client arrives.
CONSTANTS
    r1 = r1
    r2 = r2
    l1 = l1
    Clients = {r1}
    LocalClients = {}
    Macs = {m1}
    NoMac = NoMac
    NoClient = NoClient
    PeerIp <- MCPeerIp
    PeerPort <- MCPeerPort
    MaxConnections = 1
SPECIFICATION FairSpec
PROPERTIES
    CloseCompletes
