\* A remote client and a local one compete for one connection slot, under the
\* fairness of the threads, in a program that is closed and started again.
CONSTANTS
    r1 = r1
    r2 = r2
    l1 = l1
    Clients = {r1, l1}
    LocalClients = {l1}
    LowIds = {r1, l1}
    Macs = {m1}
    NoMac = NoMac
    NoClient = NoClient
    PeerIp <- MCPeerIp
    PeerPort <- MCPeerPort
    MaxConnections = 1
    SaveHistory = TRUE
SPECIFICATION FairViewSpec
INVARIANTS
    TreeMatchesServer
PROPERTIES
    DeadSlotFreed
    RefusedClientLeaves
    SavesAllItKnows
