\* Two servers, and a user faster than the window.
CONSTANTS
    s1 = s1
    s2 = s2
    Servers = {s1, s2}
    Priorities = {1, 2}
    Users = {7}
    NoServer = NoServer
    AutoReconnect = TRUE
    ConnectAtStartup = TRUE
    MaxNotices = 2
SPECIFICATION FairSpec
INVARIANTS
    WindowCatchesUp
    CancelIsDue
    ReadyToReconnect
PROPERTIES
    Settles
