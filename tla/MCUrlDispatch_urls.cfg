\* Two clients, two pages.
CONSTANTS
    c1 = c1
    c2 = c2
    u1 = u1
    u2 = u2
    Clients = {c1, c2}
    Urls = {u1, u2}
    Seeds = {u1}
    NoUrl = NoUrl
    Web <- MCWeb
    Memories = {"kept", "none"}
    MaxUnderWay = 2
SYMMETRY AlikeClients
SPECIFICATION Spec
INVARIANTS
    GivenUrlsHeld
    OneAnswerPerRequest
    LinksSound
PROPERTIES
    NothingForgotten
