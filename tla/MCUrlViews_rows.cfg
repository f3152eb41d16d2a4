\* A Url in progress is entered again, and its client leaves.
CONSTANTS
    c1 = c1
    u1 = u1
    u2 = u2
    Clients = {c1}
    Urls = {u1, u2}
    Seeds = {u1}
    NoUrl = NoUrl
    Web <- MCWeb
    Memories = {"none"}
    MaxUnderWay = 2
    Path <- MCPath
    MaxNotices = 2
SPECIFICATION ViewSpec
INVARIANTS
    OneRowEach
