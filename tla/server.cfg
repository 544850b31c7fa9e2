CONSTANTS
    c1 = c1
    proxy = proxy
    old = old
    new = new
    NOBODY = NOBODY
    NONE = NONE
    Servers = {old, new}
    Files <- MCFiles
    MaxConns = 2
    MaxCrashes = 2
    me = new
    Clients = {c1}
    Proxies = {proxy}
    Rate = 1
    Capacity = 2
    TTL = 2
    MaxTime = 7
    MaxForwarded = 2
SPECIFICATION FairSpec
INVARIANTS AppliedInOrder ServesMigrated NobodyClashes
PROPERTIES ImplementsBucket AllServe
