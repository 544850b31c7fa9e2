CONSTANTS
    p1 = p1
    p2 = p2
    k1 = k1
    k2 = k2
    x = x
    y = y
    a = a
    own = own
    svc = svc
    relay1 = relay1
    NONE = NONE
    Keys = {k1, k2}
    Ids = {p1, p2}
    Infos <- MCInfos
    Routable = {a, own, relay1}
    OnLAN = {}
    Internal = {svc}
    OwnHost = own
    PublicHost = relay1
    RelayHosts = {svc}
    LanFallback = FALSE
    MaxChanges = 2
    MaxFaults = 1
SPECIFICATION Spec
INVARIANTS ManagedAndInstalled RecordedEndpointUsed KeptAddressRouted DialsReachable
