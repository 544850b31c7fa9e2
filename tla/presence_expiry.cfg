SPECIFICATION FairSpec
CONSTANTS
    Peers = {p1}
    Requests = {r1}
    StaleAfter = 1
    EntryTTL = 2
    IndexTTL = 2
    NONE = NONE
PROPERTY AutoExpires
