SPECIFICATION FairSpec
CONSTANTS
    Peers = {p1}
    Requests = {r1, r2}
    StaleAfter = 1
    EntryTTL = 2
    IndexTTL = 3
    NONE = NONE
INVARIANTS AnnouncementsIndexed OfflineEndsOffline DeletedNotListed
PROPERTY SilentExpires
