SPECIFICATION FairSpec
CONSTANTS
    Addrs = {a1, a2}
    Tokens = {t1}
    SessionIds = {s1}
    IdleTimeout = 1
    NONE = NONE
PROPERTIES IdleSessionRemoved ShutdownCompletes
