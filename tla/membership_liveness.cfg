SPECIFICATION FairSpec
CONSTANTS
    Networks = {auto}
    AutoNetworks = {auto}
    Devices = {d1}
    Agents = {a1}
    Requests = {r1, r2}
    PoolSize = 1
    MaxRows = 4
    NONE = NONE
PROPERTY RequestsEnd
\* Every network may be deleted, after which nothing is left to do.
CHECK_DEADLOCK FALSE
