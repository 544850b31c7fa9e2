SPECIFICATION Spec
CONSTANTS
    Networks = {manual, auto}
    AutoNetworks = {auto}
    Devices = {d1}
    Agents = {a1}
    Requests = {r1, r2}
    PoolSize = 2
    MaxRows = 3
    NONE = NONE
SYMMETRY RequestSymmetry
INVARIANTS VirtualIPsUnique ApprovedHasAddress NoAdmissionWithoutOwner
PROPERTIES RejectionSticks AgentAddressSticks
\* Every network may be deleted, after which nothing is left to do.
CHECK_DEADLOCK FALSE
