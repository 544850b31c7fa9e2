SPECIFICATION Spec
CONSTANTS
    Addrs = {a1, a2, a3}
    Tokens = {t1}
    SessionIds = {s1, s2}
    IdleTimeout = 1
    NONE = NONE
SYMMETRY Symmetry
INVARIANTS TokenIndexAgrees DataStaysWithTokenHolders ControlTruthful GaugeExact
PROPERTIES RemovedStaysRemoved
