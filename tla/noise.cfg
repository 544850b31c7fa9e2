CONSTANTS
    MaxNonce = 2
    Zeros = Zeros
    Origins = {k1, k2}
    Initiators = {i1, i2}
    Responders = {r1, r2}
    s <- MCs
    rs <- MCrs
    psk <- MCpsk
    NoPSK = NoPSK
    Nil = Nil
    Damaged = Damaged
    LowOrder = LowOrder
    MaxCalls = 6
    i1 = i1
    i2 = i2
    r1 = r1
    r2 = r2
    I = I
    R = R
    X = X
    k1 = k1
    k2 = k2
    MaxSent = 3
    MaxGen = 2
SPECIFICATION Spec
CONSTRAINT TrafficBound
INVARIANTS Agreement NonceOnce InOrder NoGap NextOpens
CHECK_DEADLOCK FALSE
