\* Two requests at a time.  A key or token may be taken back at 0, answered for just
\* before, stored a latency later and live for a TTL: the clock runs past that.
CONSTANTS
    Caller = {c1, c2}
    Key = {k1, k2}
    t1 = t1
    t2 = t2
    Token = {t1, t2}
    Exp <- MCExp
    NoExp = NoExp
    NoRequest = NoRequest
    JWKSCacheTTL = 1
    IntrospectionCacheTTL = 1
    MaxLatency = 1
    MaxTime = 3
SYMMETRY Symmetry
SPECIFICATION Spec
INVARIANTS TypeOK RemovedKeysRunOut MissingKeyIsExplained RevokedTokensRunOut NeverAfterExp
