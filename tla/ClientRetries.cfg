CONSTANTS
    k1 = k1
    k2 = k2
    Calls = {k1, k2}
    MaxRetries = 2
    RequestTimeout = 1
    RefreshBuffer = 1
    FallbackTTL = 1
    TokenTTL = 2
    MaxTime = 2
    Revocable <- MCRevocable
    NoToken = NoToken

SPECIFICATION FairSpec
CONSTRAINT PeerSucceeds
CHECK_DEADLOCK FALSE
INVARIANTS OnlyRevokedDenied NoTokenDeniedTwice
PROPERTIES PromiseSpec CallsAnswered
