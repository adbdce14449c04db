SPECIFICATION Spec
CONSTANTS
    read = read
    write = write
    t1 = t1
    Requests = {w1, w2}
    Tokens = {t1}
    NoToken = NoToken
    Keys = {read, write}
    Profiles <- TwoProfiles
    Refused = Refused
    NoProfile = NoProfile
    Credentials <- Headers
    Routes <- Kinds
    CacheTime = 2
    FetchLimit = 1
    Never = Never
    MaxTime = 4
SYMMETRY Slots
INVARIANTS AuthInv ProfileWasLive IngestOnlyIngests IngestReachesPunches
PROPERTIES RequestsAdvance
