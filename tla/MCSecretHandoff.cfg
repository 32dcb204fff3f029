SPECIFICATION Spec
CONSTANTS
    Actors = {a1, a2, a3}
    Secrets = {k1}
    Nobody = Nobody
    Sessions = {s1, s2}
    MaxFetches = 3
SYMMETRY Symmetry
INVARIANTS
    HandoffInv
    ForeignRefusalsAreCounted
    BlobKeptUntilClaimedOrExpired
    NotFoundMeansGone
PROPERTIES
    ImplementsOneTimeSecret
