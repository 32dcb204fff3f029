SPECIFICATION FairSpec
CONSTANTS
    Subjects = {s1}
    Cookies = {c1}
    Requests = {r1, r2}
    ActorIds = {i1}
    Names = {n1}
    None = None
    MaxChanges = 2
    MaxRotations = 1
PROPERTY
    ClaimsSettle
CHECK_DEADLOCK FALSE
