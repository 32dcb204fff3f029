SPECIFICATION Spec
CONSTANTS
    a1 = a1
    a2 = a2
    a3 = a3
    s1 = s1
    s2 = s2
    s3 = s3
    Actors = {a1, a2}
    Threads = {t1}
    Sessions = {s1, s2}
    ActorOf <- OneEach2
    MayCall <- AllCalls2
    Extras = {{}, {a1, a2}}
    Handles = {{}}
    Backend = "postgres"
    MaxPosts = 3
INVARIANTS
    NeverReturnedTwice
PROPERTIES
    CursorMonotone
