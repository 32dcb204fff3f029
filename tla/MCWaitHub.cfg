SPECIFICATION FairHubSpec
CONSTANTS
    a1 = a1
    w1 = w1
    w2 = w2
    Actors = {a1}
    Waiters = {w1, w2}
    ActorOf <- Callers
    Timed = {w1}
INVARIANTS
    HubInv
    BlockedCallsListen
PROPERTIES
    CallsReturn
    NewsEndsTheWait
