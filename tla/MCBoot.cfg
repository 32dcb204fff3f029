SPECIFICATION FairSpec
CONSTANTS
    r1 = r1
    r2 = r2
    old = old
    new = new
    Replicas = {r1, r2}
    Version <- RollingUpdate
    Connections = {c1, c2}
INVARIANTS
    BootInv
    ReadyMeansServing
PROPERTIES
    EverybodyGetsTheLock
    RecoversWithTheDatabase
