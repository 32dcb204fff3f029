SPECIFICATION Spec
CONSTANTS
    alice = alice
    bob = bob
    i1 = i1
    i2 = i2
    o1 = o1
    o2 = o2
    Runs = {r1, r2}
    Actors = {alice, bob}
    MaxCreated = 2
    SecretIds = {i1, i2}
    Envelope <- Sealed
    Outs = {o1, o2}
    Commands <- CommandLines
    MaxStarts = 5
INVARIANTS
    FilesInv
    PrintedIdentityIsKept
    WrittenSecretsAreRecorded
    ReplayRefusedWithoutMishap
PROPERTIES
    RolledBackBundleRefused
CHECK_DEADLOCK FALSE
