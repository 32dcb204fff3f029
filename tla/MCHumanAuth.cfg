SPECIFICATION Spec
CONSTANTS
    Subjects = {s1, s2}
    Cookies = {c1, c2}
    Requests = {r1, r2}
    ActorIds = {i1, i2}
    Names = {n1, n2}
    None = None
    MaxChanges = 1
    MaxRotations = 1
SYMMETRY Symmetry
INVARIANTS
    ProvisionedTogether
    OneActorPerSubject
    LogoutIsFinal
CHECK_DEADLOCK FALSE
