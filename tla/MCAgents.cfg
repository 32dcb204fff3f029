SPECIFICATION Spec
CONSTANTS
    a1 = a1
    a2 = a2
    a3 = a3
    t1 = t1
    t2 = t2
    None = None
    Actors = {a1, a2, a3}
    Founders = {a1, a3}
    AllNames <- Names2
    DisplayName <- Displays
    Fold <- Lower
    Tokens = {t1, t2}
    TokenOwner <- Owners
    Issued = {t1}
    Requests = {r1, r2}
    Commands <- Tried
    Allowlists <- Scopes
    MaxCalls = 3
    MaxAdmin = 1
SYMMETRY Symmetry
INVARIANTS
    AgentsInv
    BundleCarriesItsOwnersName
    FoundActorsHeldTheName
    CallsAreAuthorised
    
CHECK_DEADLOCK FALSE
