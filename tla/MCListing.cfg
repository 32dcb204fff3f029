SPECIFICATION Spec
CONSTANTS
    ThreadIds = {1, 2, 3}
    Tagged = {1, 2}
    CallIds = {c1, c2}
    ExternalIds = {x}
    Posters = {p1, p2}
    Filters <- Tried
    Limit = 1
    MaxNow = 2
    MaxRows = 3
    MaxFaults = 1
    None = None
SYMMETRY Symmetry
INVARIANTS
    ListingInv
    PagesRepeatNothing
    PagesMissNothing
PROPERTIES
    ExistingThreadIsReturned
CHECK_DEADLOCK FALSE
