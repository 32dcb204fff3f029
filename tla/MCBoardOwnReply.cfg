SPECIFICATION Spec
CONSTANTS
    Actors = {a1, a2}
    Threads = {t1}
    MaxPosts = 3
SYMMETRY Symmetry
INVARIANTS
    CatchUpReturnsEverything
