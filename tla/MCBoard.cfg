SPECIFICATION Spec
CONSTANTS
    Actors = {a1, a2}
    Threads = {t1, t2}
    MaxPosts = 3
SYMMETRY Symmetry
INVARIANTS
    WatchTablesAgree
    NeverReturnedTwice
    NothingSkippedSilently
PROPERTIES
    CursorMonotone
    ImplementsInbox
