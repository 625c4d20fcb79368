CONSTANTS
    Pushers = {p1, p2}
    Announcers = {a1}
    Refs = {main, dev}
    MainRef = main
    c1 = c1
    c2 = c2
    Commits = {c1, c2}
    Parents <- Line
    NoCommit = none
    Start <- NewOrOnePush
    Threshold = 1
    MaxPacks = 2
SPECIFICATION Spec
SYMMETRY Symmetry
INVARIANTS TypeOK OneHistory NotifiedWasPublished PublishedCloneable
PROPERTY ImplementsAtomicRefs
