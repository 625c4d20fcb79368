CONSTANTS
    Pushers = {p1}
    Announcers = {a1, a2}
    Refs = {main, dev}
    MainRef = main
    c1 = c1
    c2 = c2
    Commits = {c1, c2}
    Parents <- Line
    NoCommit = none
    Start <- NewOrOnePush
    Threshold = 1
    MaxPacks = 2
SPECIFICATION Spec
INVARIANT AcceptedKeepsName
