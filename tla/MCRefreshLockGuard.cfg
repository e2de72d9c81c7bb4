\* A guard left behind beside a stale lock.
SPECIFICATION LockSpec
CONSTANTS
    Contender = {p1, p2}
    Stalls = FALSE
    GuardLeaks = TRUE
    MaxCrashes = 2
    Missing = Missing
INVARIANTS
    MutualExclusion
