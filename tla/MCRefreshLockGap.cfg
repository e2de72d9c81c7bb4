\* The gap in which a taker has removed the stale lock.
SPECIFICATION LockSpec
CONSTANTS
    Contender = {p1, p2}
    Stalls = FALSE
    GuardLeaks = FALSE
    MaxCrashes = 1
    Missing = Missing
INVARIANTS
    CompletedMeansReleased
