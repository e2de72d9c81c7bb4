\* Two processes that are suspended, crash anywhere and leave guards behind.
SPECIFICATION FairLockSpec
CONSTANTS
    Contender = {p1, p2}
    Stalls = TRUE
    GuardLeaks = TRUE
    MaxCrashes = 2
    Missing = Missing
PROPERTIES
    StaleLockRecovered
