\* Two cold starts, two users that push, and three pairing requests of two devices.
SPECIFICATION Spec
CONSTANTS
    Starter = {p1, p2}
    Source = {a, b}
    MaxDeaths = 1
    Pusher = {u1, u2}
    Span = {1, 2}
    MaxBatch = 1
    MaxPerPush = 2
    Max429 = 1
    MaxResets = 1
    MaxStops = 1
    Device = {d1, d2}
    Request = {r1, r2, r3}
    MaxPending = 1
CHECK_DEADLOCK FALSE
INVARIANTS
    LockLeftOnlyByDead
    CompleteAtRest
    
PROPERTIES
    ColdStartReturns
    
    SharingSettles
