\* Keyed and keyless enqueues of one call, with acknowledgements and quarantine
\* decisions taken between them.
SPECIFICATION FairSpec
CONSTANTS
    p1 = p1
    p2 = p2
    Proc = {p1, p2}
    Call = {c1}
    Profile = {profile1}
    Facts = {f1}
    Release = {r1, r2}
    Generation = {1}
    KeyChoices = {TRUE, FALSE}
    AckReceipt = {receipt1}
    Reason = {reason1}
    MaxSequence = 4
    Crashes = TRUE
    Free = Free
    Orphan = Orphan
    None = None
INVARIANTS
    AcksMatchEvents
PROPERTIES
    FilesImmutable
    OperationsEnd
    LeaseFreed
