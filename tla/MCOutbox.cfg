\* Keyed production only, as the program's own callers use the outbox: two
\* concurrent callers, two calls of one profile, a rotated event-identity key,
\* crashes and failing writes at every step.
SPECIFICATION Spec
CONSTANTS
    p1 = p1
    p2 = p2
    Proc = {p1, p2}
    Call = {c1, c2}
    Profile = {profile1}
    Facts = {f1, f2}
    Release = {r1}
    Generation = {1, 2}
    KeyChoices = {TRUE}
    AckReceipt = {}
    Reason = {}
    MaxSequence = 4
    Crashes = TRUE
    Free = Free
    Orphan = Orphan
    None = None
SYMMETRY ProcSymmetry
INVARIANTS
    TypeOK
    NoSequenceReuse
    OneMeasurementPerKey
    ReceiptsRepairable
    EnqueueDurable
    ReconcileHeals
PROPERTIES
    LogSpec
