\* The same question when a producer may crash between its receipt and its event.
SPECIFICATION ChainSpec
CONSTANTS
    s1 = s1
    s2 = s2
    c1 = c1
    c2 = c2
    profile1 = profile1
    f1 = f1
    r1 = r1
    Proc = {p1}
    Signer = {s1}
    MaxEvents = 2
    SignerCrashes = TRUE
    Call = {c1, c2}
    Profile = {profile1}
    Facts = {f1}
    Release = {r1}
    Generation = {1}
    KeyChoices = {TRUE}
    AckReceipt = {}
    Reason = {}
    MaxSequence = 3
    Crashes = TRUE
    Free = Free
    Orphan = Orphan
    None = None
INVARIANTS
    ExportComplete
