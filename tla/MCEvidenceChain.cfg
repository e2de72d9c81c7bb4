\* Two signers and exporters beside one producer; every process may crash, and a
\* quarantine decision may come between any two steps.
SPECIFICATION ChainSpec
CONSTANTS
    s1 = s1
    s2 = s2
    c1 = c1
    c2 = c2
    profile1 = profile1
    f1 = f1
    r1 = r1
    Proc = {p1}
    Signer = {s1, s2}
    MaxEvents = 1
    SignerCrashes = TRUE
    Call = {c1, c2}
    Profile = {profile1}
    Facts = {f1}
    Release = {r1}
    Generation = {1}
    KeyChoices = {TRUE}
    AckReceipt = {}
    Reason = {reason1}
    MaxSequence = 4
    Crashes = TRUE
    Free = Free
    Orphan = Orphan
    None = None
SYMMETRY SignerSymmetry
INVARIANTS
    ChainVerifies
    SignedFromOutbox
PROPERTIES
    ChainGrows
