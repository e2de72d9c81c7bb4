\* Signers and exporters that crash anywhere and acknowledge with different
\* receipts, beside a producer that does not crash and whose writes succeed.
SPECIFICATION ChainSpec
CONSTANTS
    s1 = s1
    s2 = s2
    c1 = c1
    c2 = c2
    profile1 = profile1
    f1 = f1
    r1 = r1
    Proc = {p1}
    Signer = {s1, s2}
    MaxEvents = 2
    SignerCrashes = TRUE
    Call = {c1, c2}
    Profile = {profile1}
    Facts = {f1}
    Release = {r1}
    Generation = {1}
    KeyChoices = {TRUE}
    AckReceipt = {receipt1, receipt2}
    Reason = {}
    MaxSequence = 3
    Crashes = FALSE
    Free = Free
    Orphan = Orphan
    None = None
SYMMETRY SignerSymmetry
INVARIANTS
    ExportComplete
    BatchAckComplete
