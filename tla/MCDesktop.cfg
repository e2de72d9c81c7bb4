\* Two processes of every component; one call to be measured, one identity
\* rotation, one pause and one crash in the workspace.
SPECIFICATION DesktopSpec
CONSTANTS
    procA = procA
    procB = procB
    callA = callA
    fileA = fileA
    fileB = fileB
    Proc = {procA, procB}
    Call = {callA}
    Quarantines = TRUE
    MaxGeneration = 2
    MaxRevision = 2
    MaxCrashes = 1
    Free = Free
    Orphan = Orphan
    None = None
    Hydrator = {h1, h2}
    Host = {1, 2}
    Provider = {claude}
    Config = {1, 2}
    LastDay = 3
    Actor = {a1, a2}
    Path = {fileA, fileB}
    Plan <- Plans
    MaxActions = 2
    QuotaProvider = {claude, codex}
    LastAccount = 2
    MaxInvalidations = 1
SYMMETRY ProcSymmetry
CHECK_DEADLOCK FALSE
INVARIANTS
    DesktopTypeOK
    IdentityRecoverable
    WorkspaceBoundToIdentity
    RevisionCountsTransitions
    RecoveryHonest
    
    UndoRestores
    FailedActionRestores
    QuotaSinceInvalidated
PROPERTIES
    LineageSpec
    WorkspaceNeverGoesBack
    PauseStopsProduction
    HistoryKept
