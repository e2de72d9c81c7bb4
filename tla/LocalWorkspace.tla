--------------------------- MODULE LocalWorkspace ---------------------------
(***************************************************************************)
(* The personal workspace of an endpoint (src/local-state/                 *)
(* local-workspace.ts, workspace-software-reconciliation.ts): one file,    *)
(* bound to the endpoint and to a generation of its identity.  Every       *)
(* process works with the identity it once loaded, which a rotation by     *)
(* another process may have made an old one.                               *)
(*                                                                         *)
(* A section under the workspace lease writes one file at most: it is one  *)
(* action, and a crash in it is a crash before or after that write.        *)
(***************************************************************************)
EXTENDS EndpointIdentity

\* A software version is named after a process that runs it.
Workspace == [id : Proc, identity : Identity, software : Proc]

ASSUME WorkspaceAssumption == None \notin Workspace

VARIABLES
    workspace,   \* workspace/personal-workspace-v1.json
    verified     \* processes between the two sections of a software update

workspaceVars == <<workspace, verified>>

WorkspaceTypeOK ==
    /\ workspace \in Workspace \cup {None}
    /\ verified \subseteq Proc

WorkspaceInit == workspace = None /\ verified = {}

Ready(p) == at[p] = "ready"

-----------------------------------------------------------------------------
(* loadAndReconcileUnlocked *)

\* A workspace of another endpoint, or of a newer generation or another key
\* pair than the caller holds, is LocalWorkspaceRecoveryRequiredError.
Acceptable(p) ==
    /\ workspace # None
    /\ workspace.identity.endpoint = loaded[p].endpoint
    /\ workspace.identity.generation <= loaded[p].generation
    /\ workspace.identity.generation = loaded[p].generation =>
           workspace.identity = loaded[p]

\* The workspace is loaded, and brought to the caller's generation if it is of
\* an older one.
LoadWorkspace(p) ==
    /\ Ready(p)
    /\ Acceptable(p)
    /\ workspace' = [workspace EXCEPT !.identity = loaded[p]]

\* createLocalPersonalWorkspaceV1
CreateWorkspace(p) ==
    /\ Ready(p)
    /\ \/ LoadWorkspace(p)
       \/ /\ workspace = None
          /\ workspace' = [id |-> p, identity |-> loaded[p], software |-> p]
    /\ UNCHANGED verified

-----------------------------------------------------------------------------
(* reconcileLocalWorkspaceSoftwareV1: two sections, and the second checks that *)
(* the identity is still the one the first has seen.                          *)

VerifyForSoftware(p) ==
    /\ p \notin verified
    /\ LoadWorkspace(p)
    /\ verified' = verified \cup {p}

FaultyUpdateSoftware(p) ==
    /\ p \in verified
    /\ workspace' = [workspace EXCEPT !.software = p, !.identity = loaded[p]]
    /\ verified' = verified \ {p}

\* A changed identity is LocalWorkspaceRecoveryRequiredError.
UpdateSoftware(p) ==
    /\ p \in verified
    /\ workspace' = IF workspace.identity = loaded[p]
                    THEN [workspace EXCEPT !.software = p]
                    ELSE workspace
    /\ verified' = verified \ {p}

-----------------------------------------------------------------------------
(* Properties *)

\* The workspace file follows the identity and never goes back: it keeps its id
\* and endpoint, its generation only grows, and one generation has one key pair,
\* although processes with an old identity go on working on it.
WorkspaceNeverGoesBack ==
    [][workspace # None =>
        /\ workspace' # None
        /\ workspace'.id = workspace.id
        /\ workspace'.identity.endpoint = workspace.identity.endpoint
        /\ workspace'.identity = workspace.identity
              \/ workspace'.identity.generation > workspace.identity.generation]_workspace

\* An identity opened now can load the workspace: the file never refers to a
\* generation, a key pair or an endpoint that the secret does not have or had
\* ("local workspace references a newer endpoint identity generation").
WorkspaceBoundToIdentity ==
    workspace # None =>
        /\ secret # None
        /\ workspace.identity.endpoint = secret.identity.endpoint
        /\ workspace.identity.generation <= secret.identity.generation
        /\ workspace.identity.generation = secret.identity.generation =>
               workspace.identity = secret.identity
=============================================================================
