----------------------------- MODULE MCBlobServer -----------------------------
(* The routing and the manifest loading of the blob server in one run.      *)
(* They share no state, so each is checked with the other at rest: part     *)
(* names the one that moves.                                                *)
EXTENDS RoutingProps, ManifestLoadProps

VARIABLE part

BlobServerInit ==
    /\ part \in {"routing", "load"}
    /\ part = "load" => kvSite = TRUE
    /\ part = "routing" => healthy = TRUE
    /\ Init /\ LoadInit

RoutingMoves == part = "routing" /\ Next /\ UNCHANGED <<part, loadVars>>
LoadMoves == part = "load" /\ LoadNext /\ UNCHANGED <<part, vars>>

(* The fairness of each module, for the part that moves.                    *)
BlobServerSpec ==
    /\ BlobServerInit
    /\ [][RoutingMoves \/ LoadMoves]_<<part, vars, loadVars>>
    /\ \A r \in Request : WF_vars(part = "routing" /\ Resolve(r))
    /\ WF_vars(part = "routing" /\ Console)
    /\ \A s \in Server : WF_vars(part = "routing" /\ SiteExpires(s))
    /\ \A s \in Server : WF_vars(part = "routing" /\ ActiveExpires(s))
    /\ WF_vars(part = "routing" /\ KeyExpires)
    /\ \A r \in LoadRequest : WF_loadVars(part = "load" /\ Proceed(r))
    /\ WF_loadVars(part = "load" /\ ErrorExpires)

(* The type invariants of the two modules.                                  *)
BlobServerTypeOK == TypeOK /\ LoadTypeOK
=============================================================================
