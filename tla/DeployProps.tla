----------------------------- MODULE DeployProps -----------------------------
(***************************************************************************)
(* What must be true of module Deploy.                                     *)
(***************************************************************************)
EXTENDS Deploy

-----------------------------------------------------------------------------
(* Properties that need neither a working lock nor well-behaved clients. *)

(* At most one row of the page is active, whatever the lock does: the      *)
(* activation transaction deactivates the row it read, and the partial     *)
(* unique index stops it when that read is out of date.                    *)
OneActive == Cardinality(active) <= 1

(* A row goes live only when its tree and its manifest are stored: two     *)
(* requests, a rollback of a half-written row included, may not bring a    *)
(* row live between its INSERT and its manifest.                           *)
ActiveReady == active \subseteq treed \cap manifests

(* Two requests never write the same deployment row: both may read the     *)
(* same next version, but only one INSERT succeeds.                        *)
Writing == {"tree", "manifest", "newer", "assert", "fence", "find", "apply",
            "publish", "complete"}
OneWriterPerRow ==
    \A p, q \in Proc :
        /\ p # q /\ pc[p] \in Writing /\ pc[q] \in Writing
        /\ hold[p].op = "deploy" /\ hold[q].op = "deploy"
        => ver[p] # ver[q]

(* A completed key names a row that did go live and whose commit named that *)
(* key: a replayed prepare reports neither a deployment that failed, nor    *)
(* one that a newer commit superseded before it was ever active, nor that   *)
(* of a commit which named another key.                                     *)
CompletedWasDeployed ==
    \A k \in Key : idem[k] = "completed" =>
        result[k] \in wentLive /\ owner[result[k]] = k

(* Redis follows the database: the pointer only ever names a row whose     *)
(* activation has committed, never one that is only written, or one that   *)
(* was superseded without having been active.                              *)
PointerFollowsCommit == pointer # NoVersion => pointer \in wentLive

(* The page only moves from one ready deployment to another, in one step:  *)
(* a failed or crashed deploy or rollback leaves the old one live.         *)
Promise == INSTANCE PageLive WITH ready <- manifests, live <- active
ImplementsPageLive == Promise!Spec

-----------------------------------------------------------------------------
(* Properties that need a lock that outlives its holder's work (Lapse =     *)
(* FALSE) and one running request per lock holder (Dup = FALSE).            *)

(* The body of withLock runs alone. *)
LockedAlone ==
    \A p, q \in Proc : pc[p] \in Locked /\ pc[q] \in Locked => p = q

(* is_active and status agree: CommitNewer's "superseded" is written by a  *)
(* request that may have been overtaken, without looking at is_active.     *)
StatusAgrees == \A v \in Version : status[v] = "active" <=> v \in active

(* A deploy that a newer active deployment has overtaken is not activated. *)
DeployActivates(p) ==
    pc[p] = "apply" /\ pc'[p] = "publish" /\ hold[p].op = "deploy"
NoStaleActivation ==
    [][\A p \in Proc : DeployActivates(p) => \A v \in active : v <= ver[p]]_vars

(* A request that writes the Redis pointer writes the row that is active   *)
(* at that moment: pointer writes are not applied out of order.            *)
PublishesActive ==
    [][pointer' \notin {pointer, NoVersion} => pointer' \in active]_vars

(* A key that was completed is never deployed a second time. *)
NoRedeploy ==
    [][\A p \in Proc : DeployActivates(p) => idem[hold[p].of] # "completed"]_vars

-----------------------------------------------------------------------------
(* Liveness *)

(* A lock whose holder has gone for good is freed: what a crash, a failed   *)
(* release or a heartbeat that lands after the release leave behind must    *)
(* not block the page for ever.                                             *)
Gone(h) == \A p \in Proc : hold[p] # h
LockFreed == \A h \in Holder : <>[]Gone(h) => []<>(lock # h)

-----------------------------------------------------------------------------
(* A claim of the repository that the code does not meet. *)

(* The fence: once the page is deleted, no deploy goes live. *)
NoDeployAfterDelete ==
    [][\A p \in Proc : DeployActivates(p) => page = "live"]_vars

=============================================================================
