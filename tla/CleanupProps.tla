----------------------------- MODULE CleanupProps -----------------------------
(***************************************************************************)
(* What must be true of module Cleanup.                                    *)
(***************************************************************************)
EXTENDS Cleanup

(* What retention lets go: inactive, with Retention newer inactive ones. *)
MayGo(d) == d \notin active /\ Cardinality(Newer(d)) >= Retention

(* What a page serves, or may be rolled back to, is complete.  A job that  *)
(* is retried, delivered twice, killed half-way or run next to another     *)
(* page's job never takes an object that a kept deployment refers to.      *)
Servable(d) == d \in manifests /\ tree[d] \in objects /\ tree[d] \in blobs
RetainedServable ==
    \A pg \in Page : page[pg] = "live" =>
        \A d \in RowsOf(pg) \cap recorded : ~MayGo(d) => Servable(d)

(* A deployment row disappears only because its page was deleted, or when   *)
(* it is inactive and Retention newer inactive ones remain.                 *)
PurgedWasExpired ==
    [][\A d \in rows \ rows' : page[d[1]] = "live" => MayGo(d)]_vars

(* Next to deploys that are under way a job goes by a list that is old: a    *)
(* page may then be left with one row less than Retention, and not with two. *)
PurgedButOne ==
    [][\A d \in rows \ rows' : page[d[1]] = "live" =>
          d \notin active /\ Cardinality(Newer(d)) >= Retention - 1]_vars

(* A recorded deployment has a tree, and the rows of its objects are there.  *)
RecordedReferred == \A d \in recorded : tree[d] \in blobs

(* And what is kept, but for one row, has its manifest.  That leaves only    *)
(* the object itself to be lost: to a job that did not see it re-used.       *)
ManifestsButOne ==
    \A pg \in Page : page[pg] = "live" =>
        \A d \in RowsOf(pg) \cap recorded :
            d \in active \/ Cardinality(Newer(d)) < Retention - 1 => d \in manifests

(* deployment-gc.ts: the active deployment is never a target.               *)
ActiveNeverPurged ==
    [][\A d \in active \ rows' : page[d[1]] # "live"]_vars

(* No message stays in the queue for ever. *)
QueueDrains == \A s \in Slot : jpc[s] = "queued" ~> jpc[s] = "none"
=============================================================================
