------------------------------- MODULE PageLive -------------------------------
(***************************************************************************)
(* What the console promises about the content of one page: a deployment   *)
(* is either unfinished or ready (its manifest is stored and immutable),   *)
(* the page serves nothing until a first ready deployment goes live, and   *)
(* from then on it serves exactly one ready deployment, replaced by        *)
(* another one in a single step.                                           *)
(***************************************************************************)
CONSTANT Version

VARIABLES
    ready,  \* deployments that may be served
    live    \* the deployment that is served: a set of at most one

vars == <<ready, live>>

Init == ready = {} /\ live = {}

(* A manifest is stored; it is never withdrawn. *)
Finalize(v) == ready' = ready \cup {v} /\ UNCHANGED live

(* Activation by a deploy or by a rollback. *)
GoLive(v) == v \in ready /\ live' = {v} /\ UNCHANGED ready

Next == \E v \in Version : Finalize(v) \/ GoLive(v)

Spec == Init /\ [][Next]_vars
=============================================================================
